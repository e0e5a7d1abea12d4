------------------------- MODULE FrameBufferProofs --------------------------
(***************************************************************************)
(* Proof that FrameBuffer gives the decoder no frame before the frames it  *)
(* refers to, for every stream of frames and every width of the history,   *)
(* as long as the buffer is not cleared while the decoder waits.           *)
(***************************************************************************)
EXTENDS FrameBuffer, FiniteSetTheorems, SequenceTheorems, WellFoundedInduction, TLAPS

-----------------------------------------------------------------------------
(* The invariant *)

Info == [frame : Stream \cup {NoFrame}, missing_continuous : Int,
         missing_decodable : Nat, dependents : Seq(Nat)]

Ids(d) == {d[k].id : k \in DOMAIN d}

\* The frames d were decoded in the order of their ids, each after its references.
InOrder(d) ==
    /\ d \in Seq(Stream)
    /\ \A i \in DOMAIN d :
        /\ \A r \in d[i].refs : \E j \in 1..i - 1 : d[j].id = r
        /\ \A j \in 1..i - 1 : d[j].id < d[i].id

\* What the history's ring says was decoded is among the frames d, the last of which it knows.
Remembers(h, d) ==
    /\ h \in [last : Nat \cup {None}, ts : Nat, buffer : [0..Window - 1 -> BOOLEAN]]
    /\ h.last = None => \A i \in 0..Window - 1 : h.buffer[i] = FALSE
    /\ \A id \in Nat : WasDecoded(h, id) => id \in Ids(d)
    /\ \A id \in Ids(d) : id <= h.last

\* An entry's frame has its id, and counts each reference that is not decoded yet.
Counts(id, info, ids) ==
    info.frame # NoFrame =>
        /\ info.frame.id = id
        /\ \A r \in info.frame.refs : r < id
        /\ Cardinality(info.frame.refs \ ids) <= info.missing_decodable

\* The dependents of an entry are frames of the buffer that refer to it.
Linked(m) ==
    \A r \in DOMAIN m : \A k \in DOMAIN m[r].dependents :
        LET d == m[r].dependents[k]
        IN  d \in DOMAIN m /\ m[d].frame # NoFrame /\ r \in m[d].frame.refs

\* The entries m, all of them after the last frame decoded, when the ids were decoded.
Entries(m, last, ids) ==
    /\ IsFiniteSet(DOMAIN m) /\ DOMAIN m \subseteq Nat /\ m \in [DOMAIN m -> Info]
    /\ \A id \in DOMAIN m : id > last /\ Counts(id, m[id], ids)
    /\ Linked(m)

\* A frame that may be given to the decoder: none of its references is missing.
Ready(m, id) == id \in DOMAIN m /\ m[id].frame # NoFrame /\ m[id].missing_decodable = 0

Closure == [op : {"restart", "stopped"}] \cup [op : {"start"}, delay : Nat]

WaitType ==
    /\ now \in Nat /\ next \in Nat \cup {None} /\ queue \in Seq(Closure)
    /\ waiting \in [pending : BOOLEAN, deadline : Nat, keyframe : BOOLEAN]
    /\ task \in [alive : BOOLEAN, due : Nat \cup {None}]

\* The task runs while a decoder waits, and its first closure is on the queue at most once,
\* before the task is due.
OneTask ==
    /\ task.alive => waiting.pending
    /\ \A k \in DOMAIN queue : queue[k].op = "start" =>
        /\ task.alive /\ task.due = None
        /\ \A j \in DOMAIN queue : queue[j].op = "start" => j = k

\* The frame the task waits for stays ready.
WaitsForReady == task.alive /\ next # None => Ready(infos, next)

ReferencesInv ==
    /\ InOrder(decoded) /\ Remembers(history, decoded)
    /\ Entries(infos, history.last, Ids(decoded))
    /\ WaitType /\ OneTask /\ WaitsForReady

-----------------------------------------------------------------------------
(* The history's ring *)

\* A positive multiple of the width is at least the width.
LEMMA Multiple ==
  ASSUME NEW k \in Int, k >= 1
  PROVE Window * k >= Window
  BY FrameBufferAssumption

\* The place of an id that is fewer than Window ids after another one.
LEMMA IndexAhead ==
  ASSUME NEW a \in Nat, NEW k \in Nat, k < Window
  PROVE /\ Index(a) \in 0..Window - 1
        /\ Index(a + k) = IF Index(a) + k < Window THEN Index(a) + k ELSE Index(a) + k - Window
<1> DEFINE q == a \div Window
           r == a % Window
           p == (a + k) \div Window
           s == (a + k) % Window
<1>1. Window \in Nat /\ Window > 0
  BY FrameBufferAssumption
<1>2. a = Window * q + r /\ r \in 0..Window - 1 /\ q \in Int
  BY <1>1
<1>3. a + k = Window * p + s /\ s \in 0..Window - 1 /\ p \in Int
  BY <1>1
<1>4. Index(a) = r /\ Index(a + k) = s
  BY DEF Index
<1> HIDE DEF q, r, p, s
<1>5. Window * (p - q) = r + k - s /\ Window * (q - p) = s - r - k
      /\ Window * (p - q - 1) = r + k - s - Window
  BY <1>1, <1>2, <1>3
<1>6. ~(q - p >= 1)
  BY <1>1, <1>2, <1>3, <1>5, Multiple
<1>7. ~(p - q - 1 >= 1)
  BY <1>1, <1>2, <1>3, <1>5, Multiple
<1>8. p - q = 0 \/ p - q = 1
  BY <1>2, <1>3, <1>6, <1>7
<1>9. r + k - s = 0 \/ r + k - s = Window
  BY <1>1, <1>2, <1>3, <1>5, <1>8
<1> QED
  BY <1>1, <1>2, <1>3, <1>4, <1>9

\* The history still remembers only what was decoded when a later frame is inserted: the
\* flags it clears are those of the ids in between.
LEMMA InsertRemembers ==
  ASSUME NEW h, NEW d \in Seq(Stream), Remembers(h, d), NEW f \in Stream, f.id > h.last
  PROVE Remembers(HistoryInsert(h, f), Append(d, f))
<1> DEFINE g == HistoryInsert(h, f)
           e == Append(d, f)
           from == Index(h.last)
           to == Index(f.id)
           skipped == IF h.last = None THEN {}
                      ELSE IF f.id - h.last >= Window THEN 0..Window - 1
                      ELSE IF to > from THEN from + 1..to - 1
                      ELSE (from + 1..Window - 1) \cup 0..to - 1
<1>1. Window \in Nat /\ Window > 0 /\ f.id \in Nat /\ f.ts \in Nat
  BY FrameBufferAssumption
<1>2. h.last \in Nat \cup {-1} /\ h.buffer \in [0..Window - 1 -> BOOLEAN] /\ None = -1
  BY DEF Remembers, None
<1>3. g = [last |-> f.id, ts |-> f.ts,
           buffer |-> [i \in 0..Window - 1 |-> i = to \/ (h.buffer[i] /\ i \notin skipped)]]
  BY DEF HistoryInsert
<1>4. Ids(e) = Ids(d) \cup {f.id}
  <2>1. DOMAIN e = 1..Len(d) + 1 /\ DOMAIN d = 1..Len(d) /\ Len(d) \in Nat
    BY AppendProperties, LenProperties
  <2>2. \A k \in 1..Len(d) : e[k] = d[k]
    BY AppendProperties
  <2>3. e[Len(d) + 1] = f
    BY AppendProperties
  <2> QED
    BY <2>1, <2>2, <2>3 DEF Ids
<1>5. to \in 0..Window - 1
  BY <1>1, IndexAhead
<1> HIDE DEF e, to, from, skipped, g
<1>6. g.last = f.id /\ g.ts = f.ts /\ g.buffer \in [0..Window - 1 -> BOOLEAN]
  BY <1>3
<1>7. g \in [last : Nat \cup {None}, ts : Nat, buffer : [0..Window - 1 -> BOOLEAN]]
  BY <1>1, <1>3, <1>6
<1>8. \A id \in Ids(e) : id <= g.last
  <2>1. \A id \in Ids(d) : id <= h.last /\ id \in Int
    <3>1. \A k \in DOMAIN d : d[k] \in Stream
      BY LenProperties, ElementOfSeq
    <3> QED
      BY <3>1, FrameBufferAssumption DEF Ids, Remembers
  <2> QED
    BY <1>1, <1>2, <1>4, <1>6, <2>1
<1>9. ASSUME NEW id \in Nat, WasDecoded(g, id), id # f.id PROVE id \in Ids(d)
  <2>1. id > f.id - Window /\ id < f.id /\ g.buffer[Index(id)]
    BY <1>1, <1>6, <1>9 DEF WasDecoded
  <2>2. f.id - id \in Nat /\ f.id - id < Window /\ f.id - id # 0 /\ id + (f.id - id) = f.id
    BY <1>1, <2>1
  <2>3. Index(id) \in 0..Window - 1 /\ Index(id) # to
    <3>1. Index(id) \in 0..Window - 1
          /\ Index(id + (f.id - id)) = IF Index(id) + (f.id - id) < Window THEN Index(id) + (f.id - id)
                                       ELSE Index(id) + (f.id - id) - Window
      BY <2>2, IndexAhead
    <3> QED
      BY <1>1, <2>2, <3>1 DEF to
  <2>4. h.buffer[Index(id)] = TRUE /\ Index(id) \notin skipped
    BY <1>2, <1>3, <2>1, <2>3
  <2>5. h.last \in Nat /\ h.last # None
    BY <1>2, <2>3, <2>4 DEF Remembers
  <2>6. f.id - h.last < Window
    BY <1>1, <2>3, <2>4, <2>5 DEF skipped
  <2>7. CASE id <= h.last
    <3>1. WasDecoded(h, id)
      BY <1>1, <2>1, <2>4, <2>5, <2>6, <2>7 DEF WasDecoded
    <3> QED
      BY <3>1 DEF Remembers
  <2>8. CASE id > h.last
    <3> DEFINE k == id - h.last
               n == f.id - h.last
    <3>a. id \in Nat /\ id < f.id /\ f.id \in Nat /\ Window \in Nat
      BY <1>1, <2>1
    <3>1. k \in Nat /\ n \in Nat /\ k > 0 /\ k < n /\ n < Window /\ k < Window /\ id = h.last + k /\ f.id = h.last + n
      <4> DEFINE l == h.last
                 t == f.id
      <4>1. l \in Nat /\ t \in Nat /\ id \in Nat /\ id > l /\ id < t /\ t - l < Window /\ Window \in Nat
        BY <2>5, <2>6, <2>8, <3>a
      <4> HIDE DEF l, t
      <4>2. id - l \in Nat /\ t - l \in Nat /\ id - l > 0 /\ id - l < t - l /\ id - l < Window
            /\ id = l + (id - l) /\ t = l + (t - l)
        BY <4>1
      <4> QED
        BY <4>1, <4>2 DEF l, t
    <3> HIDE DEF k, n
    <3>2. /\ from \in 0..Window - 1
          /\ Index(h.last + k) = IF from + k < Window THEN from + k ELSE from + k - Window
      BY <2>5, <3>1, IndexAhead DEF from
    <3>3. Index(h.last + n) = IF from + n < Window THEN from + n ELSE from + n - Window
      BY <2>5, <3>1, IndexAhead DEF from
    <3>4. skipped = IF to > from THEN from + 1..to - 1 ELSE (from + 1..Window - 1) \cup 0..to - 1
      BY <1>1, <2>5, <2>6 DEF skipped
    <3>5. to = Index(h.last + n) /\ Index(id) = Index(h.last + k)
      BY <3>1 DEF to
    <3>6. Index(id) \in skipped
      <4>1. CASE from + n < Window
        BY <1>1, <3>1, <3>2, <3>3, <3>4, <3>5, <4>1
      <4>2. CASE from + n >= Window
        <5>1. to = from + n - Window /\ ~(to > from)
          BY <1>1, <3>1, <3>2, <3>3, <3>5, <4>2
        <5>2. CASE from + k < Window
          BY <1>1, <3>1, <3>2, <3>4, <3>5, <5>1, <5>2
        <5>3. CASE from + k >= Window
          <6>1. Index(id) = from + k - Window /\ Index(id) \in 0..to - 1
            BY <1>1, <3>1, <3>2, <3>5, <5>1, <5>3
          <6> QED
            BY <3>4, <5>1, <6>1
        <5> QED
          BY <1>1, <3>1, <3>2, <5>2, <5>3
      <4> QED
        BY <1>1, <3>1, <3>2, <4>1, <4>2
    <3> QED
      BY <2>4, <3>6
  <2> QED
    BY <2>5, <2>7, <2>8
<1> QED
  BY <1>1, <1>2, <1>4, <1>6, <1>7, <1>8, <1>9 DEF Remembers, e, g

-----------------------------------------------------------------------------
(* PropagateContinuity *)

IsBuffer(b) ==
    b = [infos |-> b.infos, continuous |-> b.continuous, history |-> b.history, next |-> b.next]

\* Two entries that differ in missing_continuous only.
SameInfo(i, j) ==
    i.frame = j.frame /\ i.missing_decodable = j.missing_decodable /\ i.dependents = j.dependents

\* The buffer c is b but for what is continuous.
Kept(b, c) ==
    /\ IsBuffer(c) /\ c.history = b.history /\ c.next = b.next
    /\ DOMAIN c.infos = DOMAIN b.infos /\ c.infos \in [DOMAIN b.infos -> Info]
    /\ \A i \in DOMAIN b.infos : SameInfo(c.infos[i], b.infos[i])

\* A frame's visit changes nothing but continuity.
LEMMA VisitKeeps ==
  ASSUME NEW b, NEW s, Kept(b, s.b)
  PROVE Kept(b, Visit(s).b)
<1> DEFINE id == Head(s.todo)
           deps == SelectSeq(s.b.infos[id].dependents, LAMBDA d : Has(s.b, d))
           down == [i \in DOMAIN s.b.infos |->
                       IF \E k \in 1..Len(deps) : deps[k] = i
                       THEN [s.b.infos[i] EXCEPT !.missing_continuous = @ - 1] ELSE s.b.infos[i]]
           last == IF s.b.continuous < s.b.infos[id].frame.id THEN s.b.infos[id].frame.id
                   ELSE s.b.continuous
           c == Visit(s).b
<1>1. c = [s.b EXCEPT !.infos = down, !.continuous = last]
  BY DEF Visit
<1> HIDE DEF deps, id, c
<1>2. ASSUME NEW i \in DOMAIN b.infos
      PROVE down[i] \in Info /\ SameInfo(down[i], b.infos[i])
  <2>1. s.b.infos[i] \in Info /\ SameInfo(s.b.infos[i], b.infos[i]) /\ i \in DOMAIN s.b.infos
    BY DEF Kept
  <2> DEFINE e == s.b.infos[i]
             m == [e EXCEPT !.missing_continuous = @ - 1]
  <2>2. m \in Info /\ SameInfo(m, e)
    BY <2>1 DEF Info, SameInfo
  <2>3. down[i] = m \/ down[i] = e
    BY <2>1
  <2> QED
    BY <2>1, <2>2, <2>3 DEF SameInfo
<1>3. DOMAIN down = DOMAIN b.infos
  BY DEF Kept
<1>4. down \in [DOMAIN b.infos -> Info]
  BY <1>2, <1>3
<1> HIDE DEF down, last
<1>5. s.b = [infos |-> s.b.infos, continuous |-> s.b.continuous, history |-> s.b.history, next |-> s.b.next]
  BY DEF Kept, IsBuffer
<1>6. c = [infos |-> down, continuous |-> last, history |-> s.b.history, next |-> s.b.next]
  BY <1>1, <1>5
<1> QED
  BY <1>2, <1>3, <1>4, <1>6 DEF Kept, IsBuffer, c

WalkStep(s) == IF s.todo = <<>> THEN s ELSE Visit(s)

IsWalk(w, start, n) == w = [m \in 0..n |-> IF m = 0 THEN start ELSE WalkStep(w[m - 1])]

\* A set of numbers that is not empty has a first one.
LEMMA FirstNumber ==
  ASSUME NEW S \in SUBSET Nat, S # {}
  PROVE \E m \in S : \A y \in Nat : y < m => y \notin S
<1>1. PICK m \in S : \A y \in S : ~(<<y, m>> \in OpToRel(<, Nat))
  BY WFMin, NatLessThanWellFounded
<1>2. ASSUME NEW y \in Nat, y < m PROVE y \notin S
  BY <1>1, <1>2 DEF OpToRel
<1> QED
  BY <1>2

\* There is a walk of every length.
LEMMA WalkExists ==
  ASSUME NEW start, NEW n \in Nat
  PROVE \E w : IsWalk(w, start, n)
<1> DEFINE S == {m \in Nat : ~(\E w : IsWalk(w, start, m))}
<1> SUFFICES ASSUME S # {} PROVE FALSE
  OBVIOUS
<1>1. PICK m \in S : \A y \in Nat : y < m => y \notin S
  BY FirstNumber
<1>2. m # 0
  <2> DEFINE w == [k \in 0..0 |-> start]
  <2>1. IsWalk(w, start, 0)
    BY DEF IsWalk
  <2> QED
    BY <1>1, <2>1
<1>3. m - 1 \in Nat /\ m - 1 < m
  BY <1>1, <1>2
<1>4. PICK v : IsWalk(v, start, m - 1)
  BY <1>1, <1>3
<1> DEFINE w == [k \in 0..m |-> IF k = m THEN WalkStep(v[m - 1]) ELSE v[k]]
<1>5. v = [k \in 0..m - 1 |-> IF k = 0 THEN start ELSE WalkStep(v[k - 1])]
  BY <1>4 DEF IsWalk
<1>6. \A k \in 0..m : w[k] = IF k = 0 THEN start ELSE WalkStep(w[k - 1])
  <2> SUFFICES ASSUME NEW k \in 0..m PROVE w[k] = IF k = 0 THEN start ELSE WalkStep(w[k - 1])
    OBVIOUS
  <2>1. CASE k = 0
    BY <1>2, <1>3, <1>5, <2>1
  <2>2. CASE k # 0
    <3>1. k - 1 \in 0..m /\ k - 1 # m
      BY <1>1, <2>2
    <3>2. w[k - 1] = v[k - 1]
      BY <3>1
    <3>3. CASE k = m
      BY <2>2, <3>2, <3>3
    <3>4. CASE k # m
      <4>1. k \in 0..m - 1
        BY <1>1, <3>4
      <4>2. v[k] = WalkStep(v[k - 1])
        BY <1>5, <2>2, <4>1
      <4> QED
        BY <2>2, <3>2, <3>4, <4>2
    <3> QED
      BY <3>3, <3>4
  <2> QED
    BY <2>1, <2>2
<1>7. DOMAIN w = 0..m /\ w = [k \in 0..m |-> w[k]]
  OBVIOUS
<1> HIDE DEF w
<1>8. IsWalk(w, start, m)
  BY <1>6, <1>7 DEF IsWalk
<1> QED
  BY <1>1, <1>8

\* A walk changes nothing but continuity.
LEMMA WalkKeeps ==
  ASSUME NEW b, NEW start, Kept(b, start.b), NEW n \in Nat, NEW w, IsWalk(w, start, n)
  PROVE Kept(b, w[n].b)
<1> DEFINE S == {m \in Nat : m <= n /\ ~Kept(b, w[m].b)}
<1> SUFFICES ASSUME S # {} PROVE FALSE
  OBVIOUS
<1>1. PICK m \in S : \A y \in Nat : y < m => y \notin S
  BY FirstNumber
<1>2. m \in 0..n /\ ~Kept(b, w[m].b)
  BY <1>1
<1>3. w[m] = IF m = 0 THEN start ELSE WalkStep(w[m - 1])
  BY <1>2 DEF IsWalk
<1>4. m # 0
  BY <1>2, <1>3
<1>5. m - 1 \in Nat /\ m - 1 < m /\ m - 1 <= n
  BY <1>2, <1>4
<1>6. Kept(b, w[m - 1].b)
  BY <1>1, <1>5
<1>7. Kept(b, Visit(w[m - 1]).b)
  BY <1>6, VisitKeeps
<1> QED
  BY <1>2, <1>3, <1>4, <1>6, <1>7 DEF WalkStep

\* PropagateContinuity leaves the frames, their references and the history alone.
LEMMA PropagateKeeps ==
  ASSUME NEW b, NEW id, IsBuffer(b), IsFiniteSet(DOMAIN b.infos), b.infos \in [DOMAIN b.infos -> Info]
  PROVE Kept(b, PropagateContinuity(b, id))
<1> DEFINE steps == Cardinality(DOMAIN b.infos)
           start == [b |-> b, todo |-> <<id>>]
           walk == CHOOSE w : IsWalk(w, start, steps)
<1>1. steps \in Nat
  BY FS_CardinalityType
<1>2. Kept(b, start.b)
  BY DEF Kept, SameInfo
<1>3. PropagateContinuity(b, id) = walk[steps].b
  BY DEF PropagateContinuity, IsWalk, WalkStep
<1> HIDE DEF start, steps
<1>4. IsWalk(walk, start, steps)
  BY <1>1, WalkExists
<1> QED
  BY <1>1, <1>2, <1>3, <1>4, WalkKeeps

-----------------------------------------------------------------------------
(* InsertFrame *)

\* The buffer c has the entries that b's invariant asks for, and what was ready still is.
Grown(b, c, ids) ==
    /\ IsBuffer(c) /\ c.history = b.history /\ c.next = b.next
    /\ Entries(c.infos, b.history.last, ids)
    /\ \A id \in DOMAIN b.infos : Ready(b.infos, id) => Ready(c.infos, id)

\* What InsertFrame has checked when it emplaces f in the buffer b, after the frames d.
Accepts(b, d, f) ==
    /\ IsBuffer(b) /\ d \in Seq(Stream) /\ Remembers(b.history, d)
    /\ Entries(b.infos, b.history.last, Ids(d))
    /\ ValidReferences(f) /\ f.id > b.history.last
    /\ Has(b, f.id) => b.infos[f.id].frame = NoFrame

\* The entry of an id is a record, with no frame when there was none.
LEMMA EntryShape ==
  ASSUME NEW b, b.infos \in [DOMAIN b.infos -> Info], NEW id
  PROVE Entry(b, id) \in Info
<1>1. EmptyInfo \in Info
  BY EmptySeq DEF EmptyInfo, Info
<1> QED
  BY <1>1 DEF Entry, Has

LEMMA FrameFacts ==
  ASSUME NEW f \in Stream
  PROVE f.id \in Nat /\ f.refs \in SUBSET Nat /\ IsFiniteSet(f.refs) /\ f # NoFrame
<1>1. f.id \in Nat /\ f.refs \in SUBSET Nat /\ IsFiniteSet(f.refs)
  BY FrameBufferAssumption
<1>2. NoFrame.id = -1
  BY DEF NoFrame, None
<1> QED
  BY <1>1, <1>2

\* EmplaceFrameInfo counts the references that are still to be decoded, and links the frame
\* to each of them.
LEMMA EmplaceGrows ==
  ASSUME NEW b, NEW d, NEW f \in Stream, Accepts(b, d, f), Undecodable(b, f) = {}
  PROVE Grown(b, EmplaceFrameInfo(b, f), Ids(d))
<1> DEFINE refs == Unfulfilled(b, f)
           waits == {r \in refs : ~(Has(b, r) /\ b.infos[r].missing_continuous = 0)}
           mc == Cardinality(waits)
           md == Cardinality(refs)
           old == Entry(b, f.id)
           info == [old EXCEPT !.frame = f, !.missing_continuous = mc, !.missing_decodable = md]
           all == DOMAIN b.infos \cup refs \cup {f.id}
           linked(i) == [Entry(b, i) EXCEPT !.dependents = Append(@, f.id)]
           m == [i \in all |-> IF i = f.id THEN info ELSE IF i \in refs THEN linked(i) ELSE b.infos[i]]
           c == EmplaceFrameInfo(b, f)
           last == b.history.last
<1>1. /\ IsBuffer(b) /\ b.infos \in [DOMAIN b.infos -> Info] /\ DOMAIN b.infos \subseteq Nat
      /\ IsFiniteSet(DOMAIN b.infos) /\ Linked(b.infos) /\ last \in Nat \cup {-1} /\ None = -1
      /\ \A id \in DOMAIN b.infos : id > last /\ Counts(id, b.infos[id], Ids(d))
  BY DEF Accepts, Entries, Remembers, None
<1>2. f.id \in Nat /\ f.refs \in SUBSET Nat /\ IsFiniteSet(f.refs) /\ f # NoFrame
  BY FrameFacts
<1>3. \A r \in f.refs : r < f.id
  BY DEF Accepts, ValidReferences
<1>4. refs \subseteq f.refs /\ \A r \in refs : r > last
  BY <1>1, <1>2 DEF Unfulfilled
<1>5. IsFiniteSet(refs) /\ IsFiniteSet(waits) /\ mc \in Nat /\ md \in Nat
  <2>1. IsFiniteSet(refs)
    BY <1>2, <1>4, FS_Subset
  <2>2. waits \in SUBSET refs
    OBVIOUS
  <2> HIDE DEF waits, refs
  <2>3. IsFiniteSet(waits)
    BY <2>1, <2>2, FS_Subset
  <2> QED
    BY <2>1, <2>3, FS_CardinalityType
<1>6. f.refs \ Ids(d) \subseteq refs
  <2> SUFFICES ASSUME NEW r \in f.refs, r \notin refs PROVE r \in Ids(d)
    OBVIOUS
  <2>1. WasDecoded(b.history, r)
    BY DEF Undecodable
  <2> QED
    BY <1>2, <2>1 DEF Accepts, Remembers
<1>7. Cardinality(f.refs \ Ids(d)) <= md
  BY <1>5, <1>6, FS_Subset
<1>8. c = [b EXCEPT !.infos = m]
  BY DEF EmplaceFrameInfo
<1> HIDE DEF refs, waits, mc, md, c
<1>9. old \in Info /\ \A i \in all : Entry(b, i) \in Info
  BY <1>1, EntryShape
<1>10. info \in Info /\ info.frame = f /\ info.missing_decodable = md /\ info.dependents = old.dependents
  <2> DEFINE i1 == [old EXCEPT !.frame = f]
             i2 == [i1 EXCEPT !.missing_continuous = mc]
             i3 == [i2 EXCEPT !.missing_decodable = md]
  <2> HIDE DEF old
  <2>1. i1 \in Info /\ i1.frame = f /\ i1.dependents = old.dependents
    BY <1>9 DEF Info
  <2>2. info = i3
    OBVIOUS
  <2> HIDE DEF i1, info
  <2>3. i2 \in Info /\ i2.frame = f /\ i2.dependents = old.dependents
    BY <1>5, <2>1 DEF Info
  <2> HIDE DEF i2
  <2>4. i3 \in Info /\ i3.frame = f /\ i3.dependents = old.dependents /\ i3.missing_decodable = md
    BY <1>5, <2>3 DEF Info
  <2> QED
    BY <2>2, <2>4
<1>11. ASSUME NEW i \in all
       PROVE /\ linked(i) \in Info /\ linked(i).dependents = Append(Entry(b, i).dependents, f.id)
             /\ linked(i).frame = Entry(b, i).frame
             /\ linked(i).missing_decodable = Entry(b, i).missing_decodable
  <2> DEFINE e == Entry(b, i)
             deps == Append(e.dependents, f.id)
  <2>1. e \in Info
    BY <1>9
  <2>2. deps \in Seq(Nat)
    BY <1>2, <2>1, AppendProperties DEF Info
  <2>3. linked(i) = [e EXCEPT !.dependents = deps]
    BY <2>1 DEF Info
  <2> HIDE DEF e, deps
  <2>4. linked(i) \in Info /\ linked(i).dependents = deps /\ linked(i).frame = e.frame
        /\ linked(i).missing_decodable = e.missing_decodable
    BY <2>1, <2>2, <2>3 DEF Info
  <2> QED
    BY <2>4 DEF e, deps
<1>12. c = [infos |-> m, continuous |-> b.continuous, history |-> b.history, next |-> b.next]
  <2> HIDE DEF m
  <2> QED
    BY <1>1, <1>8 DEF IsBuffer
<1>13. IsBuffer(c) /\ c.infos = m /\ c.history = b.history /\ c.next = b.next
  BY <1>12 DEF IsBuffer
<1> HIDE DEF info, linked, old
<1>14. DOMAIN m = all /\ f.id \in all /\ DOMAIN b.infos \subseteq all
  OBVIOUS
<1>15. all \subseteq Nat /\ \A i \in all : i > last
  BY <1>1, <1>2, <1>4 DEF Accepts
<1>16. IsFiniteSet(all)
  <2>1. IsFiniteSet(DOMAIN b.infos \cup refs)
    BY <1>1, <1>5, FS_Union
  <2> QED
    BY <2>1, FS_AddElement
<1>17. \A i \in all : m[i] \in Info
  BY <1>1, <1>10, <1>11
<1>18. m[f.id].frame = f /\ m[f.id].missing_decodable = md /\ m[f.id].dependents = old.dependents
  BY <1>10
<1>19. ASSUME NEW i \in all, i # f.id
       PROVE m[i].frame = Entry(b, i).frame /\ m[i].missing_decodable = Entry(b, i).missing_decodable
  BY <1>11, <1>19 DEF Entry, Has
<1>20. ASSUME NEW i \in all, i # f.id
       PROVE m[i].dependents = IF i \in refs THEN Append(Entry(b, i).dependents, f.id)
                               ELSE Entry(b, i).dependents
  BY <1>11, <1>20 DEF Entry, Has
<1> HIDE DEF m
<1>21. \A i \in all \ DOMAIN b.infos : Entry(b, i).frame = NoFrame /\ Entry(b, i).dependents = <<>>
  BY DEF Entry, Has, EmptyInfo
<1>22. \A i \in DOMAIN b.infos : Entry(b, i) = b.infos[i]
  BY DEF Entry, Has
<1>23. \A i \in all : Counts(i, m[i], Ids(d))
  <2> SUFFICES ASSUME NEW i \in all PROVE Counts(i, m[i], Ids(d))
    OBVIOUS
  <2>1. CASE i = f.id
    BY <1>3, <1>7, <1>18, <2>1 DEF Counts
  <2>2. CASE i # f.id /\ i \in DOMAIN b.infos
    <3>1. Counts(i, b.infos[i], Ids(d))
      BY <1>1, <2>2
    <3>2. m[i].frame = b.infos[i].frame /\ m[i].missing_decodable = b.infos[i].missing_decodable
      BY <1>19, <1>22, <2>2
    <3> QED
      BY <3>1, <3>2 DEF Counts
  <2>3. CASE i # f.id /\ i \notin DOMAIN b.infos
    BY <1>19, <1>21, <2>3 DEF Counts
  <2> QED
    BY <2>1, <2>2, <2>3
<1>24. \A i \in DOMAIN b.infos : b.infos[i].frame # NoFrame =>
         i # f.id /\ m[i].frame = b.infos[i].frame /\ m[i].missing_decodable = b.infos[i].missing_decodable
  BY <1>14, <1>19, <1>22 DEF Accepts, Has
<1>25. ASSUME NEW i \in all, NEW k \in DOMAIN Entry(b, i).dependents
       PROVE LET n == Entry(b, i).dependents[k]
             IN  n \in DOMAIN m /\ m[n].frame # NoFrame /\ i \in m[n].frame.refs
  <2>1. i \in DOMAIN b.infos
    <3>1. DOMAIN <<>> = {}
      OBVIOUS
    <3> QED
      BY <1>21, <1>25, <3>1
  <2> DEFINE n == b.infos[i].dependents[k]
  <2>2. n \in DOMAIN b.infos /\ b.infos[n].frame # NoFrame /\ i \in b.infos[n].frame.refs
    BY <1>1, <1>22, <2>1 DEF Linked
  <2>3. m[n].frame = b.infos[n].frame /\ n \in DOMAIN m
    BY <1>14, <1>24, <2>2
  <2> QED
    BY <1>22, <2>1, <2>2, <2>3
<1>26. Linked(m)
  <2> SUFFICES ASSUME NEW i \in all, NEW k \in DOMAIN m[i].dependents
               PROVE LET n == m[i].dependents[k]
                     IN  n \in DOMAIN m /\ m[n].frame # NoFrame /\ i \in m[n].frame.refs
    BY <1>14 DEF Linked
  <2>1. CASE m[i].dependents = Entry(b, i).dependents
    BY <1>25, <2>1
  <2>2. CASE i \in refs /\ m[i].dependents = Append(Entry(b, i).dependents, f.id)
    <3> DEFINE deps == Entry(b, i).dependents
    <3>1. deps \in Seq(Nat)
      BY <1>9 DEF Info
    <3>2. CASE k \in DOMAIN deps
      <4>1. m[i].dependents[k] = deps[k]
        BY <1>2, <2>2, <3>1, <3>2, AppendProperties, LenProperties
      <4> QED
        BY <1>25, <3>2, <4>1
    <3>3. CASE k \notin DOMAIN deps
      <4>1. m[i].dependents[k] = f.id
        BY <1>2, <2>2, <3>1, <3>3, AppendProperties, LenProperties
      <4>2. i \in f.refs
        BY <1>4, <2>2
      <4> QED
        BY <1>2, <1>14, <1>18, <4>1, <4>2
    <3> QED
      BY <3>2, <3>3
  <2> QED
    BY <1>18, <1>20, <2>1, <2>2 DEF old
<1>27. Entries(m, last, Ids(d))
  BY <1>14, <1>15, <1>16, <1>17, <1>23, <1>26 DEF Entries, m
<1>28. \A id \in DOMAIN b.infos : Ready(b.infos, id) => Ready(m, id)
  BY <1>14, <1>24 DEF Ready
<1> QED
  BY <1>13, <1>27, <1>28 DEF Grown, c

\* An entry for a frame that cannot be decoded is an empty one.
LEMMA PutGrows ==
  ASSUME NEW b, NEW d, NEW f \in Stream, Accepts(b, d, f)
  PROVE Grown(b, Put(b, f.id, Entry(b, f.id)), Ids(d))
<1> DEFINE e == Entry(b, f.id)
           all == DOMAIN b.infos \cup {f.id}
           m == [i \in all |-> IF i = f.id THEN e ELSE b.infos[i]]
           c == Put(b, f.id, e)
           last == b.history.last
<1>1. /\ IsBuffer(b) /\ b.infos \in [DOMAIN b.infos -> Info] /\ DOMAIN b.infos \subseteq Nat
      /\ IsFiniteSet(DOMAIN b.infos) /\ Linked(b.infos) /\ last \in Nat \cup {-1} /\ None = -1
      /\ \A id \in DOMAIN b.infos : id > last /\ Counts(id, b.infos[id], Ids(d))
  BY DEF Accepts, Entries, Remembers, None
<1>2. f.id \in Nat /\ f.id > last
  BY FrameFacts DEF Accepts
<1>3. c = [b EXCEPT !.infos = m]
  BY DEF Put
<1>4. e \in Info /\ e.frame = NoFrame
  BY <1>1, EntryShape DEF Entry, Accepts, EmptyInfo
<1>5. f.id \in DOMAIN b.infos => e = b.infos[f.id]
  BY DEF Entry, Has
<1>6. f.id \notin DOMAIN b.infos => DOMAIN e.dependents = {}
  BY DEF Entry, Has, EmptyInfo
<1> HIDE DEF e, c
<1>7. DOMAIN m = all /\ m \in [all -> Info] /\ \A i \in DOMAIN b.infos : m[i] = b.infos[i]
  BY <1>1, <1>4, <1>5
<1>8. m[f.id] = e
  OBVIOUS
<1> HIDE DEF m
<1>9. c = [infos |-> m, continuous |-> b.continuous, history |-> b.history, next |-> b.next]
  BY <1>1, <1>3 DEF IsBuffer
<1>10. IsBuffer(c) /\ c.infos = m /\ c.history = b.history /\ c.next = b.next
  BY <1>9 DEF IsBuffer
<1>11. IsFiniteSet(all) /\ all \subseteq Nat /\ \A i \in all : i > last
  BY <1>1, <1>2, FS_AddElement
<1>12. \A i \in all : Counts(i, m[i], Ids(d))
  BY <1>1, <1>4, <1>7, <1>8 DEF Counts
<1>13. Linked(m)
  <2> SUFFICES ASSUME NEW i \in all, NEW k \in DOMAIN m[i].dependents
               PROVE LET n == m[i].dependents[k]
                     IN  n \in DOMAIN m /\ m[n].frame # NoFrame /\ i \in m[n].frame.refs
    BY <1>7 DEF Linked
  <2>1. i \in DOMAIN b.infos
    BY <1>6, <1>8
  <2>2. m[i] = b.infos[i]
    BY <1>7, <2>1
  <2> DEFINE n == b.infos[i].dependents[k]
  <2>3. n \in DOMAIN b.infos /\ b.infos[n].frame # NoFrame /\ i \in b.infos[n].frame.refs
    BY <1>1, <2>1, <2>2 DEF Linked
  <2> QED
    BY <1>7, <2>2, <2>3
<1>14. Entries(m, last, Ids(d))
  BY <1>7, <1>11, <1>12, <1>13 DEF Entries
<1>15. \A id \in DOMAIN b.infos : Ready(b.infos, id) => Ready(m, id)
  BY <1>7 DEF Ready
<1> QED
  BY <1>10, <1>14, <1>15 DEF Grown, c, e

\* What PropagateContinuity changes is not in the invariant.
LEMMA KeptGrows ==
  ASSUME NEW b, NEW e, NEW c, NEW ids, Grown(b, e, ids), Kept(e, c)
  PROVE Grown(b, c, ids)
<1>1. IsBuffer(c) /\ c.history = b.history /\ c.next = b.next
  BY DEF Grown, Kept
<1>2. DOMAIN c.infos = DOMAIN e.infos /\ \A i \in DOMAIN e.infos : SameInfo(c.infos[i], e.infos[i])
  BY DEF Kept
<1>3. Entries(e.infos, b.history.last, ids)
  BY DEF Grown
<1>4. \A i \in DOMAIN c.infos : Counts(i, c.infos[i], ids)
  BY <1>2, <1>3 DEF Entries, Counts, SameInfo
<1>5. Linked(c.infos)
  <2> SUFFICES ASSUME NEW i \in DOMAIN c.infos, NEW k \in DOMAIN c.infos[i].dependents
               PROVE LET n == c.infos[i].dependents[k]
                     IN  n \in DOMAIN c.infos /\ c.infos[n].frame # NoFrame /\ i \in c.infos[n].frame.refs
    BY DEF Linked
  <2> DEFINE n == c.infos[i].dependents[k]
  <2>1. c.infos[i].dependents = e.infos[i].dependents /\ i \in DOMAIN e.infos
    BY <1>2 DEF SameInfo
  <2>2. n \in DOMAIN e.infos /\ e.infos[n].frame # NoFrame /\ i \in e.infos[n].frame.refs
    BY <1>3, <2>1 DEF Entries, Linked
  <2>3. c.infos[n].frame = e.infos[n].frame
    BY <1>2, <2>2 DEF SameInfo
  <2> QED
    BY <1>2, <2>2, <2>3
<1>6. Entries(c.infos, b.history.last, ids)
  BY <1>2, <1>3, <1>4, <1>5 DEF Entries, Kept
<1>7. \A id \in DOMAIN e.infos : Ready(e.infos, id) => Ready(c.infos, id)
  BY <1>2 DEF Ready, SameInfo
<1>8. \A id \in DOMAIN b.infos : Ready(b.infos, id) => Ready(c.infos, id)
  BY <1>7 DEF Grown, Ready
<1> QED
  BY <1>1, <1>6, <1>8 DEF Grown

\* A cleared buffer satisfies the invariant.
LEMMA ClearedFacts ==
  /\ IsBuffer(Cleared) /\ Cleared.history = EmptyHistory /\ Cleared.infos = <<>> /\ Cleared.next = None
  /\ InOrder(<<>>) /\ Remembers(EmptyHistory, <<>>)
  /\ Entries(<<>>, EmptyHistory.last, Ids(<<>>))
<1>1. IsBuffer(Cleared) /\ Cleared.history = EmptyHistory /\ Cleared.infos = <<>> /\ Cleared.next = None
  BY DEF IsBuffer, Cleared
<1>2. DOMAIN <<>> = {}
  OBVIOUS
<1>3. InOrder(<<>>)
  BY <1>2, EmptySeq DEF InOrder
<1>4. Ids(<<>>) = {}
  BY <1>2 DEF Ids
<1>5. Window \in Nat /\ 0 \in Nat
  BY FrameBufferAssumption
<1>6. Remembers(EmptyHistory, <<>>)
  BY <1>4, <1>5 DEF Remembers, EmptyHistory, WasDecoded
<1>7. Entries(<<>>, EmptyHistory.last, Ids(<<>>))
  <2>1. IsFiniteSet(DOMAIN <<>>)
    BY <1>2, FS_EmptySet
  <2>2. <<>> \in [{} -> Info]
    BY <1>2
  <2> QED
    BY <1>2, <2>1, <2>2 DEF Entries, Linked
<1> QED
  BY <1>1, <1>3, <1>6, <1>7

\* The buffer a frame is inserted into, and the frames decoded since it was cleared.
Base(f) == IF Clears(f) THEN Cleared ELSE Buffer
Since(f) == IF Clears(f) THEN <<>> ELSE decoded

LEMMA BufferFacts ==
  /\ IsBuffer(Buffer) /\ Buffer.infos = infos /\ Buffer.continuous = continuous
  /\ Buffer.history = history /\ Buffer.next = next
  BY DEF IsBuffer, Buffer

\* Whatever InsertFrame does with a frame, the buffer grows.
LEMMA InsertedGrows ==
  ASSUME ReferencesInv, NEW f \in Stream
  PROVE /\ InOrder(Since(f)) /\ Remembers(Base(f).history, Since(f))
        /\ Grown(Base(f), Inserted(f).b, Ids(Since(f)))
<1> DEFINE b == Base(f)
           d == Since(f)
           e == EmplaceFrameInfo(b, f)
           rejected == ~ValidReferences(f) \/ (~Clears(f) /\ (Full \/ Old(f)))
           present == Has(b, f.id) /\ b.infos[f.id].frame # NoFrame
<1>1. IsBuffer(b) /\ InOrder(d) /\ Remembers(b.history, d) /\ Entries(b.infos, b.history.last, Ids(d))
  BY ClearedFacts, BufferFacts DEF ReferencesInv, Base, Since
<1>2. Grown(b, b, Ids(d))
  BY <1>1 DEF Grown
<1>3. Inserted(f).b =
        IF rejected THEN Buffer
        ELSE IF present THEN b
        ELSE IF Undecodable(b, f) # {} THEN Put(b, f.id, Entry(b, f.id))
        ELSE IF e.infos[f.id].missing_continuous = 0 THEN PropagateContinuity(e, f.id)
        ELSE e
  BY DEF Inserted, Base
<1>4. CASE rejected
  <2>1. ~Clears(f)
    BY <1>4 DEF Clears
  <2> QED
    BY <1>1, <1>2, <1>3, <1>4, <2>1 DEF Base
<1>5. CASE ~rejected /\ present
  BY <1>1, <1>2, <1>3, <1>5
<1>6. CASE ~rejected /\ ~present
  <2>1. f.id > b.history.last
    <3>1. CASE Clears(f)
      <4>1. b.history.last = -1
        BY <3>1, ClearedFacts DEF Base, EmptyHistory, None
      <4> QED
        BY <4>1, FrameFacts
    <3>2. CASE ~Clears(f)
      <4>1. ~Old(f) /\ b.history.last = history.last
        BY <1>6, <3>2, BufferFacts DEF Base
      <4>2. history.last \in Nat \cup {-1} /\ None = -1
        BY DEF ReferencesInv, Remembers, None
      <4> QED
        BY <4>1, <4>2, FrameFacts DEF Old
    <3> QED
      BY <3>1, <3>2
  <2>2. Accepts(b, d, f)
    BY <1>1, <1>6, <2>1 DEF Accepts, InOrder
  <2>3. CASE Undecodable(b, f) # {}
    BY <1>1, <1>3, <1>6, <2>2, <2>3, PutGrows
  <2>4. CASE Undecodable(b, f) = {}
    <3>1. Grown(b, e, Ids(d))
      BY <2>2, <2>4, EmplaceGrows
    <3>2. IsBuffer(e) /\ IsFiniteSet(DOMAIN e.infos) /\ e.infos \in [DOMAIN e.infos -> Info]
      BY <3>1 DEF Grown, Entries
    <3>3. Kept(e, PropagateContinuity(e, f.id))
      BY <3>2, PropagateKeeps
    <3>4. Grown(b, PropagateContinuity(e, f.id), Ids(d))
      BY <3>1, <3>3, KeptGrows
    <3> QED
      BY <1>1, <1>3, <1>6, <2>4, <3>1, <3>4
  <2> QED
    BY <2>3, <2>4
<1> QED
  BY <1>4, <1>5, <1>6

-----------------------------------------------------------------------------
(* GetNextFrameToDecode *)

\* Taking out a frame that is ready keeps the invariant of the buffer: its references were
\* decoded, and each frame that depends on it counts one fewer.
LEMMA DecodeKeeps ==
  ASSUME ReferencesInv, next # None, Ready(infos, next), GetNextFrameToDecode
  PROVE /\ InOrder(decoded') /\ Remembers(history', decoded')
        /\ Entries(infos', history'.last, Ids(decoded'))
<1> DEFINE f == infos[next].frame
           ids == Ids(decoded)
           depends(i) == \E k \in DOMAIN infos[next].dependents : infos[next].dependents[k] = i
           all == {j \in DOMAIN infos : j > next}
           m == [i \in all |-> IF depends(i) /\ infos[i].missing_decodable > 0
                               THEN [infos[i] EXCEPT !.missing_decodable = @ - 1] ELSE infos[i]]
<1>1. infos' = m /\ history' = HistoryInsert(history, f) /\ decoded' = Append(decoded, f)
  BY DEF GetNextFrameToDecode
<1>2. /\ decoded \in Seq(Stream) /\ Remembers(history, decoded) /\ InOrder(decoded)
      /\ infos \in [DOMAIN infos -> Info] /\ DOMAIN infos \subseteq Nat
      /\ IsFiniteSet(DOMAIN infos) /\ Linked(infos)
      /\ \A id \in DOMAIN infos : id > history.last /\ Counts(id, infos[id], ids)
      /\ history.last \in Nat \cup {-1}
  BY DEF ReferencesInv, InOrder, Entries, Remembers, None
<1>3. next \in DOMAIN infos /\ next \in Nat /\ f \in Stream /\ f # NoFrame /\ infos[next].missing_decodable = 0
      /\ next > history.last
  BY <1>2 DEF Ready, Info
<1>4. f.id = next /\ f.refs \in SUBSET Nat /\ IsFiniteSet(f.refs)
  BY <1>2, <1>3, FrameFacts DEF Counts
<1>5. Remembers(HistoryInsert(history, f), Append(decoded, f))
  BY <1>2, <1>3, <1>4, InsertRemembers
<1>6. \A id \in ids : id \in Int /\ id <= history.last
  <2>1. \A k \in DOMAIN decoded : decoded[k] \in Stream
    BY <1>2, LenProperties, ElementOfSeq
  <2> QED
    BY <1>2, <2>1, FrameBufferAssumption DEF Ids, Remembers
<1>7. next \notin ids
  BY <1>2, <1>3, <1>6
<1>8. f.refs \subseteq ids
  <2> DEFINE R == f.refs \ ids
  <2>1. IsFiniteSet(R)
    BY <1>4, FS_Subset
  <2>2. Cardinality(R) <= 0
    BY <1>2, <1>3 DEF Counts
  <2>3. Cardinality(R) \in Nat
    BY <2>1, FS_CardinalityType
  <2>4. Cardinality(R) = 0
    BY <2>2, <2>3
  <2>5. R = {}
    BY <2>1, <2>4, FS_EmptySet
  <2> QED
    BY <2>5
<1> DEFINE e == Append(decoded, f)
           n == Len(decoded)
<1>9. /\ n \in Nat /\ DOMAIN decoded = 1..n /\ DOMAIN e = 1..n + 1 /\ e \in Seq(Stream)
      /\ \A k \in 1..n : e[k] = decoded[k]
      /\ e[n + 1] = f
  BY <1>2, <1>3, AppendProperties, LenProperties
<1>10. Ids(e) = ids \cup {next}
  BY <1>4, <1>9 DEF Ids
<1> HIDE DEF f, ids, e, n
<1>11. InOrder(e)
  <2> SUFFICES ASSUME NEW i \in 1..n + 1
               PROVE /\ \A r \in e[i].refs : \E j \in 1..i - 1 : e[j].id = r
                     /\ \A j \in 1..i - 1 : e[j].id < e[i].id
    BY <1>9 DEF InOrder
  <2>1. CASE i \in 1..n
    <3>1. 1..i - 1 \subseteq 1..n /\ i \in DOMAIN decoded
      BY <1>9, <2>1
    <3>2. /\ \A r \in decoded[i].refs : \E j \in 1..i - 1 : decoded[j].id = r
          /\ \A j \in 1..i - 1 : decoded[j].id < decoded[i].id
      BY <1>2, <3>1 DEF InOrder
    <3> QED
      BY <1>9, <2>1, <3>1, <3>2
  <2>2. CASE i = n + 1
    <3>1. 1..i - 1 = DOMAIN decoded /\ e[i] = f
      BY <1>9, <2>2
    <3>2. \A j \in 1..i - 1 : e[j].id = decoded[j].id /\ e[j].id \in ids
      BY <1>9, <3>1 DEF Ids, ids
    <3>3. \A r \in ids : \E j \in 1..i - 1 : e[j].id = r
      BY <3>1, <3>2 DEF Ids, ids
    <3>4. \A j \in 1..i - 1 : e[j].id < f.id
      BY <1>2, <1>3, <1>4, <1>6, <3>2
    <3> QED
      BY <1>8, <3>1, <3>3, <3>4
  <2> QED
    BY <1>9, <2>1, <2>2
<1>12. all \subseteq DOMAIN infos /\ IsFiniteSet(all) /\ all \subseteq Nat /\ DOMAIN m = all
  <2>1. all \subseteq DOMAIN infos
    OBVIOUS
  <2> QED
    BY <1>2, <2>1, FS_Subset
<1>13. ASSUME NEW i \in all
       PROVE /\ m[i] \in Info /\ m[i].frame = infos[i].frame /\ m[i].dependents = infos[i].dependents
             /\ m[i].missing_decodable = IF depends(i) /\ infos[i].missing_decodable > 0
                                         THEN infos[i].missing_decodable - 1 ELSE infos[i].missing_decodable
  <2> DEFINE o == infos[i]
             c == o.missing_decodable - 1
             p == [o EXCEPT !.missing_decodable = c]
  <2>1. o \in Info /\ o.missing_decodable \in Nat
    BY <1>2, <1>12 DEF Info
  <2>2. m[i] = IF depends(i) /\ o.missing_decodable > 0 THEN p ELSE o
    BY <2>1 DEF Info
  <2>3. o.missing_decodable > 0 => c \in Nat
    BY <2>1
  <2> HIDE DEF c, o, depends
  <2>4. c \in Nat => p \in Info /\ p.frame = o.frame /\ p.dependents = o.dependents /\ p.missing_decodable = c
    BY <2>1 DEF Info
  <2> QED
    BY <2>1, <2>2, <2>3, <2>4 DEF o, c
<1> HIDE DEF m
<1>14. ASSUME NEW i \in all PROVE Counts(i, m[i], Ids(e))
  <2> SUFFICES ASSUME infos[i].frame # NoFrame PROVE Counts(i, m[i], Ids(e))
    BY <1>13 DEF Counts
  <2> DEFINE g == infos[i].frame
             R == g.refs \ ids
             S == g.refs \ Ids(e)
             c == infos[i].missing_decodable
  <2>1. g \in Stream /\ c \in Nat /\ i \in DOMAIN infos
    BY <1>2, <1>12 DEF Info
  <2>2. g.id = i /\ (\A r \in g.refs : r < i) /\ Cardinality(R) <= c
    BY <1>2, <2>1 DEF Counts
  <2>3. IsFiniteSet(g.refs)
    BY <2>1, FrameFacts
  <2>4. S = R \ {next} /\ IsFiniteSet(R)
    BY <1>10, <2>3, FS_Subset
  <2>5. IsFiniteSet(S) /\ Cardinality(S) = IF next \in R THEN Cardinality(R) - 1 ELSE Cardinality(R)
    <3> HIDE DEF R, S
    <3>1. IsFiniteSet(R \ {next})
          /\ Cardinality(R \ {next}) = IF next \in R THEN Cardinality(R) - 1 ELSE Cardinality(R)
      BY <2>4, FS_RemoveElement
    <3> QED
      BY <2>4, <3>1
  <2>6. Cardinality(R) \in Nat /\ Cardinality(S) \in Nat
    BY <2>4, <2>5, FS_CardinalityType
  <2>7. depends(i) => next \in R
    BY <1>2, <1>3, <1>7 DEF Linked
  <2> HIDE DEF R, S, g, c, depends
  <2>8. Cardinality(S) <= m[i].missing_decodable
    <3>1. CASE depends(i)
      <4>1. Cardinality(S) = Cardinality(R) - 1 /\ c >= 1
        BY <2>1, <2>2, <2>5, <2>6, <2>7, <3>1
      <4>2. m[i].missing_decodable = c - 1
        BY <1>13, <2>1, <3>1, <4>1 DEF c
      <4> QED
        BY <2>1, <2>2, <2>6, <4>1, <4>2
    <3>2. CASE ~depends(i)
      <4>1. m[i].missing_decodable = c
        BY <1>13, <3>2 DEF c
      <4> QED
        BY <2>1, <2>2, <2>5, <2>6, <4>1
    <3> QED
      BY <3>1, <3>2
  <2>9. m[i].frame = g
    BY <1>13 DEF g
  <2> QED
    BY <2>2, <2>8, <2>9 DEF Counts, S
<1>15. Linked(m)
  <2> SUFFICES ASSUME NEW i \in all, NEW k \in DOMAIN m[i].dependents
               PROVE LET j == m[i].dependents[k]
                     IN  j \in all /\ m[j].frame # NoFrame /\ i \in m[j].frame.refs
    BY <1>12 DEF Linked
  <2> DEFINE j == infos[i].dependents[k]
  <2>1. m[i].dependents = infos[i].dependents /\ i \in DOMAIN infos /\ i > next
    BY <1>13
  <2>2. j \in DOMAIN infos /\ infos[j].frame # NoFrame /\ i \in infos[j].frame.refs
    BY <1>2, <2>1 DEF Linked
  <2>3. i < j
    BY <1>2, <2>2 DEF Counts
  <2>4. j \in all
    BY <1>2, <1>3, <2>1, <2>2, <2>3
  <2>5. m[j].frame = infos[j].frame
    BY <1>13, <2>4
  <2> QED
    BY <2>1, <2>2, <2>4, <2>5
<1>16. HistoryInsert(history, f).last = next
  BY <1>4 DEF HistoryInsert
<1>17. Entries(m, next, Ids(e))
  BY <1>12, <1>13, <1>14, <1>15 DEF Entries, m
<1>18. infos' = m /\ decoded' = e /\ history' = HistoryInsert(history, f)
  BY <1>1 DEF f, e, m
<1> QED
  BY <1>5, <1>11, <1>16, <1>17, <1>18 DEF e

-----------------------------------------------------------------------------
(* The decode queue *)

\* FindNextFrameToDecode finds a frame that is ready.
LEMMA FoundReady ==
  ASSUME ReferencesInv, NEW w, w.deadline \in Nat, NEW found \in FindNextFrameToDecode(w)
  PROVE found.wait \in Nat /\ found.id \in Nat \cup {None} /\ (found.id # None => Ready(infos, found.id))
<1> DEFINE S == {id \in DOMAIN infos : Decodable(id, w.keyframe)}
           left == IF w.deadline > now THEN w.deadline - now ELSE 0
<1>1. now \in Nat /\ DOMAIN infos \subseteq Nat
  BY DEF ReferencesInv, WaitType, Entries
<1>2. left \in Nat
  BY <1>1
<1>3. \A id \in S : Ready(infos, id)
  BY DEF Decodable, Ready
<1>4. found \in IF S = {} THEN {[id |-> None, wait |-> left]} ELSE [id : S, wait : 0..left]
  BY DEF FindNextFrameToDecode
<1> HIDE DEF S, left
<1>5. CASE S = {}
  BY <1>2, <1>4, <1>5
<1>6. CASE S # {}
  <2>1. found.id \in S /\ found.wait \in 0..left
    BY <1>4, <1>6
  <2>2. found.id \in Nat
    BY <1>1, <2>1 DEF S
  <2> QED
    BY <1>2, <1>3, <2>1, <2>2
<1> QED
  BY <1>5, <1>6

\* When a task is stopped and another one started, the queue holds one first closure, the new one's.
LEMMA QueueStarted ==
  ASSUME NEW q \in Seq(Closure), NEW delay \in Nat
  PROVE LET r == Append(Stopped(q), [op |-> "start", delay |-> delay])
        IN  r \in Seq(Closure) /\ \A k \in DOMAIN r : r[k].op = "start" => k = Len(q) + 1
<1> DEFINE s == Stopped(q)
           c == [op |-> "start", delay |-> delay]
           r == Append(s, c)
<1>1. Len(q) \in Nat /\ DOMAIN q = 1..Len(q) /\ \A k \in 1..Len(q) : q[k] \in Closure
  BY LenProperties, ElementOfSeq
<1>2. c \in Closure /\ [op |-> "stopped"] \in Closure
  BY DEF Closure
<1>3. s = [k \in 1..Len(q) |-> IF q[k].op = "start" THEN [op |-> "stopped"] ELSE q[k]]
  BY <1>1 DEF Stopped
<1> HIDE DEF s, c
<1>4. s \in [1..Len(q) -> Closure] /\ \A k \in 1..Len(q) : s[k].op # "start"
  BY <1>1, <1>2, <1>3
<1>5. s \in Seq(Closure)
  BY <1>1, <1>4, SeqDef
<1>6. Len(s) = Len(q) /\ DOMAIN s = 1..Len(q)
  BY <1>1, <1>4, <1>5, LenProperties
<1>7. r \in Seq(Closure) /\ DOMAIN r = 1..Len(q) + 1 /\ \A k \in 1..Len(q) : r[k] = s[k]
  BY <1>1, <1>2, <1>5, <1>6, AppendProperties, LenProperties
<1>8. \A k \in DOMAIN r : r[k].op = "start" => k = Len(q) + 1
  BY <1>1, <1>4, <1>7
<1> QED
  BY <1>7, <1>8 DEF s, c

\* The first closure of the queue may go: the others keep their order.
LEMMA QueueTail ==
  ASSUME NEW q \in Seq(Closure), q # <<>>
  PROVE /\ Tail(q) \in Seq(Closure) /\ Head(q) = q[1] /\ 1 \in DOMAIN q /\ Head(q) \in Closure
        /\ \A k \in DOMAIN Tail(q) : k + 1 \in DOMAIN q /\ Tail(q)[k] = q[k + 1] /\ k \in Nat /\ k > 0
<1>1. Len(q) \in Nat /\ Len(q) # 0 /\ DOMAIN q = 1..Len(q)
  BY LenProperties, EmptySeq
<1>2. Tail(q) \in Seq(Closure) /\ Len(Tail(q)) = Len(q) - 1 /\ Head(q) \in Closure
      /\ \A k \in 1..Len(Tail(q)) : Tail(q)[k] = q[k + 1]
  BY HeadTailProperties
<1>3. Head(q) = q[1]
  OBVIOUS
<1>4. DOMAIN Tail(q) = 1..Len(q) - 1
  BY <1>2, LenProperties
<1> QED
  BY <1>1, <1>2, <1>3, <1>4

\* What the queue holds after its head has run: no first closure if the head was one.
LEMMA HeadRun ==
  ASSUME ReferencesInv, queue # <<>>
  PROVE /\ Tail(queue) \in Seq(Closure)
        /\ \A k \in DOMAIN Tail(queue) : Tail(queue)[k].op = "start" =>
            /\ task.alive /\ task.due = None /\ Head(queue).op # "start"
            /\ \A j \in DOMAIN Tail(queue) : Tail(queue)[j].op = "start" => j = k
<1>1. queue \in Seq(Closure) /\ OneTask
  BY DEF ReferencesInv, WaitType
<1>2. /\ Tail(queue) \in Seq(Closure) /\ Head(queue) = queue[1] /\ 1 \in DOMAIN queue
      /\ \A k \in DOMAIN Tail(queue) :
          k + 1 \in DOMAIN queue /\ Tail(queue)[k] = queue[k + 1] /\ k \in Nat /\ k > 0
  BY <1>1, QueueTail
<1>3. ASSUME NEW k \in DOMAIN Tail(queue), Tail(queue)[k].op = "start"
      PROVE /\ task.alive /\ task.due = None /\ Head(queue).op # "start"
            /\ \A j \in DOMAIN Tail(queue) : Tail(queue)[j].op = "start" => j = k
  <2>1. k + 1 \in DOMAIN queue /\ queue[k + 1].op = "start" /\ k \in Nat /\ k > 0
    BY <1>2, <1>3
  <2>2. task.alive /\ task.due = None /\ \A j \in DOMAIN queue : queue[j].op = "start" => j = k + 1
    BY <1>1, <2>1 DEF OneTask
  <2>3. queue[1].op # "start"
    BY <1>2, <2>1, <2>2
  <2>4. \A j \in DOMAIN Tail(queue) : Tail(queue)[j].op = "start" => j = k
    BY <1>2, <2>1, <2>2
  <2> QED
    BY <1>2, <2>2, <2>3, <2>4
<1> QED
  BY <1>2, <1>3

-----------------------------------------------------------------------------
(* Every step keeps the invariant *)

\* The part of the invariant about the buffer and the history.
BufferInv ==
    InOrder(decoded) /\ Remembers(history, decoded) /\ Entries(infos, history.last, Ids(decoded))

LEMMA BufferUnchanged ==
  ASSUME ReferencesInv, UNCHANGED <<infos, history, decoded>>
  PROVE BufferInv'
  BY DEF ReferencesInv, BufferInv

\* A task that starts waits for a frame that is ready.
LEMMA StartsReady ==
  ASSUME ReferencesInv, UNCHANGED <<infos, history, decoded, now>>,
         NEW w \in [pending : BOOLEAN, deadline : Nat, keyframe : BOOLEAN], w.pending, waiting' = w,
         NEW q \in Seq(Closure), NEW found \in FindNextFrameToDecode(w),
         next' = found.id, task' = [alive |-> TRUE, due |-> None],
         queue' = Append(Stopped(q), [op |-> "start", delay |-> found.wait])
  PROVE ReferencesInv'
<1>1. found.wait \in Nat /\ found.id \in Nat \cup {None} /\ (found.id # None => Ready(infos, found.id))
  BY FoundReady
<1>2. queue' \in Seq(Closure) /\ \A k \in DOMAIN queue' : queue'[k].op = "start" => k = Len(q) + 1
  BY <1>1, QueueStarted
<1>3. WaitType'
  <2>1. now' \in Nat
    BY DEF ReferencesInv, WaitType
  <2> QED
    BY <1>1, <1>2, <2>1 DEF WaitType
<1>4. OneTask'
  BY <1>2 DEF OneTask
<1>5. WaitsForReady'
  BY <1>1 DEF WaitsForReady
<1> QED
  BY <1>3, <1>4, <1>5, BufferUnchanged DEF ReferencesInv, BufferInv

LEMMA NextFrameStep ==
  ASSUME ReferencesInv, NextFrame
  PROVE ReferencesInv'
<1>1. PICK keyframe \in BOOLEAN :
        /\ waiting' = [pending |-> TRUE, deadline |-> now + MaxWait, keyframe |-> keyframe]
        /\ StartWaitForNextFrameToDecode(waiting', queue)
        /\ UNCHANGED <<infos, continuous, history, now, arrived, decoded>>
  BY DEF NextFrame
<1>2. PICK w : w = waiting'
  OBVIOUS
<1>3. now + MaxWait \in Nat /\ queue \in Seq(Closure)
  BY FrameBufferAssumption DEF ReferencesInv, WaitType
<1>4. w \in [pending : BOOLEAN, deadline : Nat, keyframe : BOOLEAN] /\ w.pending
  BY <1>1, <1>2, <1>3
<1>5. PICK found \in FindNextFrameToDecode(waiting') :
        /\ next' = found.id
        /\ task' = [alive |-> TRUE, due |-> None]
        /\ queue' = Append(Stopped(queue), [op |-> "start", delay |-> found.wait])
  BY <1>1 DEF StartWaitForNextFrameToDecode
<1>6. found \in FindNextFrameToDecode(w)
  BY <1>2
<1> QED
  BY <1>1, <1>2, <1>3, <1>4, <1>5, <1>6, StartsReady

LEMMA RestartStep ==
  ASSUME ReferencesInv, Restart
  PROVE ReferencesInv'
<1>1. queue # <<>> /\ UNCHANGED <<infos, continuous, history, waiting, now, arrived, decoded>>
  BY DEF Restart
<1>2. Tail(queue) \in Seq(Closure)
  BY <1>1, HeadRun
<1>3. CASE task.alive
  <2>1. StartWaitForNextFrameToDecode(waiting, Tail(queue))
    BY <1>3 DEF Restart
  <2>2. PICK found \in FindNextFrameToDecode(waiting) :
          /\ next' = found.id
          /\ task' = [alive |-> TRUE, due |-> None]
          /\ queue' = Append(Stopped(Tail(queue)), [op |-> "start", delay |-> found.wait])
    BY <2>1 DEF StartWaitForNextFrameToDecode
  <2>3. waiting \in [pending : BOOLEAN, deadline : Nat, keyframe : BOOLEAN] /\ waiting.pending
    BY <1>3 DEF ReferencesInv, WaitType, OneTask
  <2>4. PICK w, q : w = waiting /\ q = Tail(queue)
    OBVIOUS
  <2> QED
    BY <1>1, <1>2, <2>2, <2>3, <2>4, StartsReady
<1>4. CASE ~task.alive
  <2>1. queue' = Tail(queue) /\ UNCHANGED <<next, task>>
    BY <1>4 DEF Restart
  <2>2. WaitType'
    BY <1>1, <1>2, <2>1 DEF ReferencesInv, WaitType
  <2>3. OneTask' /\ WaitsForReady'
    BY <1>1, <1>4, <2>1, HeadRun DEF OneTask, WaitsForReady
  <2> QED
    BY <1>1, <2>2, <2>3, BufferUnchanged DEF ReferencesInv, BufferInv
<1> QED
  BY <1>3, <1>4

\* The task's closure, whether it comes from the queue or from the timer: the task was
\* alive, and what remains on the queue holds no first closure.
LEMMA ExecuteKeeps ==
  ASSUME ReferencesInv, ExecuteTask, task.alive, UNCHANGED now,
         queue' \in Seq(Closure), \A k \in DOMAIN queue' : queue'[k].op # "start"
  PROVE ReferencesInv'
<1>1. /\ now \in Nat /\ next \in Nat \cup {None} /\ waiting.deadline \in Nat /\ waiting.pending
      /\ waiting \in [pending : BOOLEAN, deadline : Nat, keyframe : BOOLEAN]
  BY DEF ReferencesInv, WaitType, OneTask
<1>2. NoTask \in [alive : BOOLEAN, due : Nat \cup {None}] /\ NoTask.alive = FALSE
      /\ NoWait \in [pending : BOOLEAN, deadline : Nat, keyframe : BOOLEAN]
  BY DEF NoTask, NoWait
<1>3. CASE next # None \/ now >= waiting.deadline
  <2>1. /\ IF next = None THEN UNCHANGED <<infos, history, decoded>> ELSE GetNextFrameToDecode
        /\ waiting' = NoWait /\ task' = NoTask /\ UNCHANGED next
    BY <1>3 DEF ExecuteTask
  <2>2. BufferInv'
    <3>1. CASE next = None
      BY <2>1, <3>1, BufferUnchanged
    <3>2. CASE next # None
      <4>1. Ready(infos, next)
        BY <3>2 DEF ReferencesInv, WaitsForReady
      <4> QED
        BY <2>1, <3>2, <4>1, DecodeKeeps DEF BufferInv
    <3> QED
      BY <3>1, <3>2
  <2>3. WaitType' /\ OneTask' /\ WaitsForReady'
    BY <1>1, <1>2, <2>1 DEF WaitType, OneTask, WaitsForReady
  <2> QED
    BY <2>2, <2>3 DEF ReferencesInv, BufferInv
<1>4. CASE ~(next # None \/ now >= waiting.deadline)
  <2>1. UNCHANGED <<infos, history, waiting, decoded>>
    BY <1>4 DEF ExecuteTask
  <2>2. PICK found \in FindNextFrameToDecode(waiting) :
          /\ next' = found.id
          /\ task' = IF found.wait > 0 THEN [alive |-> TRUE, due |-> now + found.wait] ELSE NoTask
    BY <1>4 DEF ExecuteTask
  <2>3. PICK w : w = waiting
    OBVIOUS
  <2>4. found.wait \in Nat /\ found.id \in Nat \cup {None} /\ (found.id # None => Ready(infos, found.id))
    BY <1>1, <2>3, FoundReady
  <2>5. task' \in [alive : BOOLEAN, due : Nat \cup {None}]
    <3>1. now + found.wait \in Nat
      BY <1>1, <2>4
    <3> QED
      BY <1>2, <2>2, <3>1
  <2>6. WaitType'
    BY <1>1, <2>1, <2>2, <2>4, <2>5 DEF WaitType
  <2>7. OneTask'
    BY <1>1, <2>1 DEF OneTask
  <2>8. WaitsForReady'
    BY <2>1, <2>2, <2>4 DEF WaitsForReady
  <2> QED
    BY <2>1, <2>6, <2>7, <2>8, BufferUnchanged DEF ReferencesInv, BufferInv
<1> QED
  BY <1>3, <1>4

LEMMA StartTaskStep ==
  ASSUME ReferencesInv, StartTask
  PROVE ReferencesInv'
<1>1. queue # <<>> /\ Head(queue).op = "start" /\ queue' = Tail(queue) /\ UNCHANGED <<continuous, now, arrived>>
  BY DEF StartTask
<1>2. queue \in Seq(Closure) /\ queue' \in Seq(Closure) /\ \A k \in DOMAIN queue' : queue'[k].op # "start"
  BY <1>1, HeadRun DEF ReferencesInv, WaitType
<1>3. Head(queue) = queue[1] /\ 1 \in DOMAIN queue /\ Head(queue) \in Closure
  <2>1. PICK q : q = queue
    OBVIOUS
  <2> QED
    BY <1>1, <1>2, <2>1, QueueTail
<1>4. task.alive /\ Head(queue).delay \in Nat
  BY <1>1, <1>3 DEF ReferencesInv, OneTask, Closure
<1>5. CASE Head(queue).delay <= 0
  <2>1. ExecuteTask
    BY <1>5 DEF StartTask
  <2> QED
    BY <1>1, <1>2, <1>4, <2>1, ExecuteKeeps
<1>6. CASE ~(Head(queue).delay <= 0)
  <2>1. task' = [task EXCEPT !.due = now + Head(queue).delay] /\ UNCHANGED <<infos, history, next, waiting, decoded>>
    BY <1>6 DEF StartTask
  <2> DEFINE due == now + Head(queue).delay
  <2>2. due \in Nat /\ task \in [alive : BOOLEAN, due : Nat \cup {None}]
    BY <1>4 DEF ReferencesInv, WaitType
  <2>3. task' = [task EXCEPT !.due = due]
    BY <2>1
  <2> HIDE DEF due
  <2>4. task' \in [alive : BOOLEAN, due : Nat \cup {None}] /\ task'.alive = task.alive
    BY <2>2, <2>3
  <2>5. WaitType'
    BY <1>1, <1>2, <2>1, <2>4 DEF ReferencesInv, WaitType
  <2>6. OneTask' /\ WaitsForReady'
    BY <1>2, <2>1, <2>4 DEF ReferencesInv, OneTask, WaitsForReady
  <2> QED
    BY <2>1, <2>5, <2>6, BufferUnchanged DEF ReferencesInv, BufferInv
<1> QED
  BY <1>5, <1>6

LEMMA StoppedTaskStep ==
  ASSUME ReferencesInv, StoppedTask
  PROVE ReferencesInv'
<1>1. queue # <<>> /\ queue' = Tail(queue)
      /\ UNCHANGED <<infos, continuous, history, next, waiting, task, now, arrived, decoded>>
  BY DEF StoppedTask
<1>2. WaitType'
  BY <1>1, HeadRun DEF ReferencesInv, WaitType
<1>3. OneTask'
  BY <1>1, HeadRun DEF ReferencesInv, OneTask
<1>4. WaitsForReady'
  BY <1>1 DEF ReferencesInv, WaitsForReady
<1> QED
  BY <1>1, <1>2, <1>3, <1>4, BufferUnchanged DEF ReferencesInv, BufferInv

LEMMA MaybeExecuteTaskStep ==
  ASSUME ReferencesInv, MaybeExecuteTask
  PROVE ReferencesInv'
<1>1. task.alive /\ task.due # None /\ ExecuteTask /\ UNCHANGED <<continuous, queue, now, arrived>>
  BY DEF MaybeExecuteTask
<1>2. queue' \in Seq(Closure) /\ \A k \in DOMAIN queue' : queue'[k].op # "start"
  BY <1>1 DEF ReferencesInv, WaitType, OneTask
<1> QED
  BY <1>1, <1>2, ExecuteKeeps

\* A frame that comes while the task waits leaves the frame it waits for ready: the buffer
\* is not cleared under it.
LEMMA InsertFrameStep ==
  ASSUME ReferencesInv, InsertFrame, ~ClearsInWait
  PROVE ReferencesInv'
<1>1. PICK f \in Stream :
        /\ Clears(f) => ClearsInWait \/ ~waiting.pending
        /\ Becomes(Inserted(f).b)
        /\ queue' = IF Inserted(f).continuous THEN Append(queue, [op |-> "restart"]) ELSE queue
        /\ decoded' = IF Clears(f) THEN <<>> ELSE decoded
        /\ UNCHANGED <<waiting, task, now>>
  BY DEF InsertFrame
<1> DEFINE c == Inserted(f).b
<1>2. /\ InOrder(Since(f)) /\ Remembers(Base(f).history, Since(f))
      /\ Grown(Base(f), c, Ids(Since(f)))
  BY InsertedGrows
<1>3. infos' = c.infos /\ history' = c.history /\ next' = c.next /\ decoded' = Since(f)
  BY <1>1 DEF Becomes, Since
<1>4. BufferInv'
  BY <1>2, <1>3 DEF BufferInv, Grown
<1>5. queue' \in Seq(Closure) /\ \A k \in DOMAIN queue' : queue'[k].op = "start" =>
        k \in DOMAIN queue /\ queue[k] = queue'[k]
  <2>1. queue \in Seq(Closure) /\ [op |-> "restart"] \in Closure
    BY DEF ReferencesInv, WaitType, Closure
  <2>2. CASE queue' = queue
    BY <2>1, <2>2
  <2>3. CASE queue' = Append(queue, [op |-> "restart"])
    <3>1. PICK q, r : q = queue /\ r = [op |-> "restart"]
      OBVIOUS
    <3>2. /\ Append(q, r) \in Seq(Closure) /\ Len(q) \in Nat /\ DOMAIN q = 1..Len(q)
          /\ DOMAIN Append(q, r) = 1..Len(q) + 1
          /\ \A k \in 1..Len(q) : Append(q, r)[k] = q[k]
          /\ Append(q, r)[Len(q) + 1] = r
      BY <2>1, <3>1, AppendProperties, LenProperties
    <3> QED
      BY <2>3, <3>1, <3>2
  <2> QED
    BY <1>1, <2>2, <2>3
<1>6. next' = None \/ next' = next
  BY <1>2, <1>3, ClearedFacts, BufferFacts DEF Grown, Base
<1>7. WaitType'
  BY <1>1, <1>5, <1>6 DEF ReferencesInv, WaitType
<1>8. OneTask'
  BY <1>1, <1>5 DEF ReferencesInv, OneTask
<1>9. WaitsForReady'
  <2> SUFFICES ASSUME task.alive, next' # None PROVE Ready(infos', next')
    BY <1>1 DEF WaitsForReady
  <2>1. ~Clears(f)
    BY <1>1 DEF ReferencesInv, OneTask
  <2>2. Base(f) = Buffer
    BY <2>1 DEF Base
  <2>3. next' = next /\ next # None
    BY <1>6
  <2>4. Ready(infos, next)
    BY <2>3 DEF ReferencesInv, WaitsForReady
  <2>5. Ready(c.infos, next)
    BY <1>2, <2>2, <2>4, BufferFacts DEF Grown, Ready
  <2> QED
    BY <1>3, <2>3, <2>5
<1> QED
  BY <1>4, <1>7, <1>8, <1>9 DEF ReferencesInv, BufferInv

LEMMA ClearStep ==
  ASSUME ReferencesInv, Clear, ~ClearsInWait
  PROVE ReferencesInv'
<1>1. /\ ~waiting.pending /\ decoded' = <<>>
      /\ infos' = <<>> /\ history' = EmptyHistory /\ next' = None
      /\ UNCHANGED <<waiting, task, queue, now, arrived>>
  BY ClearedFacts DEF Clear, Becomes
<1>2. BufferInv'
  BY <1>1, ClearedFacts DEF BufferInv
<1>3. WaitType' /\ OneTask' /\ WaitsForReady'
  BY <1>1 DEF ReferencesInv, WaitType, OneTask, WaitsForReady
<1> QED
  BY <1>2, <1>3 DEF ReferencesInv, BufferInv

LEMMA InitReferences ==
  ASSUME Init
  PROVE ReferencesInv
<1>1. BufferInv
  BY ClearedFacts DEF Init, BufferInv
<1>2. WaitType
  BY EmptySeq DEF Init, WaitType, NoWait, NoTask
<1>3. OneTask /\ WaitsForReady
  BY DEF Init, OneTask, WaitsForReady, NoTask
<1> QED
  BY <1>1, <1>2, <1>3 DEF ReferencesInv, BufferInv

LEMMA ReferencesStep ==
  ASSUME ReferencesInv, [Next]_vars, ~ClearsInWait
  PROVE ReferencesInv'
<1>1. CASE InsertFrame
  BY <1>1, InsertFrameStep
<1>2. CASE Clear
  BY <1>2, ClearStep
<1>3. CASE NextFrame
  BY <1>3, NextFrameStep
<1>4. CASE Restart
  BY <1>4, RestartStep
<1>5. CASE StartTask
  BY <1>5, StartTaskStep
<1>6. CASE StoppedTask
  BY <1>6, StoppedTaskStep
<1>7. CASE MaybeExecuteTask
  BY <1>7, MaybeExecuteTaskStep
<1>8. CASE Tick
  <2>1. now' = now + 1 /\ UNCHANGED <<infos, continuous, history, next, waiting, task, queue, arrived, decoded>>
    BY <1>8 DEF Tick
  <2>2. WaitType' /\ OneTask' /\ WaitsForReady'
    BY <2>1 DEF ReferencesInv, WaitType, OneTask, WaitsForReady
  <2> QED
    BY <2>1, <2>2, BufferUnchanged DEF ReferencesInv, BufferInv
<1>9. CASE UNCHANGED vars
  BY <1>9, BufferUnchanged DEF vars, ReferencesInv, BufferInv, WaitType, OneTask, WaitsForReady
<1> QED
  BY <1>1, <1>2, <1>3, <1>4, <1>5, <1>6, <1>7, <1>8, <1>9 DEF Next, DecodeQueue

\* FrameBuffer gives the decoder every frame after the frames it refers to and in the order
\* of the ids, for every stream of frames, every width of DecodedFramesHistory and every
\* order of arrival, if no key frame or Clear empties the buffer while a NextFrame waits.
THEOREM DecodedInOrder ==
  ASSUME ~ClearsInWait
  PROVE Spec => []DecodesAfterReferences
<1>1. Init => ReferencesInv
  BY InitReferences
<1>2. ReferencesInv /\ [Next]_vars => ReferencesInv'
  BY ReferencesStep
<1>3. ReferencesInv => DecodesAfterReferences
  BY DEF ReferencesInv, InOrder, DecodesAfterReferences
<1> QED
  BY <1>1, <1>2, <1>3, PTL DEF Spec

=============================================================================

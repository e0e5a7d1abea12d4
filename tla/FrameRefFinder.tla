--------------------------- MODULE FrameRefFinder ---------------------------
(***************************************************************************)
(* SeqNumFrameRefFinder (jitter/frame_ref_finder_seq_num.cpp): a delta     *)
(* frame refers to the frame that ends right before it, with nothing but   *)
(* padding in between; a frame whose predecessor is not known yet is       *)
(* stashed and tried again after every frame that is handed off.  The      *)
(* class has no lock and no queue of its own: its state is a record, its   *)
(* methods are operators on it, and RtpVideoReceiver (VideoReceiver.tla)   *)
(* calls them.  A frame is [start, end, key], in sequence numbers.         *)
(***************************************************************************)
EXTENDS SeqNum, Sequences

CONSTANTS
    MaxGopPacketAge,    \* kMaxGopPacketAge
    MaxGopInfoAge,      \* kMaxGopInfoAge
    MaxPaddingAge,      \* kMaxPaddingAge
    MaxStashedFrames    \* kMaxStashedFrames

\* gops: gop_infos_, from the picture id of a key frame to the last picture of its group,
\* without and with padding; out: the frames handed off by the call that is running.
NewFinder == [gops |-> <<>>, padding |-> {}, stash |-> <<>>, unwrapped |-> -1, out |-> <<>>]

\* The last element of an ordered container.
Newest(S) == CHOOSE e \in S : \A f \in S : f = e \/ OlderThan(f, e)

\* The key before upper_bound(s): the group that s belongs to, if any.
GroupsUpTo(gops, s) == {k \in DOMAIN gops : ~OlderThan(s, k)}

-----------------------------------------------------------------------------
(* Mutants. *)

\* Padding that directly follows a group does not advance it.
NoPaddingRun(gop, padding) == {}

\* Any later frame of the group will do as predecessor.
SamePredecessor(gop, frame) == ~OlderThan(frame.start, gop.padded)

-----------------------------------------------------------------------------
(* UpdateGopInfo.  *)

\* The padding that directly follows what the group has got.
PaddingRun(gop, padding) ==
    {s \in padding : \A k \in 1..ForwardDiff(gop.padded, s) : Wrap(gop.padded + k) \in padding}

\* The group takes up the padding; after MaxGopPacketAge packets without a key frame its
\* key moves up to s and all other groups are forgotten.
UpdateGopInfo(f, s) ==
    LET curr == Newest(GroupsUpTo(f.gops, s))
        run == PaddingRun(f.gops[curr], f.padding)
        info == [f.gops[curr] EXCEPT !.padded = IF run = {} THEN @ ELSE Newest(run)]
    IN  IF GroupsUpTo(f.gops, s) = {} THEN f
        ELSE [f EXCEPT !.padding = @ \ run,
                       !.gops = IF ForwardDiff(curr, s) > MaxGopPacketAge THEN [k \in {s} |-> info]
                                ELSE [@ EXCEPT ![curr] = info]]

-----------------------------------------------------------------------------
(* FindRefForFrame: a decision, and the finder after it.                    *)

Insert(gops, k) ==
    [i \in DOMAIN gops \cup {k} |-> IF i \in DOMAIN gops THEN gops[i] ELSE [last |-> k, padded |-> k]]

\* Old groups are cleaned up, but for the last one.
Clean(gops, s) ==
    LET old == BeforeLowerBound(DOMAIN gops, Wrap(s - MaxGopInfoAge))
    IN  [i \in IF old = DOMAIN gops THEN {Newest(old)} ELSE DOMAIN gops \ old |-> gops[i]]

Continues(gop, frame) == Wrap(frame.start - 1) = gop.padded

\* The frame refers to the last picture of its group, and becomes that picture.
HandOff(f, curr, frame) ==
    LET gop == f.gops[curr]
        ref == IF frame.key THEN f.unwrapped ELSE Unwrap(f.unwrapped, gop.last)
        id == Unwrap(ref, frame.end)
        next == IF AheadOf(frame.end, gop.last) THEN [last |-> frame.end, padded |-> frame.end] ELSE gop
        g == UpdateGopInfo([f EXCEPT !.gops[curr] = next], frame.end)
    IN  [g EXCEPT !.unwrapped = id,
                  !.out = Append(@, [frame |-> frame, id |-> id, refs |-> IF frame.key THEN {} ELSE {ref}])]

FindRefForFrame(f, frame) ==
    LET all == IF frame.key THEN Insert(f.gops, frame.end) ELSE f.gops
        g == [f EXCEPT !.gops = Clean(all, frame.end)]
        curr == Newest(GroupsUpTo(g.gops, frame.end))
    IN  IF DOMAIN all = {} THEN [decision |-> "stashed", finder |-> f]
        ELSE IF GroupsUpTo(g.gops, frame.end) = {} THEN [decision |-> "dropped", finder |-> g]
        ELSE IF ~frame.key /\ ~Continues(g.gops[curr], frame) THEN [decision |-> "stashed", finder |-> g]
        ELSE [decision |-> "hand_off", finder |-> HandOff(g, curr, frame)]

-----------------------------------------------------------------------------
(* RetryStashedFrames: passes over the stash until one hands off nothing.   *)

TryOne(p) ==
    LET d == FindRefForFrame(p.finder, Head(p.left))
    IN  [finder |-> IF d.decision = "stashed" THEN [d.finder EXCEPT !.stash = Append(@, Head(p.left))]
                    ELSE d.finder,
         left |-> Tail(p.left), found |-> p.found \/ d.decision = "hand_off"]

Pass(f) ==
    LET try[n \in 0..Len(f.stash)] ==
            IF n = 0 THEN [finder |-> [f EXCEPT !.stash = <<>>], left |-> f.stash, found |-> FALSE]
            ELSE TryOne(try[n - 1])
    IN  try[Len(f.stash)]

RetryStashedFrames(f) ==
    LET pass[n \in 0..Len(f.stash) + 1] ==
            IF n = 0 THEN [finder |-> f, found |-> TRUE]
            ELSE IF pass[n - 1].found THEN Pass(pass[n - 1].finder) ELSE pass[n - 1]
    IN  pass[Len(f.stash) + 1].finder

-----------------------------------------------------------------------------
(* The methods.                                                             *)

InsertFrame(f, frame) ==
    LET d == FindRefForFrame(f, frame)
        kept == IF Len(f.stash) > MaxStashedFrames THEN SubSeq(f.stash, 1, Len(f.stash) - 1) ELSE f.stash
    IN  CASE d.decision = "stashed" -> [d.finder EXCEPT !.stash = <<frame>> \o kept]
          [] d.decision = "hand_off" -> RetryStashedFrames(d.finder)
          [] OTHER -> d.finder

InsertPadding(f, s) ==
    RetryStashedFrames(
        UpdateGopInfo([f EXCEPT !.padding = FromLowerBound(@, Wrap(s - MaxPaddingAge)) \cup {s}], s))

\* The stashed frames that begin before s are given up.
ClearTo(f, s) == [f EXCEPT !.stash = SelectSeq(@, LAMBDA frame : ~AheadOf(s, frame.start))]
=============================================================================

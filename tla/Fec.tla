-------------------------------- MODULE Fec ---------------------------------
(***************************************************************************)
(* Forward error correction: UlpFecGenerator and FecEncoder at the sender, *)
(* UlpFecReceiver and FecDecoder at the receiver (rtp/fec).  Media packets *)
(* are collected frame by frame and protected by FEC packets, each of them *)
(* the XOR of the media packets its mask names; a FEC packet gets its own  *)
(* sequence number when it is sent, between media packets of the next      *)
(* group, as padding does.  The network loses, repeats and reorders.       *)
(*                                                                         *)
(* XOR is symmetric difference: a packet's payload is the set of its own   *)
(* number.  Of a packet's 16-bit length three bits stand for the high byte *)
(* and the two halves of the low byte.  Masks are of one size: groups of   *)
(* more than 16 packets, whose masks are longer, and groups that span more *)
(* numbers than a mask has bits are left out.  Unequal protection is never *)
(* asked for.                                                              *)
(***************************************************************************)
EXTENDS SeqNum, Sequences, FiniteSets, FiniteSetsExt, SequencesExt

CONSTANTS
    MaxProtected,   \* kUlpFecMaxMediaPackets: the width of a mask
    MaxTracked,     \* max_media_packets of the decoder
    MaxFecKept,     \* max_fec_packets of the decoder
    OldThreshold,   \* kOldSequenceThreshold
    MinMedia,       \* kMinMediaPackets
    Ssrc,           \* the stream's SSRC
    Params,         \* protection parameters: [rate, frames, table] for delta and key frames
    Tables,         \* the mask tables: the rows for n media and k FEC packets at <<n, k>>
    Lengths,        \* the media packets' lengths, in turn: [high, mid, low]
    TooLong,        \* lengths beyond kIpPacketSize
    Offset,         \* the first sequence number
    MaxPackets,     \* bound on the packets sent
    MaxLate         \* bound on reordering

ASSUME FecAssumption ==
    /\ {MaxProtected, MaxTracked, MaxFecKept, MaxPackets, MaxLate} \subseteq Nat \ {0}
    /\ \A p \in Params : p.delta.rate \in 0..255 /\ p.key.rate \in 0..255
    /\ Offset \in SeqNums

VARIABLES
    sent,           \* the packets sent so far; the i-th has number Number(i)
    params,         \* current_params_
    group,          \* media_packets_: positions in sent
    frames,         \* num_protected_frames_
    key,            \* contains_key_frame_
    fecQueue,       \* FEC packets on their way through the pacer
    top,            \* the latest packet that has arrived
    known,          \* recovered_media_packets_, from numbers to packets
    fecs,           \* received_fec_packets_, from numbers to FEC packets
    handed,         \* history: media packets given to the video receiver
    usable          \* history: FEC packets taken in and not discarded as old, surplus or useless

sender == <<sent, params, group, frames, key, fecQueue>>
decoder == <<known, fecs, handed, usable>>
vars == <<sender, top, decoder>>

Number(i) == Wrap(Offset + i)
Xor(a, b) == (a \ b) \cup (b \ a)
MinDiff(a, b) == Min({ForwardDiff(a, b), ForwardDiff(b, a)})
Newest(S) == CHOOSE e \in S : \A f \in S : f = e \/ OlderThan(f, e)
Gone == [data |-> {}, len |-> [high |-> 0, mid |-> 0, low |-> 0]]
Only(f, S) == [x \in S |-> f[x]]
With(f, x, v) == [y \in DOMAIN f \cup {x} |-> IF y = x THEN v ELSE f[y]]

Init ==
    /\ sent = <<>> /\ params \in Params /\ group = <<>> /\ frames = 0 /\ key = FALSE
    /\ fecQueue = <<>> /\ top = 0
    /\ known = <<>> /\ fecs = <<>> /\ handed = {} /\ usable = {}

-----------------------------------------------------------------------------
(* Mutants. *)

\* Masks are not widened where numbers of the group are missing.
UnexpandedColumn(g, i) == i

\* A packet that arrives is not entered into the FEC packets that protect it.
CoveringForgotten(fs, n, p) == fs

-----------------------------------------------------------------------------
(* XorHeader and XorPayload: the middle of the length is left as it is.     *)

XorPackets(dst, src) ==
    [data |-> Xor(dst.data, src.data),
     len |-> [dst.len EXCEPT !.high = (@ + src.len.high) % 2, !.low = (@ + src.len.low) % 2]]

\* The XOR of the packets ps onto packet p, one after the other.
XorAll(p, ps) ==
    LET acc[n \in 0..Len(ps)] == IF n = 0 THEN p ELSE XorPackets(acc[n - 1], ps[n])
    IN  acc[Len(ps)]

-----------------------------------------------------------------------------
(* FecEncoder.  *)

CalcNumFecPackets(n, rate) ==
    LET rounded == (n * rate + 128) \div 256
    IN  IF rate > 0 /\ rounded = 0 THEN 1 ELSE rounded

\* The column of packet i of the group g: its distance in numbers from the first.
Column(g, i) == g[i + 1] - g[1]

\* InsertZeroInPacketMasks: a row of the table with zeros where numbers are missing.
Widen(g, row) == {Column(g, i) : i \in row}

\* GenerateFecPayload and FinalizeFecHeaders: the packets under the bits of the row.
FecPacket(sn, g, row) ==
    LET bits == Widen(g, row)
        covered == SelectSeq(g, LAMBDA i : i - g[1] \in bits)
        packets == [k \in DOMAIN covered |-> sn[covered[k]].packet]
        first == IF packets = <<>> THEN Gone ELSE packets[1]
        rest == IF packets = <<>> THEN <<>> ELSE Tail(packets)
    IN  [kind |-> "fec", packet |-> XorAll(first, rest), base |-> Number(g[1]), bits |-> bits]

-----------------------------------------------------------------------------
(* UlpFecGenerator.  The egresser pushes a media packet as it sends it and  *)
(* the pacer fetches the FEC packets right after.                           *)

CurrentParams(ps, k) == IF k THEN ps.key ELSE ps.delta

\* Rates are unsigned: an actual rate below the target counts as excess.
MaxExcessOverheadNotReached(n, rate) ==
    (CalcNumFecPackets(n, rate) * 256) \div n - rate \in 0..49

MinimumMediaPacketsReached(n, fs, min) == n >= IF n < 2 * fs THEN min ELSE min + 1

PushMediaPacket ==
    \E k, marker \in BOOLEAN, ps \in Params :
        LET i == Len(sent) + 1
            len == Lengths[(i % Len(Lengths)) + 1]
            sn == Append(sent, [kind |-> "media", packet |-> [data |-> {Number(i)}, len |-> len]])
            min == IF CurrentParams(ps, key).rate > 80 THEN MinMedia ELSE 1
            cur == CurrentParams(ps, key \/ k)
            g == IF Len(group) < MaxProtected THEN Append(group, i) ELSE group
            fs == frames + IF marker THEN 1 ELSE 0
            n == CalcNumFecPackets(Len(g), cur.rate)
            rows == Tables[cur.table][<<Len(g), n>>]
            encode == /\ marker
                      /\ \/ fs >= cur.frames
                         \/ /\ MaxExcessOverheadNotReached(Len(g), cur.rate)
                            /\ MinimumMediaPacketsReached(Len(g), fs, min)
        IN  /\ i <= MaxPackets
            /\ g[Len(g)] - g[1] < MaxProtected
            /\ sent' = sn /\ params' = ps
            /\ IF encode /\ n > 0
               THEN /\ fecQueue' = fecQueue \o [r \in 1..n |-> FecPacket(sn, g, rows[r])]
                    /\ group' = <<>> /\ frames' = 0 /\ key' = FALSE
               ELSE /\ group' = g /\ frames' = fs /\ key' = (key \/ k)
                    /\ UNCHANGED fecQueue
            /\ UNCHANGED <<top, decoder>>

\* A FEC packet leaves the pacer.
SendFecPacket ==
    /\ fecQueue # <<>> /\ Len(sent) < MaxPackets
    /\ sent' = Append(sent, Head(fecQueue)) /\ fecQueue' = Tail(fecQueue)
    /\ UNCHANGED <<params, group, frames, key, top, decoder>>

\* Padding takes a number of the stream and is not protected.
SendPadding ==
    /\ Len(sent) < MaxPackets
    /\ sent' = Append(sent, [kind |-> "padding"])
    /\ UNCHANGED <<params, group, frames, key, fecQueue, top, decoder>>

-----------------------------------------------------------------------------
(* FecDecoder: its methods work on a record of its members.                 *)

Decoder == [known |-> known, fecs |-> fecs, handed |-> handed, usable |-> usable]

\* The packet with the newest number is looked up by its number, not by its SSRC.
ResetIfBigGap(d, n) ==
    IF /\ Cardinality(DOMAIN d.known) >= MaxTracked
       /\ Ssrc = Newest(DOMAIN d.known)
       /\ MinDiff(n, Newest(DOMAIN d.known)) > MaxTracked
    THEN [d EXCEPT !.known = <<>>, !.fecs = <<>>, !.usable = {}] ELSE d

\* FEC packets are removed.
Evict(d, S) ==
    [d EXCEPT !.fecs = Only(@, DOMAIN @ \ S), !.usable = {u \in @ : u.number \notin S}]

\* Old FEC packets go, from the front up to the first that is not old.
DiscardFarFecPackets(d, n) ==
    LET Far(f) == MinDiff(n, f) > OldThreshold
    IN  Evict(d, {f \in DOMAIN d.fecs : \A e \in DOMAIN d.fecs : ~OlderThan(f, e) => Far(e)})

\* The elements of S beyond the newest max.
Surplus(S, max) == {e \in S : Cardinality({f \in S : OlderThan(e, f)}) >= max}

DiscardOldRecoveredPackets(d) ==
    [d EXCEPT !.known = Only(@, DOMAIN @ \ Surplus(DOMAIN @, MaxTracked))]

\* The FEC packets that protect number n learn of packet p.
UpdateCoveringFecPackets(fs, n, p) ==
    [f \in DOMAIN fs |-> IF n \in fs[f].protects THEN [fs[f] EXCEPT !.has = With(@, n, p)] ELSE fs[f]]

InsertFecPacket(d, n, f) ==
    LET protects == {Wrap(f.base + b) : b \in f.bits}
        entry == [protects |-> protects, has |-> Only(d.known, protects \cap DOMAIN d.known),
                  packet |-> f.packet]
        e == [d EXCEPT !.fecs = With(@, n, entry), !.usable = @ \cup {[number |-> n, protects |-> protects]}]
    IN  IF n \in DOMAIN d.fecs \/ protects = {} THEN d
        ELSE Evict(e, Surplus(DOMAIN e.fecs, MaxFecKept))

InsertMediaPacket(d, n, p) ==
    IF n \in DOMAIN d.known THEN d
    ELSE DiscardOldRecoveredPackets(
            [d EXCEPT !.fecs = UpdateCoveringFecPackets(@, n, p), !.known = With(@, n, p)])

Lacks(f) == f.protects \ DOMAIN f.has

IsOldFecPacket(d, f) ==
    /\ DOMAIN d.known # {}
    /\ MinDiff(Newest(DOMAIN d.known), Newest(f.protects)) > OldThreshold

\* A recovered packet; the XOR starts from the FEC packet.
RecoverPacket(f) ==
    LET order == SetToSeq(DOMAIN f.has)
    IN  XorAll(f.packet, [k \in DOMAIN order |-> f.has[order[k]]])

\* The packet that FEC packet x recovers enters the list, which is then cut to its size,
\* and is handed on from there: one that the cut removed is gone.  A packet whose length,
\* which XorHeader spoils, has become too long is dropped, and the FEC packet with it.
Recover(d, x) ==
    LET f == d.fecs[x]
        n == CHOOSE m \in Lacks(f) : TRUE
        p == RecoverPacket(f)
        e == DiscardOldRecoveredPackets(
                [d EXCEPT !.known = IF n \in DOMAIN @ THEN @ ELSE With(@, n, p),
                          !.fecs = UpdateCoveringFecPackets(Only(@, DOMAIN @ \ {x}), n, p)])
        given == [number |-> n, packet |-> IF n \in DOMAIN e.known THEN p ELSE Gone]
    IN  IF p.len \in TooLong THEN Evict(d, {x}) ELSE [e EXCEPT !.handed = @ \cup {given}]

\* TryToRecover takes the first FEC packet that can recover a packet or has become
\* useless, and starts over, until there is none.
TryToRecover(d) ==
    LET Idle(e, x) == Cardinality(Lacks(e.fecs[x])) > 1 /\ ~IsOldFecPacket(e, e.fecs[x])
        Step(e) ==
            LET busy == {x \in DOMAIN e.fecs : ~Idle(e, x)}
                x == Oldest(busy)
            IN  CASE busy = {} -> e
                  [] busy # {} /\ Cardinality(Lacks(e.fecs[x])) = 1 -> Recover(e, x)
                  [] busy # {} /\ Lacks(e.fecs[x]) = {} -> [e EXCEPT !.fecs = Only(@, DOMAIN @ \ {x})]
                  [] OTHER -> Evict(e, {x})
        walk[n \in 0..Cardinality(DOMAIN d.fecs)] == IF n = 0 THEN d ELSE Step(walk[n - 1])
    IN  walk[Cardinality(DOMAIN d.fecs)]

Becomes(d) == known' = d.known /\ fecs' = d.fecs /\ handed' = d.handed /\ usable' = d.usable

\* OnRedPacket: a media packet is handed on at once; both kinds go to the decoder.
OnRedPacket ==
    \E i \in DOMAIN sent :
        LET n == Number(i)
            s == sent[i]
            d == DiscardFarFecPackets(ResetIfBigGap(Decoder, n), n)
        IN  /\ i >= top - MaxLate /\ s.kind # "padding"
            /\ top' = IF i > top THEN i ELSE top
            /\ IF s.kind = "fec" THEN Becomes(TryToRecover(InsertFecPacket(d, n, s)))
               ELSE Becomes(TryToRecover(InsertMediaPacket(
                        [d EXCEPT !.handed = @ \cup {[number |-> n, packet |-> s.packet]}], n, s.packet)))
            /\ UNCHANGED sender

Next == PushMediaPacket \/ SendFecPacket \/ SendPadding \/ OnRedPacket

Spec == Init /\ [][Next]_vars

-----------------------------------------------------------------------------
(* Properties.                                                              *)

SentAs(n) == sent[CHOOSE i \in DOMAIN sent : Number(i) = n]

\* What FEC hands on is what was sent, whatever was lost and in whatever order the rest
\* came: no packet of another number, nothing that was not protected, and the length,
\* but for the four bits XorHeader leaves out, which are those of another packet of the
\* group.
RecoveredIntact ==
    \A h \in handed :
        LET s == SentAs(h.number)
        IN  /\ s.kind = "media" /\ h.packet.data = s.packet.data
            /\ h.packet.len = [s.packet.len EXCEPT !.mid = h.packet.len.mid]
            /\ \E i \in DOMAIN sent : sent[i].kind = "media" /\ sent[i].packet.len.mid = h.packet.len.mid

\* Recovery is complete: a FEC packet that was taken in has either seen every packet it
\* protects handed on, or is still held and lacks two or more of those now known.
RecoveryComplete ==
    LET numbers == {h.number : h \in handed}
    IN  \A u \in usable :
            \/ u.protects \subseteq numbers
            \/ u.number \in DOMAIN fecs /\ Cardinality(u.protects \ DOMAIN known) >= 2
=============================================================================

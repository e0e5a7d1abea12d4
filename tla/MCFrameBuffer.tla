--------------------------- MODULE MCFrameBuffer ----------------------------
(***************************************************************************)
(* FrameBuffer on a stream where two deltas share a reference, one refers  *)
(* to both of them, and the delta of the next group refers to a frame that *)
(* may have been skipped, which shares its place in the ring with another. *)
(***************************************************************************)
EXTENDS FrameBuffer

Frame(id, key, refs) == [id |-> id, ts |-> id, key |-> key, refs |-> refs]

\* The last frame is a key frame whose id jumps back.
MCStream ==
    {Frame(1, TRUE, {}), Frame(2, FALSE, {1}), Frame(3, FALSE, {1}), Frame(4, FALSE, {2, 3}),
     Frame(5, TRUE, {}), Frame(7, FALSE, {4, 5}),
     [id |-> 3, ts |-> 9, key |-> TRUE, refs |-> {}]}

=============================================================================

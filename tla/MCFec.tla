-------------------------------- MODULE MCFec -------------------------------
(***************************************************************************)
(* Fec with the mask tables for groups of up to four packets, a rate that  *)
(* protects each frame alone and one that waits for two frames.  The       *)
(* sender learns nothing from the receiver, so packets arrive once all of  *)
(* them are sent.                                                          *)
(***************************************************************************)
EXTENDS Fec, TLC

\* kPacketMaskBurstyTable and kPacketMaskRandomTable.
MCTables ==
    [bursty |-> <<1, 1>> :> <<{0}>> @@ <<2, 1>> :> <<{0, 1}>> @@ <<2, 2>> :> <<{0}, {0, 1}>>
             @@ <<3, 1>> :> <<{0, 1, 2}>> @@ <<3, 2>> :> <<{0, 1}, {0, 2}>>
             @@ <<3, 3>> :> <<{0}, {0, 1}, {1, 2}>>
             @@ <<4, 1>> :> <<0..3>> @@ <<4, 2>> :> <<{0, 2}, {0, 1, 3}>>
             @@ <<4, 3>> :> <<{0, 1}, {1, 2}, {0, 3}>>
             @@ <<4, 4>> :> <<{0}, {0, 1}, {1, 2}, {2, 3}>>,
     random |-> <<1, 1>> :> <<{0}>> @@ <<2, 1>> :> <<{0, 1}>> @@ <<2, 2>> :> <<{0, 1}, {0}>>
             @@ <<3, 1>> :> <<{0, 1, 2}>> @@ <<3, 2>> :> <<{0, 1}, {0, 2}>>
             @@ <<3, 3>> :> <<{0, 1}, {0, 2}, {1, 2}>>
             @@ <<4, 1>> :> <<0..3>> @@ <<4, 2>> :> <<{0, 1}, {0, 2, 3}>>
             @@ <<4, 3>> :> <<{0, 1}, {0, 2, 3}, {1, 2}>>
             @@ <<4, 4>> :> <<{0, 1}, {0, 2}, {2, 3}, {1, 3}>>]

MCParams ==
    {[delta |-> [rate |-> 64, frames |-> 2, table |-> "random"],
      key |-> [rate |-> 160, frames |-> 1, table |-> "bursty"]]}

MCLengths ==
    <<[high |-> 0, mid |-> 0, low |-> 1], [high |-> 1, mid |-> 1, low |-> 1],
      [high |-> 1, mid |-> 0, low |-> 0]>>

MCTooLong == {[high |-> 1, mid |-> 1, low |-> 0]}

MCNext ==
    \/ PushMediaPacket \/ SendFecPacket \/ SendPadding
    \/ Len(sent) = MaxPackets /\ OnRedPacket

MCSpec == Init /\ [][MCNext]_vars
=============================================================================

---------------------------- MODULE ReliableChannel ----------------------------
(***************************************************************************)
(* What ENet promises for the reliable packets of one channel of one       *)
(* connection: each is received once, in the order they were sent.         *)
(***************************************************************************)
EXTENDS Naturals, Sequences

VARIABLES
    sentCount, \* how many packets were sent; they are numbered from 1
    received,  \* the packets received, in order
    open       \* the sender has not given the connection up

channelVars == <<sentCount, received, open>>

ChannelInit == sentCount = 0 /\ received = <<>> /\ open = TRUE

SendPacket ==
    /\ open
    /\ sentCount' = sentCount + 1
    /\ UNCHANGED <<received, open>>

\* Packets that had to wait for an earlier one are received together with it,
\* possibly after the sender has given up.
ReceivePackets ==
    /\ \E k \in Len(received) + 1 .. sentCount :
           received' = [n \in 1 .. k |-> n]
    /\ UNCHANGED <<sentCount, open>>

End == open' = FALSE /\ UNCHANGED <<sentCount, received>>

ChannelSpec == ChannelInit /\ [][SendPacket \/ ReceivePackets \/ End]_channelVars
===============================================================================

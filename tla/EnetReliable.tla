------------------------------ MODULE EnetReliable ------------------------------
(***************************************************************************)
(* The reliable packets of one channel of an ENet connection, from the     *)
(* peer that sends them to the peer that receives them: sequence numbers   *)
(* that wrap, the windows that limit the sender and the receiver,          *)
(* acknowledgements, and commands sent again after a time-out.             *)
(*                                                                         *)
(* Packets are numbered 1, 2, ... for the model's sake; the code sees only *)
(* SeqNo(n).  The channel has carried Earlier packets before them, all of  *)
(* them received and acknowledged, so that a small run reaches the wrap.   *)
(*                                                                         *)
(* The network loses, duplicates, delays and reorders datagrams, each of   *)
(* which carries one packet or one acknowledgement.  Sequence numbers are  *)
(* unique only for a while, and ENet relies on no datagram outliving it:   *)
(* Lifetime is that assumption, measured in packets.                       *)
(***************************************************************************)
EXTENDS Integers, FiniteSets, Sequences, SequencesExt, Lists

CONSTANTS
    Windows,     \* ENET_PEER_RELIABLE_WINDOWS (16)
    WindowSize,  \* ENET_PEER_RELIABLE_WINDOW_SIZE (0x1000)
    FreeWindows, \* ENET_PEER_FREE_RELIABLE_WINDOWS (8)
    Lifetime,    \* a datagram is gone once the packet Lifetime after its own is sent
    Earlier,     \* the sequence number of the last packet before the first
    MaxPackets,  \* bound: how many packets are sent
    MaxQueued    \* bound: how many wait to be sent or acknowledged

ASSUME ReliableAssumption ==
    /\ WindowSize \in Nat \ {0} /\ FreeWindows \in Nat \ {0, 1, 2}
    /\ Windows = 2 * FreeWindows
    /\ Lifetime \in (FreeWindows - 1) * WindowSize .. FreeWindows * WindowSize
    /\ Earlier \in 0 .. Windows * WindowSize - 1
    /\ MaxPackets \in Nat /\ MaxQueued \in Nat

VARIABLES
    sentCount,       \* packets given to enet_peer_send
    outgoing,        \* outgoingCommands
    attempted,       \* the packets whose command has sendAttempts > 0
    sent,            \* sentReliableCommands
    reliableWindows, \* of the sender's channel
    incoming,        \* incomingReliableSequenceNumber, of the receiver's channel
    waiting,         \* incomingReliableCommands: kept in the order of their numbers
    received,        \* history: what the receiver has put into dispatchedCommands
    data,            \* packets in datagrams under way
    acks,            \* acknowledged packets in datagrams under way
    open             \* the sender's peer is CONNECTED

senderVars == <<sentCount, outgoing, attempted, sent, reliableWindows>>
receiverVars == <<incoming, waiting, received>>
reliableVars == <<senderVars, receiverVars, data, acks, open>>

Packets == 1 .. MaxPackets
SeqNos == Windows * WindowSize
SeqNo(n) == (Earlier + n) % SeqNos
WindowOf(s) == s \div WindowSize
NoCounts == [w \in 0 .. Windows - 1 |-> 0]

\* reliableWindows counts what is sent and not acknowledged, waiting holds only what the
\* receiver's windows admit.
ReliableTypeOK ==
    /\ sentCount \in 0 .. MaxPackets
    /\ outgoing \in Seq(Packets) /\ sent \in Seq(Packets)
    /\ attempted \subseteq Packets
    /\ reliableWindows \in [0 .. Windows - 1 -> 0 .. WindowSize]
    /\ incoming \in 0 .. SeqNos - 1
    /\ waiting \subseteq Packets
    /\ received \in Seq(Packets)
    /\ data \subseteq Packets /\ acks \subseteq Packets
    /\ open \in BOOLEAN

ReliableInit ==
    /\ sentCount = 0 /\ outgoing = <<>> /\ attempted = {} /\ sent = <<>>
    /\ reliableWindows = NoCounts
    /\ incoming = Earlier /\ waiting = {} /\ received = <<>>
    /\ data = {} /\ acks = {}
    /\ open = TRUE

-------------------------------------------------------------------------------
(* The sender.                                                             *)

\* enet_peer_send: the command gets its number and is queued.
Send ==
    /\ open
    /\ sentCount < MaxPackets
    /\ Len(outgoing) + Len(sent) < MaxQueued
    /\ sentCount' = sentCount + 1
    /\ outgoing' = Append(outgoing, sentCount + 1)
    /\ UNCHANGED <<attempted, sent, reliableWindows, receiverVars, data, acks, open>>

\* Mutant of CountedWindows: a command is counted at every attempt.
CountedAgain(list) ==
    [w \in 0 .. Windows - 1 |->
        reliableWindows[w] + Cardinality({n \in Among(list) : WindowOf(SeqNo(n)) = w})]

\* The windows once the commands of list are sent: each is counted at its first attempt.
CountedWindows(list) ==
    [w \in 0 .. Windows - 1 |->
        reliableWindows[w] + Cardinality({n \in Among(list) \ attempted : WindowOf(SeqNo(n)) = w})]

\* A packet that opens a window stays unsent while the window before it is full, or while
\* one of the FreeWindows + 2 windows from its own on still has commands without ack.
MayOpen(n, counts) ==
    LET w == WindowOf(SeqNo(n)) IN
    /\ counts[(w + Windows - 1) % Windows] < WindowSize
    /\ \A v \in w .. w + FreeWindows + 1 : counts[v % Windows] = 0

\* windowWrap, once set, holds back the rest of the queue.
WindowsAllow(list) ==
    \A k \in 1 .. Len(list) :
        list[k] \notin attempted /\ SeqNo(list[k]) % WindowSize = 0 =>
            MayOpen(list[k], CountedWindows(SubSeq(list, 1, k - 1)))

\* A datagram is not delayed beyond its lifetime.
StillUnderWay(datagrams, tried) == {n \in datagrams : \A m \in tried : m < n + Lifetime}

\* One pass of enet_protocol_send_outgoing_commands: the commands in timedOut go back to
\* the head of the queue, and the first k of the queue are sent.  What is not held back by
\* the windows may be by the bytes in transit, unless nothing is in transit.
SendPass(timedOut, k) ==
    LET queue == Those(sent, timedOut) \o outgoing
        kept == Those(sent, Among(sent) \ timedOut)
        pass == SubSeq(queue, 1, k)
    IN
    /\ open
    /\ UNCHANGED <<sentCount, receiverVars, open>>
    /\ k <= Len(queue) /\ WindowsAllow(pass)
    /\ k = 0 /\ queue # <<>> /\ kept = <<>> => ~WindowsAllow(<<Head(queue)>>)
    /\ sent' = kept \o pass
    /\ outgoing' = SubSeq(queue, k + 1, Len(queue))
    /\ attempted' = attempted \cup Among(pass)
    /\ reliableWindows' = CountedWindows(pass)
    /\ data' = StillUnderWay(data \cup Among(pass), attempted')
    /\ acks' = StillUnderWay(acks, attempted')

SendOutgoing == \E timedOut \in SUBSET Among(sent), k \in 0 .. MaxQueued : SendPass(timedOut, k)

\* enet_protocol_remove_sent_reliable_command: the acknowledged command is looked for
\* among the sent ones, then among those that wait to be sent again.  The last duplicates
\* of an acknowledgement find nothing.
Acknowledged(n, list) == SelectInSeq(list, LAMBDA m : m \in attempted /\ SeqNo(m) = SeqNo(n))

\* Mutant of CountedOut: the count is left as it is.
NotCountedOut(w) == reliableWindows

\* A window's count once one of its commands is acknowledged.
CountedOut(w) ==
    [reliableWindows EXCEPT ![w] = IF @ > 0 THEN @ - 1 ELSE @]

ReceiveAck(n) ==
    LET inSent == Acknowledged(n, sent)
        inOutgoing == Acknowledged(n, outgoing)
    IN
    /\ open
    /\ n \in acks
    /\ UNCHANGED <<sentCount, attempted, receiverVars, data, acks, open>>
    /\ inSent > 0 \/ inOutgoing > 0
    /\ IF inSent > 0
       THEN sent' = RemoveAt(sent, inSent) /\ UNCHANGED outgoing
       ELSE outgoing' = RemoveAt(outgoing, inOutgoing) /\ UNCHANGED sent
    /\ reliableWindows' = CountedOut(WindowOf(SeqNo(n)))

\* enet_protocol_notify_disconnect_timeout: a command has waited too long, the peer is reset.
GiveUp ==
    /\ open
    /\ sent # <<>>
    /\ open' = FALSE
    /\ outgoing' = <<>> /\ sent' = <<>>
    /\ reliableWindows' = NoCounts
    /\ UNCHANGED <<sentCount, attempted, receiverVars, data, acks>>

-------------------------------------------------------------------------------
(* The receiver.                                                           *)

\* How many windows the number s is ahead of the number r: a smaller number has wrapped.
Ahead(s, r) == WindowOf(s) + (IF s < r THEN Windows ELSE 0) - WindowOf(r)

\* Mutant of Kept: the windows are not tested.
KeptFromAnyWindow(n) ==
    /\ SeqNo(n) # incoming
    /\ \A m \in waiting : SeqNo(m) # SeqNo(n)

\* enet_peer_queue_incoming_command: a packet is kept if it is ahead, within the free
\* windows, and not a duplicate.
Kept(n) ==
    /\ Ahead(SeqNo(n), incoming) < FreeWindows - 1
    /\ SeqNo(n) # incoming
    /\ \A m \in waiting : SeqNo(m) # SeqNo(n)

\* Mutant of Answers: a discarded packet is acknowledged too.
AnswersAll(n, r) == TRUE

\* enet_peer_queue_acknowledgement: what lies just beyond the free windows was not kept
\* and is not acknowledged; what lies further off is taken for an old packet.
Answers(n, r) == Ahead(SeqNo(n), r) \notin {FreeWindows - 1, FreeWindows}

\* Mutant of InOrder: what waits is dispatched though a packet is missing.
WithGaps(arrived) == SetToSortSeq(arrived, LAMBDA m, n : m < n)

\* enet_peer_dispatch_incoming_reliable_commands: the packets of arrived that follow
\* incoming without a gap.
InOrder(arrived) ==
    LET Next(j) == {m \in arrived : SeqNo(m) = (incoming + j) % SeqNos}
        length == CHOOSE k \in 0 .. Cardinality(arrived) :
                      Next(k + 1) = {} /\ \A j \in 1 .. k : Next(j) # {}
    IN [j \in 1 .. length |-> CHOOSE m \in Next(j) : TRUE]

\* A reliable packet arrives; its datagram may be a duplicate and may arrive again.
ReceiveData(n) ==
    LET arrived == IF Kept(n) THEN waiting \cup {n} ELSE waiting
        run == IF Kept(n) THEN InOrder(arrived) ELSE <<>>
    IN
    /\ n \in data
    /\ UNCHANGED <<senderVars, data, open>>
    /\ waiting' = arrived \ Among(run)
    /\ received' = received \o run
    /\ incoming' = (incoming + Len(run)) % SeqNos
    /\ acks' = IF Answers(n, incoming') THEN acks \cup {n} ELSE acks

-------------------------------------------------------------------------------
(* The network.                                                            *)

LoseData(n) == n \in data /\ data' = data \ {n} /\ UNCHANGED <<senderVars, receiverVars, acks, open>>
LoseAck(n) == n \in acks /\ acks' = acks \ {n} /\ UNCHANGED <<senderVars, receiverVars, data, open>>

ReliableNext ==
    \/ Send
    \/ SendOutgoing
    \/ GiveUp
    \/ \E n \in Packets : ReceiveData(n) \/ ReceiveAck(n) \/ LoseData(n) \/ LoseAck(n)

\* What the network and the sender's timers owe: commands without an answer time out, and
\* a pass then sends all that the windows allow; of the oldest packet's datagrams, sent
\* over and over, one arrives, and so does its ack.
Unacknowledged == Among(sent) \cup (Among(outgoing) \cap attempted)
SendAgain ==
    /\ open
    /\ LET queue == sent \o outgoing IN
       \E k \in 0 .. Len(queue) :
           /\ k < Len(queue) => ~WindowsAllow(SubSeq(queue, 1, k + 1))
           /\ SendPass(Among(sent), k)
OldestArrives == Unacknowledged # {} /\ ReceiveData(Min(Unacknowledged))
OldestAckArrives == Unacknowledged # {} /\ ReceiveAck(Min(Unacknowledged))

ReliableFairness ==
    /\ WF_reliableVars(SendAgain)
    /\ SF_reliableVars(OldestArrives)
    /\ SF_reliableVars(OldestAckArrives)

ReliableSpec == ReliableInit /\ [][ReliableNext]_reliableVars /\ ReliableFairness

-------------------------------------------------------------------------------
(* Properties.                                                             *)

\* Whatever the network does to the datagrams, the application receives every packet
\* once and in order.
Channel == INSTANCE ReliableChannel
ImplementsChannel == Channel!ChannelSpec

\* The sender forgets a packet only when the receiver has it: the receiver never
\* acknowledges what it discards, and no ack counts for another packet with its number.
ForgottenIsReceived ==
    open => \A n \in 1 .. sentCount :
        n \in Among(outgoing) \cup Among(sent) \cup Among(received) \cup waiting

\* What waits at the receiver was sent and has not been received: a duplicate of an old
\* packet is never taken for the later one that will get its number.
WaitingIsAhead == waiting \subseteq Len(received) + 1 .. sentCount

\* The windows count exactly the packets that were sent and not acknowledged, however
\* often they were sent, so that no window stays closed or opens too early.
WindowsAgree ==
    open => \A w \in 0 .. Windows - 1 :
        reliableWindows[w] = Cardinality({n \in Unacknowledged : WindowOf(SeqNo(n)) = w})

\* What was sent is received, unless the sender gives the connection up: no loss, duplicate
\* or wrap closes the windows for good.  (MaxPackets ends the sending: until then the
\* receiver need not catch up.)
AllReceived == Len(received) < sentCount ~> Len(received) = sentCount \/ ~open
===============================================================================

--------------------------- MODULE EnetReliableProofs --------------------------
(***************************************************************************)
(* Proofs about EnetReliable, for any window size, any number of windows,  *)
(* any number of packets and any number that the channel starts from: a    *)
(* network that loses, duplicates, delays and reorders datagrams delivers  *)
(* each packet once and in order, across every wrap of the numbers.        *)
(***************************************************************************)
EXTENDS EnetReliable, DataLemmas

(***************************************************************************)
(* The numbers on the wire wrap; the packets they stand for do not.        *)
(* Frame(n) is the window packet n would be in if its number had not been  *)
(* reduced.  As long as two packets are less than SeqNos apart, their      *)
(* numbers tell them apart, and Ahead tells which frame is ahead.          *)
(***************************************************************************)
Frame(n) == (Earlier + n) \div WindowSize

LEMMA Parameters ==
    /\ WindowSize \in Nat \ {0} /\ FreeWindows \in Nat /\ FreeWindows >= 3
    /\ Windows = 2 * FreeWindows /\ Windows \in Nat \ {0}
    /\ SeqNos = Windows * WindowSize /\ SeqNos \in Nat \ {0}
    /\ SeqNos = 2 * (FreeWindows * WindowSize) /\ FreeWindows * WindowSize \in Nat
    /\ Lifetime \in Int /\ Lifetime <= FreeWindows * WindowSize
    /\ Earlier \in Nat /\ Earlier < SeqNos
    /\ MaxPackets \in Nat /\ MaxQueued \in Nat
<1>1. WindowSize \in Nat \ {0} /\ FreeWindows \in Nat /\ FreeWindows >= 3
  BY ReliableAssumption
<1>2. Windows = 2 * FreeWindows /\ Windows \in Nat \ {0}
  BY <1>1, ReliableAssumption
<1>3. FreeWindows * WindowSize \in Nat
  BY <1>1
<1>4. SeqNos = 2 * (FreeWindows * WindowSize)
  <2>1. (2 * FreeWindows) * WindowSize = 2 * (FreeWindows * WindowSize)
    BY <1>1
  <2>2. QED
    BY <1>2, <2>1 DEF SeqNos
<1>5. SeqNos \in Nat \ {0}
  <2>1. WindowSize * 0 + WindowSize <= WindowSize * FreeWindows
    BY <1>1, Multiple
  <2>2. FreeWindows * WindowSize > 0
    BY <1>1, <2>1
  <2>3. QED
    BY <1>3, <1>4, <2>2
<1>6. Lifetime \in Int /\ Lifetime <= FreeWindows * WindowSize
  <2>1. (FreeWindows - 1) * WindowSize \in Int
    BY <1>1
  <2>2. QED
    BY <1>3, <2>1, ReliableAssumption
<1>7. Earlier \in Nat /\ Earlier < SeqNos
  BY <1>5, ReliableAssumption DEF SeqNos
<1>8. SeqNos = Windows * WindowSize /\ MaxPackets \in Nat /\ MaxQueued \in Nat
  BY ReliableAssumption DEF SeqNos
<1>9. QED
  BY <1>1, <1>2, <1>3, <1>4, <1>5, <1>6, <1>7, <1>8

LEMMA Frames ==
    ASSUME NEW n \in Nat
    PROVE  /\ Frame(n) \in Nat
           /\ SeqNo(n) \in 0 .. SeqNos - 1
           /\ WindowOf(SeqNo(n)) = Frame(n) % Windows
           /\ WindowOf(SeqNo(n)) \in 0 .. Windows - 1
<1>1. Earlier + n \in Nat
  BY Parameters
<1>2. Frame(n) \in Nat
  BY <1>1, Parameters, Quotient DEF Frame
<1>3. SeqNo(n) \in 0 .. SeqNos - 1
  BY <1>1, Parameters, Quotient DEF SeqNo
<1>4. WindowOf(SeqNo(n)) = Frame(n) % Windows
  <2>1. ((Earlier + n) % (Windows * WindowSize)) \div WindowSize
          = ((Earlier + n) \div WindowSize) % Windows
    <3> PICK x \in Nat : x = Earlier + n
      BY <1>1
    <3>1. WindowSize \in Nat \ {0} /\ Windows \in Nat \ {0}
      BY Parameters
    <3>2. (x % (Windows * WindowSize)) \div WindowSize = (x \div WindowSize) % Windows
      BY <3>1, NestedQuotient
    <3>3. QED
      BY <3>2
  <2>2. QED
    BY <2>1, Parameters DEF Frame, WindowOf, SeqNo
<1>5. Frame(n) % Windows \in 0 .. Windows - 1
  BY <1>2, Parameters, Quotient
<1>6. QED
  BY <1>2, <1>3, <1>4, <1>5

\* How often the numbers have wrapped before packet n.
Wraps(n) == (Earlier + n) \div SeqNos

LEMMA Wrapped ==
    ASSUME NEW n \in Nat
    PROVE  /\ Wraps(n) \in Nat
           /\ Earlier + n = SeqNos * Wraps(n) + SeqNo(n)
           /\ Frame(n) = Windows * Wraps(n) + WindowOf(SeqNo(n))
<1>1. Earlier + n \in Nat
  BY Parameters
<1>2. Wraps(n) \in Nat /\ Earlier + n = SeqNos * Wraps(n) + SeqNo(n)
  BY <1>1, Parameters, Quotient DEF SeqNo, Wraps
<1>3. Frame(n) = Windows * Wraps(n) + WindowOf(SeqNo(n))
  <2>1. (Earlier + n) \div WindowSize
          = (Windows * ((Earlier + n) \div (Windows * WindowSize)))
            + (((Earlier + n) % (Windows * WindowSize)) \div WindowSize)
    BY <1>1, Parameters, NestedQuotient
  <2>2. QED
    BY <2>1, Parameters DEF Frame, WindowOf, SeqNo, Wraps
<1>4. QED
  BY <1>2, <1>3

\* Between two packets less than SeqNos apart the numbers wrap once or not at all.
LEMMA OneWrap ==
    ASSUME NEW m \in Nat, NEW n \in Nat, m < n, n < m + SeqNos
    PROVE  \/ /\ SeqNo(m) < SeqNo(n)
              /\ Frame(n) - Frame(m) = WindowOf(SeqNo(n)) - WindowOf(SeqNo(m))
           \/ /\ SeqNo(n) < SeqNo(m)
              /\ Frame(n) - Frame(m) = WindowOf(SeqNo(n)) + Windows - WindowOf(SeqNo(m))
<1> PICK p \in Nat, q \in Nat : p = Wraps(m) /\ q = Wraps(n)
  BY Wrapped
<1> PICK s \in 0 .. SeqNos - 1, t \in 0 .. SeqNos - 1 : s = SeqNo(m) /\ t = SeqNo(n)
  BY Frames
<1>1. Earlier + m = SeqNos * p + s /\ Earlier + n = SeqNos * q + t
  BY Wrapped
<1>2. Frame(m) = Windows * p + WindowOf(s) /\ Frame(n) = Windows * q + WindowOf(t)
  BY Wrapped
<1>3. WindowOf(s) \in Nat /\ WindowOf(t) \in Nat
  BY Frames, Parameters
<1>4. ~(q < p)
  <2> SUFFICES ASSUME q < p PROVE FALSE
    OBVIOUS
  <2>1. SeqNos * q + SeqNos <= SeqNos * p
    BY Parameters, Multiple
  <2>2. QED
    BY <1>1, <2>1, Parameters
<1>5. ~(p + 1 < q)
  <2> SUFFICES ASSUME p + 1 < q PROVE FALSE
    OBVIOUS
  <2>1. SeqNos * (p + 1) + SeqNos <= SeqNos * q
    BY Parameters, Multiple
  <2>2. SeqNos * (p + 1) = SeqNos * p + SeqNos
    BY Parameters
  <2>3. QED
    BY <1>1, <2>1, <2>2, Parameters
<1>6. CASE q = p
  BY <1>1, <1>2, <1>3, <1>6, Parameters
<1>7. CASE q = p + 1
  <2>1. SeqNos * q = SeqNos * p + SeqNos /\ Windows * q = Windows * p + Windows
    BY <1>7, Parameters
  <2>2. t < s
    BY <1>1, <2>1, Parameters
  <2>3. QED
    BY <1>2, <1>3, <2>1, <2>2, Parameters
<1>8. QED
  BY <1>4, <1>5, <1>6, <1>7

LEMMA SameNumber ==
    ASSUME NEW m \in Nat, NEW n \in Nat, m < n + SeqNos, n < m + SeqNos, SeqNo(m) = SeqNo(n)
    PROVE  m = n
<1>1. SeqNo(m) \in Nat
  BY Frames
<1>2. ~(m < n) /\ ~(n < m)
  BY <1>1, OneWrap
<1>3. QED
  BY <1>2

\* What Ahead says of packet n when the last packet received is r.
LEMMA AheadOfReceiver ==
    ASSUME NEW n \in Nat, NEW r \in Nat
    PROVE  /\ r < n /\ n < r + SeqNos => Ahead(SeqNo(n), SeqNo(r)) = Frame(n) - Frame(r)
           /\ n < r /\ r < n + SeqNos => Ahead(SeqNo(n), SeqNo(r)) = Frame(n) - Frame(r) + Windows
<1>1. SeqNo(n) \in Nat /\ SeqNo(r) \in Nat /\ Windows \in Nat
  BY Frames, Parameters
<1>2. WindowOf(SeqNo(n)) \in Nat /\ WindowOf(SeqNo(r)) \in Nat /\ Frame(n) \in Nat /\ Frame(r) \in Nat
  BY Frames
<1>3. CASE r < n /\ n < r + SeqNos
  BY <1>1, <1>2, <1>3, OneWrap DEF Ahead
<1>4. CASE n < r /\ r < n + SeqNos
  BY <1>1, <1>2, <1>4, OneWrap DEF Ahead
<1>5. QED
  BY <1>3, <1>4

\* The first packet of a frame is one whose window enet tests.
LEMMA FirstOfFrame ==
    ASSUME NEW f \in Nat, NEW n \in Nat, Earlier + n = WindowSize * f
    PROVE  Frame(n) = f /\ SeqNo(n) % WindowSize = 0
<1>1. Earlier + n \in Nat /\ Earlier + n = WindowSize * f + 0 /\ 0 \in 0 .. WindowSize - 1
  BY Parameters
<1>2. (Earlier + n) \div WindowSize = f /\ (Earlier + n) % WindowSize = 0
  BY <1>1, Parameters, QuotientUnique
<1>3. SeqNo(n) % WindowSize = (Earlier + n) % WindowSize
  <2>1. ((Earlier + n) % (Windows * WindowSize)) % WindowSize = (Earlier + n) % WindowSize
    <3>1. WindowSize \in Nat \ {0} /\ Windows \in Nat \ {0}
      BY Parameters
    <3>2. PICK x \in Nat : x = Earlier + n
      BY <1>1
    <3>3. (x % (Windows * WindowSize)) % WindowSize = x % WindowSize
      BY <3>1, NestedQuotient
    <3>4. QED
      BY <3>2, <3>3
  <2>2. QED
    BY <2>1, Parameters DEF SeqNo
<1>4. QED
  BY <1>2, <1>3 DEF Frame

(***************************************************************************)
(* The inductive invariant.                                                *)
(*                                                                         *)
(* The sender tests its windows before the first packet of a frame goes    *)
(* out, so no packet that was sent is FreeWindows - 1 frames ahead of one  *)
(* without an ack (WindowSpan); a packet the receiver lacks has no ack, so *)
(* neither is one so far ahead of the receiver (NearlyReceived).  With the *)
(* lifetime of datagrams this keeps every number that is compared within   *)
(* half of SeqNos of the one it is compared to.                            *)
(***************************************************************************)
\* Where the packets are at the sender.
Queues ==
    /\ NoDuplicates(sent) /\ NoDuplicates(outgoing)
    /\ Among(sent) \cap Among(outgoing) = {}
    /\ Among(sent) \subseteq attempted
    /\ Among(outgoing) \subseteq 1 .. sentCount
    /\ ~open => sent = <<>> /\ outgoing = <<>>

\* Packets are sent for the first time in the order of their numbers.
Attempts ==
    /\ attempted \subseteq 1 .. sentCount
    /\ \A n \in attempted, m \in 1 .. sentCount : m < n => m \in attempted
    /\ open => (1 .. sentCount) \ attempted \subseteq Among(outgoing)
    /\ \A i, j \in 1 .. Len(outgoing) :
          i < j /\ outgoing[i] \notin attempted =>
              outgoing[j] \notin attempted /\ outgoing[i] < outgoing[j]

WindowSpan ==
    \A m \in Unacknowledged, n \in attempted : Frame(n) <= Frame(m) + FreeWindows - 2

ReceivedInOrder ==
    /\ received = [n \in 1 .. Len(received) |-> n]
    /\ incoming = SeqNo(Len(received))
    /\ \A n \in 1 .. Len(received) : n \in attempted
    /\ waiting \subseteq attempted
    /\ \A n \in waiting : n > Len(received) + 1

NearlyReceived ==
    \A n \in attempted : n > Len(received) => Frame(n) <= Frame(Len(received) + 1) + FreeWindows - 2

Datagrams ==
    /\ data \subseteq attempted /\ acks \subseteq attempted
    /\ \A d \in data \cup acks, n \in attempted : n < d + Lifetime
    /\ \A n \in acks : n \in waiting \/ n <= Len(received)

\* Type correctness but for the bounds of the counts, which WindowsAgree gives.
PlainTypes ==
    /\ sentCount \in 0 .. MaxPackets
    /\ outgoing \in Seq(Packets) /\ sent \in Seq(Packets)
    /\ received \in Seq(Packets)
    /\ reliableWindows \in [0 .. Windows - 1 -> Nat]
    /\ open \in BOOLEAN
    /\ ~open => reliableWindows = NoCounts

ReliableInv ==
    /\ PlainTypes
    /\ Queues
    /\ Attempts
    /\ WindowSpan
    /\ WindowsAgree
    /\ ReceivedInOrder
    /\ NearlyReceived
    /\ Datagrams
    /\ ForgottenIsReceived

(***************************************************************************)
(* Distances.                                                              *)
(***************************************************************************)
LEMMA FrameMonotone ==
    ASSUME NEW m \in Nat, NEW n \in Nat, m <= n
    PROVE  Frame(m) <= Frame(n)
<1>1. Earlier + m \in Nat /\ Earlier + n \in Nat /\ Earlier + m <= Earlier + n
  BY Parameters
<1>2. QED
  BY <1>1, Parameters, QuotientMonotone DEF Frame

LEMMA NextFrame == ASSUME NEW n \in Nat PROVE Frame(n + 1) <= Frame(n) + 1
<1> PICK x \in Nat : x = Earlier + n
  BY Parameters
<1>1. x + 1 \in Nat /\ x + 1 <= x + 1 * WindowSize /\ WindowSize \in Nat \ {0}
  BY Parameters
<1>2. (x + 1) \div WindowSize <= (x \div WindowSize) + 1
  BY <1>1, QuotientDistance
<1>3. Earlier + (n + 1) = x + 1
  BY Parameters
<1>4. QED
  BY <1>2, <1>3 DEF Frame

\* Fewer than FreeWindows frames apart is less than half of the numbers apart, and half
\* of the numbers apart is at most FreeWindows frames.
LEMMA FrameDistance ==
    ASSUME NEW m \in Nat, NEW n \in Nat
    PROVE  /\ Frame(n) <= Frame(m) + FreeWindows - 1 => n < m + FreeWindows * WindowSize
           /\ n <= m + FreeWindows * WindowSize => Frame(n) <= Frame(m) + FreeWindows
<1> PICK x \in Nat, y \in Nat : x = Earlier + m /\ y = Earlier + n
  BY Parameters
<1> PICK f \in Nat : f = FreeWindows /\ f >= 3
  BY Parameters
<1>1. WindowSize \in Nat \ {0} /\ Earlier \in Nat
  BY Parameters
<1>2. y <= x + f * WindowSize => y \div WindowSize <= (x \div WindowSize) + f
  BY <1>1, QuotientDistance
<1>3. y \div WindowSize <= (x \div WindowSize) + (f - 1) => y < x + ((f - 1) + 1) * WindowSize
  <2> PICK e \in Nat : e = f - 1
    OBVIOUS
  <2>1. y \div WindowSize <= (x \div WindowSize) + e => y < x + (e + 1) * WindowSize
    BY <1>1, QuotientDistance
  <2>2. QED
    BY <2>1
<1>4. (f - 1) + 1 = f /\ x \div WindowSize \in Nat /\ y \div WindowSize \in Nat
      /\ f * WindowSize \in Nat
  BY <1>1, Quotient
<1>5. Frame(m) = x \div WindowSize /\ Frame(n) = y \div WindowSize
  BY DEF Frame
<1>6. ASSUME Frame(n) <= Frame(m) + f - 1 PROVE n < m + f * WindowSize
  <2>1. y \div WindowSize <= (x \div WindowSize) + (f - 1)
    BY <1>4, <1>5, <1>6
  <2>2. y < x + f * WindowSize
    BY <1>3, <1>4, <2>1
  <2>3. QED
    BY <1>1, <1>4, <2>2
<1>7. ASSUME n <= m + f * WindowSize PROVE Frame(n) <= Frame(m) + f
  <2>1. y <= x + f * WindowSize
    BY <1>1, <1>4, <1>7
  <2>2. QED
    BY <1>2, <1>5, <2>1
<1>8. QED
  BY <1>6, <1>7

(***************************************************************************)
(* Counting the packets of a window.                                       *)
(***************************************************************************)
InWindow(S, w) == {n \in S : WindowOf(SeqNo(n)) = w}

LEMMA FinitePackets == ASSUME NEW S \in SUBSET Packets, NEW w PROVE IsFiniteSet(InWindow(S, w))
<1>1. IsFiniteSet(1 .. MaxPackets)
  BY FS_Interval, Parameters
<1>2. InWindow(S, w) \subseteq 1 .. MaxPackets
  BY DEF InWindow, Packets
<1>3. QED
  BY <1>1, <1>2, FS_Subset

LEMMA CountUnion ==
    ASSUME NEW S \in SUBSET Packets, NEW T \in SUBSET Packets, S \cap T = {}, NEW w
    PROVE  /\ Cardinality(InWindow(S \cup T, w))
                = Cardinality(InWindow(S, w)) + Cardinality(InWindow(T, w))
           /\ Cardinality(InWindow(S, w)) \in Nat /\ Cardinality(InWindow(T, w)) \in Nat
<1>1. IsFiniteSet(InWindow(S, w)) /\ IsFiniteSet(InWindow(T, w))
  BY FinitePackets
<1>2. InWindow(S \cup T, w) = InWindow(S, w) \cup InWindow(T, w)
  BY DEF InWindow
<1>3. InWindow(S, w) \cap InWindow(T, w) = {}
  BY DEF InWindow
<1>4. ASSUME NEW A, NEW B, IsFiniteSet(A), IsFiniteSet(B), A \cap B = {}
      PROVE  /\ Cardinality(A \cup B) = Cardinality(A) + Cardinality(B)
             /\ Cardinality(A) \in Nat /\ Cardinality(B) \in Nat
  <2>1. Cardinality(A) \in Nat /\ Cardinality(B) \in Nat
    BY <1>4, FS_CardinalityType
  <2>2. Cardinality(A \cup B) = Cardinality(A) + Cardinality(B) - Cardinality(A \cap B)
    BY <1>4, FS_Union
  <2>3. Cardinality(A \cap B) = 0
    BY <1>4, FS_EmptySet
  <2>4. QED
    BY <2>1, <2>2, <2>3
<1>5. QED
  BY <1>1, <1>2, <1>3, <1>4

LEMMA CountWithout ==
    ASSUME NEW S \in SUBSET Packets, NEW n \in S, NEW w
    PROVE  /\ Cardinality(InWindow(S, w)) \in Nat
           /\ w = WindowOf(SeqNo(n)) =>
                 /\ Cardinality(InWindow(S, w)) > 0
                 /\ Cardinality(InWindow(S \ {n}, w)) = Cardinality(InWindow(S, w)) - 1
           /\ w # WindowOf(SeqNo(n)) => InWindow(S \ {n}, w) = InWindow(S, w)
<1>1. IsFiniteSet(InWindow(S, w))
  BY FinitePackets
<1>2. CASE w = WindowOf(SeqNo(n))
  <2>1. n \in InWindow(S, w) /\ InWindow(S \ {n}, w) = InWindow(S, w) \ {n}
    BY <1>2 DEF InWindow
  <2>2. Cardinality(InWindow(S \ {n}, w)) = Cardinality(InWindow(S, w)) - 1
    BY <1>1, <2>1, FS_RemoveElement
  <2>3. Cardinality(InWindow(S, w)) \in Nat /\ Cardinality(InWindow(S, w)) # 0
    BY <1>1, <2>1, FS_CardinalityType, FS_EmptySet
  <2>4. QED
    BY <1>2, <2>2, <2>3
<1>3. CASE w # WindowOf(SeqNo(n))
  BY <1>1, <1>3, FS_CardinalityType DEF InWindow
<1>4. QED
  BY <1>2, <1>3

(***************************************************************************)
(* The invariant holds initially, and each action preserves it.            *)
(***************************************************************************)
LEMMA InitReliable == ReliableInit => ReliableInv
<1> SUFFICES ASSUME ReliableInit PROVE ReliableInv
  OBVIOUS
<1> USE DEF ReliableInit
<1>1. Among(<<>>) = {} /\ NoDuplicates(<<>>)
  BY AmongEmpty
<1>2. Unacknowledged = {}
  BY <1>1 DEF Unacknowledged
<1>3. PlainTypes
  BY Parameters DEF PlainTypes, NoCounts
<1>4. Queues /\ Attempts /\ Datagrams /\ ForgottenIsReceived
  BY <1>1 DEF Queues, Attempts, Datagrams, ForgottenIsReceived
<1>5. WindowSpan /\ NearlyReceived
  BY <1>2 DEF WindowSpan, NearlyReceived
<1>6. WindowsAgree
  <2>1. ASSUME NEW w PROVE Cardinality({n \in Unacknowledged : WindowOf(SeqNo(n)) = w}) = 0
    <3>1. {n \in Unacknowledged : WindowOf(SeqNo(n)) = w} = {}
      BY <1>2
    <3>2. QED
      BY <3>1, FS_EmptySet
  <2>2. QED
    BY <2>1 DEF WindowsAgree, NoCounts
<1>7. ReceivedInOrder
  <2>1. SeqNo(0) = Earlier
    <3>1. Earlier = SeqNos * 0 + Earlier /\ Earlier \in 0 .. SeqNos - 1
      BY Parameters
    <3>2. Earlier % SeqNos = Earlier
      BY <3>1, Parameters, QuotientUnique
    <3>3. QED
      BY <3>2, Parameters DEF SeqNo
  <2>2. Len(<<>>) = 0 /\ <<>> = [n \in 1 .. Len(<<>>) |-> n]
    OBVIOUS
  <2>3. QED
    BY <2>1, <2>2 DEF ReceivedInOrder
<1>8. QED
  BY <1>3, <1>4, <1>5, <1>6, <1>7 DEF ReliableInv

LEMMA SendKeeps == ReliableInv /\ Send => ReliableInv'
<1> SUFFICES ASSUME ReliableInv, Send PROVE ReliableInv'
  OBVIOUS
<1> USE DEF ReliableInv
<1>1. /\ open /\ open' = open /\ sentCount < MaxPackets /\ sentCount' = sentCount + 1
      /\ outgoing' = Append(outgoing, sentCount + 1)
      /\ attempted' = attempted /\ sent' = sent /\ reliableWindows' = reliableWindows
      /\ received' = received /\ waiting' = waiting /\ incoming' = incoming
      /\ data' = data /\ acks' = acks
  BY DEF Send, receiverVars
<1>2. sentCount \in Nat /\ MaxPackets \in Nat /\ sentCount + 1 \in Packets
  BY <1>1, Parameters DEF PlainTypes, Packets
<1>3. outgoing \in Seq(Packets)
  BY DEF PlainTypes
<1>4. /\ outgoing' \in Seq(Packets)
      /\ Among(outgoing') = Among(outgoing) \cup {sentCount + 1}
      /\ NoDuplicates(outgoing) /\ sentCount + 1 \notin Among(outgoing) => NoDuplicates(outgoing')
  BY <1>1, <1>2, <1>3, AmongAppend
<1>5. /\ Len(outgoing') = Len(outgoing) + 1 /\ Len(outgoing) \in Nat
      /\ \A k \in 1 .. Len(outgoing) : outgoing'[k] = outgoing[k]
      /\ outgoing'[Len(outgoing) + 1] = sentCount + 1
  BY <1>1, <1>2, <1>3
<1>6. sentCount + 1 \notin attempted /\ sentCount + 1 \notin Among(outgoing)
  BY <1>2 DEF Attempts, Queues
<1>7. Unacknowledged' = Unacknowledged
  BY <1>1, <1>4, <1>6 DEF Unacknowledged, Among
<1>8. PlainTypes'
  BY <1>1, <1>2, <1>4 DEF PlainTypes
<1>9. Queues'
  <2>1. sentCount + 1 \notin Among(sent)
    BY <1>6 DEF Queues
  <2>2. NoDuplicates(outgoing')
    BY <1>4, <1>6 DEF Queues
  <2>3. Among(outgoing)' = Among(outgoing') /\ Among(sent)' = Among(sent)
        /\ NoDuplicates(outgoing)' = NoDuplicates(outgoing') /\ NoDuplicates(sent)' = NoDuplicates(sent)
    BY <1>1 DEF Among, NoDuplicates
  <2>4. Among(outgoing') \subseteq 1 .. sentCount'
    BY <1>1, <1>2, <1>4 DEF Queues
  <2>5. QED
    BY <1>1, <1>4, <2>1, <2>2, <2>3, <2>4 DEF Queues
<1>10. Attempts'
  <2>1. attempted' \subseteq 1 .. sentCount'
    BY <1>1, <1>2 DEF Attempts
  <2>2. \A n \in attempted', m \in 1 .. sentCount' : m < n => m \in attempted'
    BY <1>1, <1>2 DEF Attempts
  <2>3. (1 .. sentCount') \ attempted' \subseteq Among(outgoing')
    BY <1>1, <1>2, <1>4 DEF Attempts
  <2>4. \A i \in 1 .. Len(outgoing) : outgoing[i] \in 1 .. sentCount
    BY <1>3 DEF Queues, Among
  <2>5. ASSUME NEW i \in 1 .. Len(outgoing'), NEW j \in 1 .. Len(outgoing'), i < j,
               outgoing'[i] \notin attempted'
        PROVE  outgoing'[j] \notin attempted' /\ outgoing'[i] < outgoing'[j]
    <3>1. i \in 1 .. Len(outgoing) /\ outgoing'[i] = outgoing[i]
      BY <1>5, <2>5
    <3>2. CASE j \in 1 .. Len(outgoing)
      BY <1>1, <1>5, <2>5, <3>1, <3>2 DEF Attempts
    <3>3. CASE j = Len(outgoing) + 1
      BY <1>1, <1>2, <1>5, <1>6, <2>4, <3>1, <3>3
    <3>4. QED
      BY <1>5, <3>2, <3>3
  <2>6. QED
    BY <1>1, <2>1, <2>2, <2>3, <2>5 DEF Attempts, Among
<1>11. WindowSpan' /\ WindowsAgree'
  BY <1>1, <1>7 DEF WindowSpan, WindowsAgree
<1>12. ReceivedInOrder' /\ NearlyReceived' /\ Datagrams'
  BY <1>1 DEF ReceivedInOrder, NearlyReceived, Datagrams
<1>13. ForgottenIsReceived'
  <2>1. ASSUME NEW n \in 1 .. sentCount'
        PROVE  n \in Among(outgoing') \cup Among(sent) \cup Among(received) \cup waiting
    BY <1>1, <1>2, <1>4 DEF ForgottenIsReceived
  <2>2. QED
    BY <1>1, <2>1 DEF ForgottenIsReceived, Among
<1>14. QED
  BY <1>8, <1>9, <1>10, <1>11, <1>12, <1>13

LEMMA GiveUpKeeps == ReliableInv /\ GiveUp => ReliableInv'
<1> SUFFICES ASSUME ReliableInv, GiveUp PROVE ReliableInv'
  OBVIOUS
<1> USE DEF ReliableInv
<1>1. /\ open' = FALSE /\ outgoing' = <<>> /\ sent' = <<>> /\ reliableWindows' = NoCounts
      /\ sentCount' = sentCount /\ attempted' = attempted
      /\ received' = received /\ waiting' = waiting /\ incoming' = incoming
      /\ data' = data /\ acks' = acks
  BY DEF GiveUp, receiverVars
<1>2. Among(<<>>) = {} /\ NoDuplicates(<<>>)
  BY AmongEmpty
<1>3. Unacknowledged' = {}
  BY <1>1, <1>2 DEF Unacknowledged, Among
<1>4. PlainTypes'
  <2>1. NoCounts \in [0 .. Windows - 1 -> Nat] /\ <<>> \in Seq(Packets)
    BY DEF NoCounts
  <2>2. QED
    BY <1>1, <2>1 DEF PlainTypes
<1>5. Queues'
  BY <1>1, <1>2 DEF Queues, Among, NoDuplicates
<1>6. Attempts'
  BY <1>1 DEF Attempts
<1>7. WindowSpan' /\ WindowsAgree' /\ ForgottenIsReceived'
  BY <1>1, <1>3 DEF WindowSpan, WindowsAgree, ForgottenIsReceived
<1>8. ReceivedInOrder' /\ NearlyReceived' /\ Datagrams'
  BY <1>1 DEF ReceivedInOrder, NearlyReceived, Datagrams
<1>9. QED
  BY <1>4, <1>5, <1>6, <1>7, <1>8

LEMMA LossKeeps ==
    ReliableInv /\ (\E n \in Packets : LoseData(n) \/ LoseAck(n)) => ReliableInv'
<1> SUFFICES ASSUME ReliableInv, NEW n \in Packets, LoseData(n) \/ LoseAck(n) PROVE ReliableInv'
  OBVIOUS
<1> USE DEF ReliableInv
<1>1. /\ open' = open /\ outgoing' = outgoing /\ sent' = sent /\ reliableWindows' = reliableWindows
      /\ sentCount' = sentCount /\ attempted' = attempted
      /\ received' = received /\ waiting' = waiting /\ incoming' = incoming
      /\ data' \subseteq data /\ acks' \subseteq acks
  BY DEF LoseData, LoseAck, receiverVars, senderVars
<1>2. Unacknowledged' = Unacknowledged
  BY <1>1 DEF Unacknowledged, Among
<1>3. PlainTypes' /\ Queues' /\ Attempts'
  <2>1. PlainTypes'
    BY <1>1 DEF PlainTypes
  <2>2. Queues'
    BY <1>1 DEF Queues, Among, NoDuplicates
  <2>3. Attempts'
    BY <1>1 DEF Attempts, Among
  <2>4. QED
    BY <2>1, <2>2, <2>3
<1>4. WindowSpan' /\ WindowsAgree'
  BY <1>1, <1>2 DEF WindowSpan, WindowsAgree
<1>5. ForgottenIsReceived'
  BY <1>1 DEF ForgottenIsReceived, Among
<1>6. ReceivedInOrder' /\ NearlyReceived'
  BY <1>1 DEF ReceivedInOrder, NearlyReceived
<1>7. Datagrams'
  BY <1>1 DEF Datagrams
<1>8. QED
  BY <1>3, <1>4, <1>5, <1>6, <1>7

(***************************************************************************)
(* An acknowledgement.                                                     *)
(***************************************************************************)
LEMMA AcknowledgedFinds ==
    ASSUME NEW n, NEW list \in Seq(Packets), Acknowledged(n, list) # 0
    PROVE  /\ Acknowledged(n, list) \in 1 .. Len(list)
           /\ list[Acknowledged(n, list)] \in attempted
           /\ SeqNo(list[Acknowledged(n, list)]) = SeqNo(n)
<1> DEFINE I == {i \in 1 .. Len(list) : list[i] \in attempted /\ SeqNo(list[i]) = SeqNo(n)}
<1>1. Acknowledged(n, list) = IF I # {} THEN Min(I) ELSE 0
  BY DEF Acknowledged, SelectInSeq
<1>2. I # {} /\ Acknowledged(n, list) = Min(I)
  BY <1>1
<1>3. PICK i \in I : \A j \in I : i <= j
  <2>1. I \subseteq Nat
    OBVIOUS
  <2> HIDE DEF I
  <2>2. QED
    BY <1>2, <2>1, LeastOf
<1>4. Min(I) \in I
  <2>1. \E x \in I : \A y \in I : x =< y
    BY <1>3
  <2>2. QED
    BY <2>1 DEF Min
<1>5. QED
  BY <1>2, <1>4

\* What is acknowledged is the packet itself, and the receiver has it.
LEMMA AckIsOwn ==
    ASSUME ReliableInv, NEW n \in acks, NEW m \in Unacknowledged, SeqNo(m) = SeqNo(n)
    PROVE  m = n
<1> USE DEF ReliableInv
<1>1. m \in attempted /\ n \in attempted /\ m \in Nat /\ n \in Nat
  <2>1. attempted \subseteq Nat
    BY DEF PlainTypes, Attempts
  <2>2. m \in attempted /\ n \in attempted
    BY DEF Unacknowledged, Queues, Datagrams
  <2>3. QED
    BY <2>1, <2>2
<1>2. m < n + Lifetime
  BY <1>1 DEF Datagrams
<1>3. Frame(n) <= Frame(m) + FreeWindows - 2
  BY <1>1 DEF WindowSpan
<1>4. n < m + FreeWindows * WindowSize
  BY <1>1, <1>3, FrameDistance, Frames, Parameters
<1>5. QED
  BY <1>1, <1>2, <1>4, Parameters, SameNumber

LEMMA ReceiveAckKeeps ==
    ASSUME NEW n \in Packets, ReliableInv, ReceiveAck(n)
    PROVE  ReliableInv'
<1> USE DEF ReliableInv
<1>1. /\ open /\ open' = open /\ n \in acks
      /\ sentCount' = sentCount /\ attempted' = attempted
      /\ received' = received /\ waiting' = waiting /\ incoming' = incoming
      /\ data' = data /\ acks' = acks
      /\ reliableWindows' = CountedOut(WindowOf(SeqNo(n)))
  BY DEF ReceiveAck, receiverVars
<1>2. outgoing \in Seq(Packets) /\ sent \in Seq(Packets)
  BY DEF PlainTypes
<1>3. Unacknowledged \subseteq Packets /\ Unacknowledged \subseteq attempted
  BY <1>2 DEF Unacknowledged, Queues, Among
<1>4. /\ n \in Unacknowledged
      /\ Unacknowledged' = Unacknowledged \ {n}
      /\ sent' \in Seq(Packets) /\ outgoing' \in Seq(Packets)
      /\ Among(sent') \cup Among(outgoing') = (Among(sent) \cup Among(outgoing)) \ {n}
      /\ Among(sent') \subseteq Among(sent) /\ Among(outgoing') \subseteq Among(outgoing)
      /\ NoDuplicates(sent') /\ NoDuplicates(outgoing')
      /\ \A i, j \in 1 .. Len(outgoing') : i < j =>
            \E k, l \in 1 .. Len(outgoing) :
                k < l /\ outgoing'[i] = outgoing[k] /\ outgoing'[j] = outgoing[l]
  <2>1. CASE Acknowledged(n, sent) > 0
    <3> PICK i : i = Acknowledged(n, sent)
      OBVIOUS
    <3>1. i \in 1 .. Len(sent) /\ sent[i] \in attempted /\ SeqNo(sent[i]) = SeqNo(n)
      BY <1>2, <2>1, AcknowledgedFinds
    <3>2. sent' = RemoveAt(sent, i) /\ outgoing' = outgoing
      BY <2>1 DEF ReceiveAck
    <3>3. sent[i] \in Among(sent) /\ sent[i] \in Unacknowledged
      BY <3>1 DEF Unacknowledged, Among
    <3>4. sent[i] = n
      BY <1>1, <3>1, <3>3, AckIsOwn
    <3>5. /\ sent' \in Seq(Packets) /\ Among(sent') = Among(sent) \ {n} /\ NoDuplicates(sent')
      <4>1. NoDuplicates(sent)
        BY DEF Queues
      <4>2. /\ RemoveAt(sent, i) \in Seq(Packets) /\ NoDuplicates(RemoveAt(sent, i))
            /\ Among(RemoveAt(sent, i)) = Among(sent) \ {sent[i]}
        BY <1>2, <3>1, <4>1, RemoveAtProperties
      <4>3. QED
        BY <3>2, <3>4, <4>2
    <3>6. n \notin Among(outgoing)
      BY <3>3, <3>4 DEF Queues
    <3>7. Unacknowledged' = Unacknowledged \ {n}
      <4>1. Unacknowledged' = Among(sent') \cup (Among(outgoing') \cap attempted')
        BY DEF Unacknowledged, Among
      <4>2. QED
        BY <1>1, <3>2, <3>5, <3>6, <4>1 DEF Unacknowledged
    <3>8. QED
      BY <1>2, <3>2, <3>3, <3>4, <3>5, <3>6, <3>7 DEF Queues
  <2>2. CASE ~(Acknowledged(n, sent) > 0)
    <3> PICK i : i = Acknowledged(n, outgoing)
      OBVIOUS
    <3>1. /\ i \in 1 .. Len(outgoing) /\ outgoing[i] \in attempted
          /\ SeqNo(outgoing[i]) = SeqNo(n)
      BY <1>2, <2>2, AcknowledgedFinds DEF ReceiveAck
    <3>2. outgoing' = RemoveAt(outgoing, i) /\ sent' = sent
      BY <2>2 DEF ReceiveAck
    <3>3. outgoing[i] \in Among(outgoing) /\ outgoing[i] \in Unacknowledged
      BY <3>1 DEF Unacknowledged, Among
    <3>4. outgoing[i] = n
      BY <1>1, <3>1, <3>3, AckIsOwn
    <3>5. /\ outgoing' \in Seq(Packets) /\ Among(outgoing') = Among(outgoing) \ {n}
          /\ NoDuplicates(outgoing')
      <4>1. NoDuplicates(outgoing)
        BY DEF Queues
      <4>2. /\ RemoveAt(outgoing, i) \in Seq(Packets) /\ NoDuplicates(RemoveAt(outgoing, i))
            /\ Among(RemoveAt(outgoing, i)) = Among(outgoing) \ {outgoing[i]}
        BY <1>2, <3>1, <4>1, RemoveAtProperties
      <4>3. QED
        BY <3>2, <3>4, <4>2
    <3>6. n \notin Among(sent)
      BY <3>3, <3>4 DEF Queues
    <3>7. Unacknowledged' = Unacknowledged \ {n}
      <4>1. Unacknowledged' = Among(sent') \cup (Among(outgoing') \cap attempted')
        BY DEF Unacknowledged, Among
      <4>2. QED
        BY <1>1, <3>2, <3>5, <3>6, <4>1 DEF Unacknowledged
    <3>8. ASSUME NEW j \in 1 .. Len(outgoing'), NEW k \in 1 .. Len(outgoing'), j < k
          PROVE  \E p, q \in 1 .. Len(outgoing) :
                    p < q /\ outgoing'[j] = outgoing[p] /\ outgoing'[k] = outgoing[q]
      <4>1. Len(outgoing') = Len(outgoing) - 1 /\ Len(outgoing) \in Nat
        <5>1. Len(RemoveAt(outgoing, i)) = Len(outgoing) - 1
          BY <1>2, <3>1, RemoveAtProperties
        <5>2. QED
          BY <1>2, <3>2, <5>1
      <4>2. \A h \in 1 .. Len(outgoing) - 1 : outgoing'[h] = outgoing[IF h < i THEN h ELSE h + 1]
        BY <1>2, <3>1, <3>2, RemoveAtProperties
      <4>3. PICK p, q \in 1 .. Len(outgoing) :
                /\ p = (IF j < i THEN j ELSE j + 1)
                /\ q = (IF k < i THEN k ELSE k + 1)
        BY <3>1, <4>1
      <4>4. p < q
        BY <3>1, <3>8, <4>1, <4>3
      <4>5. QED
        BY <3>8, <4>1, <4>2, <4>3, <4>4
    <3>9. QED
      BY <1>2, <3>2, <3>3, <3>4, <3>5, <3>6, <3>7, <3>8 DEF Queues
  <2>3. QED
    BY <2>1, <2>2
<1>5. WindowsAgree'
  <2>1. \A w \in 0 .. Windows - 1 : reliableWindows[w] = Cardinality(InWindow(Unacknowledged, w))
    BY <1>1 DEF WindowsAgree, InWindow
  <2>2. ASSUME NEW w \in 0 .. Windows - 1
        PROVE  reliableWindows'[w] = Cardinality(InWindow(Unacknowledged', w))
    <3>1. /\ Cardinality(InWindow(Unacknowledged, w)) \in Nat
          /\ w = WindowOf(SeqNo(n)) =>
                /\ Cardinality(InWindow(Unacknowledged, w)) > 0
                /\ Cardinality(InWindow(Unacknowledged \ {n}, w))
                      = Cardinality(InWindow(Unacknowledged, w)) - 1
          /\ w # WindowOf(SeqNo(n)) => InWindow(Unacknowledged \ {n}, w) = InWindow(Unacknowledged, w)
      BY <1>3, <1>4, CountWithout
    <3>2. reliableWindows \in [0 .. Windows - 1 -> Nat]
      BY DEF PlainTypes
    <3>3. CASE w = WindowOf(SeqNo(n))
      <4>1. reliableWindows[w] > 0 /\ reliableWindows'[w] = reliableWindows[w] - 1
        BY <1>1, <2>1, <3>1, <3>2, <3>3 DEF CountedOut
      <4>2. QED
        BY <1>4, <2>1, <3>1, <3>3, <4>1
    <3>4. CASE w # WindowOf(SeqNo(n))
      <4>1. reliableWindows'[w] = reliableWindows[w]
        BY <1>1, <3>2, <3>4 DEF CountedOut
      <4>2. QED
        BY <1>4, <2>1, <3>1, <3>4, <4>1
    <3>5. QED
      BY <3>3, <3>4
  <2>3. QED
    BY <2>2 DEF WindowsAgree, InWindow
<1>6. PlainTypes'
  <2>1. reliableWindows' \in [0 .. Windows - 1 -> Nat]
    <3>1. reliableWindows \in [0 .. Windows - 1 -> Nat]
      BY DEF PlainTypes
    <3>2. ASSUME NEW c \in Nat PROVE (IF c > 0 THEN c - 1 ELSE c) \in Nat
      OBVIOUS
    <3>3. QED
      BY <1>1, <3>1, <3>2 DEF CountedOut
  <2>2. QED
    BY <1>1, <1>4, <2>1 DEF PlainTypes
<1>7. Queues'
  <2>1. Among(sent)' = Among(sent') /\ Among(outgoing)' = Among(outgoing')
        /\ NoDuplicates(sent)' = NoDuplicates(sent') /\ NoDuplicates(outgoing)' = NoDuplicates(outgoing')
    BY DEF Among, NoDuplicates
  <2>2. QED
    BY <1>1, <1>4, <2>1 DEF Queues
<1>8. Attempts'
  <2>1. n \in attempted
    BY <1>1 DEF Datagrams
  <2>2. (1 .. sentCount) \ attempted \subseteq Among(outgoing')
    <3>1. (1 .. sentCount) \ attempted \subseteq Among(outgoing)
      BY <1>1 DEF Attempts
    <3>2. ASSUME NEW m \in Among(outgoing), m \notin attempted PROVE m \in Among(outgoing')
      BY <1>4, <2>1, <3>2 DEF Queues
    <3>3. QED
      BY <3>1, <3>2
  <2>3. ASSUME NEW i \in 1 .. Len(outgoing'), NEW j \in 1 .. Len(outgoing'), i < j,
               outgoing'[i] \notin attempted
        PROVE  outgoing'[j] \notin attempted /\ outgoing'[i] < outgoing'[j]
    <3>1. PICK k \in 1 .. Len(outgoing), l \in 1 .. Len(outgoing) :
              k < l /\ outgoing'[i] = outgoing[k] /\ outgoing'[j] = outgoing[l]
      BY <1>4, <2>3
    <3>2. outgoing[l] \notin attempted /\ outgoing[k] < outgoing[l]
      BY <2>3, <3>1 DEF Attempts
    <3>3. QED
      BY <3>1, <3>2
  <2>4. QED
    BY <1>1, <2>2, <2>3 DEF Attempts, Among
<1>9. WindowSpan'
  BY <1>1, <1>4 DEF WindowSpan
<1>10. ReceivedInOrder' /\ NearlyReceived' /\ Datagrams'
  BY <1>1 DEF ReceivedInOrder, NearlyReceived, Datagrams
<1>11. ForgottenIsReceived'
  <2>1. n \in Among(received) \cup waiting
    BY <1>1 DEF Datagrams, ReceivedInOrder, Among, Packets
  <2>2. ASSUME NEW m \in 1 .. sentCount
        PROVE  m \in Among(outgoing') \cup Among(sent') \cup Among(received) \cup waiting
    BY <1>1, <1>4, <2>1 DEF ForgottenIsReceived
  <2>3. QED
    BY <1>1, <2>2 DEF ForgottenIsReceived, Among
<1>12. QED
  BY <1>5, <1>6, <1>7, <1>8, <1>9, <1>10, <1>11

(***************************************************************************)
(* A pass over the queue.                                                  *)
(***************************************************************************)
\* The packet that opens the frame FreeWindows - 1 ahead of packet m's, if n is as far ahead.
LEMMA OpensFrame ==
    ASSUME NEW m \in Nat, NEW n \in Nat, Frame(n) > Frame(m) + FreeWindows - 2
    PROVE  \E b \in Nat : /\ m < b /\ b <= n
                          /\ Frame(b) = Frame(m) + FreeWindows - 1
                          /\ SeqNo(b) % WindowSize = 0
<1> PICK d \in Nat \ {0} : d = WindowSize
  BY Parameters
<1> PICK x \in Nat, y \in Nat : x = Earlier + m /\ y = Earlier + n
  BY Parameters
<1> PICK p \in Nat, q \in Nat : p = x \div d /\ q = y \div d
  BY Quotient
<1> PICK f \in Nat : f = p + FreeWindows - 1
  BY Parameters
<1>1. Frame(m) = p /\ Frame(n) = q
  BY DEF Frame
<1>2. p < f /\ f <= q
  BY <1>1, Parameters
<1>3. x < d * p + d /\ d * q <= y
  <2>1. x % d \in 0 .. d - 1 /\ x = d * p + (x % d)
    BY Quotient
  <2>2. y % d \in 0 .. d - 1 /\ y = d * q + (y % d)
    BY Quotient
  <2>3. PICK u \in Int, v \in Int : u = d * p /\ v = d * q
    OBVIOUS
  <2>4. PICK r \in 0 .. d - 1, s \in 0 .. d - 1 : r = x % d /\ s = y % d
    BY <2>1, <2>2
  <2>5. x = u + r /\ y = v + s
    BY <2>1, <2>2, <2>3, <2>4
  <2>6. x < u + d /\ v <= y
    BY <2>4, <2>5
  <2>7. QED
    BY <2>3, <2>6
<1>4. d * p + d <= d * f
  BY <1>2, Multiple
<1>5. d * f <= d * q
  <2>1. CASE f < q
    <3>1. d * f + d <= d * q
      BY <2>1, Multiple
    <3>2. d * f \in Int /\ d * q \in Int
      OBVIOUS
    <3>3. QED
      BY <3>1, <3>2
  <2>2. CASE f = q
    BY <2>2
  <2>3. QED
    BY <1>2, <2>1, <2>2
<1>6. PICK e \in Int : e = d * f
  OBVIOUS
<1>7. x < e /\ e <= y
  <2>1. PICK u \in Int, v \in Int : u = d * p /\ v = d * q
    OBVIOUS
  <2>2. x < u + d /\ u + d <= e /\ e <= v /\ v <= y
    BY <1>3, <1>4, <1>5, <1>6, <2>1
  <2>3. QED
    BY <2>2
<1>8. PICK b \in Nat : b = e - Earlier
  BY <1>7, Parameters
<1>9. m < b /\ b <= n /\ Earlier + b = e
  BY <1>7, <1>8, Parameters
<1>10. Frame(b) = f /\ SeqNo(b) % WindowSize = 0
  <2>1. Earlier + b = WindowSize * f
    BY <1>6, <1>9
  <2>2. QED
    BY <2>1, FirstOfFrame
<1>11. QED
  BY <1>1, <1>9, <1>10

\* A packet FreeWindows - 1 frames back is in one of the windows that are tested: the last.
LEMMA WindowIsTested ==
    ASSUME NEW m \in Nat, NEW b \in Nat, Frame(b) = Frame(m) + FreeWindows - 1
    PROVE  (WindowOf(SeqNo(b)) + FreeWindows + 1) % Windows = WindowOf(SeqNo(m))
<1> PICK f \in Nat, g \in Nat : f = Frame(m) /\ g = Frame(b)
  BY Frames
<1> PICK c \in Nat \ {0} : c = Windows
  BY Parameters
<1> PICK h \in Nat : h = FreeWindows + 1
  BY Parameters
<1>1. WindowOf(SeqNo(b)) = g % c /\ WindowOf(SeqNo(m)) = f % c
  BY Frames
<1>2. ((g % c) + h) % c = (g + h) % c
  BY ReducedSum
<1>3. g + h = f + c
  BY Parameters
<1>4. (f + c) % c = f % c
  <2>1. f \div c \in Nat /\ f % c \in 0 .. c - 1 /\ f = (c * (f \div c)) + (f % c)
    BY Quotient
  <2>2. PICK q \in Nat, r \in 0 .. c - 1 : q = f \div c /\ r = f % c
    BY <2>1
  <2>3. f = c * q + r
    BY <2>1, <2>2
  <2>4. c * (q + 1) = c * q + c
    OBVIOUS
  <2>5. f + c = c * (q + 1) + r
    <3>1. c * q \in Int
      OBVIOUS
    <3>2. QED
      BY <2>3, <2>4, <3>1
  <2>6. f + c \in Nat /\ q + 1 \in Int
    OBVIOUS
  <2>7. (f + c) % c = r
    <3>1. PICK x \in Nat, p \in Int : x = f + c /\ p = q + 1
      BY <2>6
    <3>2. x = c * p + r
      BY <2>5, <3>1
    <3>3. x % c = r
      BY <3>2, QuotientUnique
    <3>4. QED
      BY <3>1, <3>3
  <2>8. QED
    BY <2>2, <2>7
<1>5. g % c \in Nat
  BY Quotient
<1>6. (g % c) + FreeWindows + 1 = (g % c) + h
  BY <1>5, Parameters
<1>7. QED
  BY <1>1, <1>2, <1>3, <1>4, <1>6

\* The lists of a pass: what is sent, what stays, and what each packet was before.
LEMMA PassLists ==
    ASSUME ReliableInv, NEW timedOut, NEW k \in Nat, SendPass(timedOut, k)
    PROVE  \E pass \in Seq(Packets) :
              /\ sent' \in Seq(Packets) /\ outgoing' \in Seq(Packets)
              /\ NoDuplicates(sent') /\ NoDuplicates(outgoing') /\ NoDuplicates(pass)
              /\ Among(pass) \subseteq Among(sent) \cup Among(outgoing)
              /\ Among(sent') \cap Among(outgoing') = {}
              /\ Among(sent') \cup Among(outgoing') = Among(sent) \cup Among(outgoing)
              /\ Among(pass) \subseteq Among(sent')
              /\ Among(sent') \ Among(pass) \subseteq Among(sent)
              /\ WindowsAllow(pass)
              /\ attempted' = attempted \cup Among(pass)
              /\ reliableWindows' = CountedWindows(pass)
              /\ data' = StillUnderWay(data \cup Among(pass), attempted')
              /\ acks' = StillUnderWay(acks, attempted')
              /\ \A i \in 1 .. Len(pass), j \in 1 .. Len(pass) :
                    i < j /\ pass[i] \notin attempted =>
                        pass[j] \notin attempted /\ pass[i] < pass[j]
              /\ \A i \in 1 .. Len(outgoing'), j \in 1 .. Len(outgoing') :
                    i < j /\ outgoing'[i] \notin attempted =>
                        outgoing'[j] \notin attempted /\ outgoing'[i] < outgoing'[j]
              /\ \A i \in 1 .. Len(pass), j \in 1 .. Len(outgoing') :
                    pass[i] \notin attempted =>
                        outgoing'[j] \notin attempted /\ pass[i] < outgoing'[j]
<1> USE DEF ReliableInv
<1>1. PICK back : back = Those(sent, timedOut)
  OBVIOUS
<1>2. PICK kept : kept = Those(sent, Among(sent) \ timedOut)
  OBVIOUS
<1>3. PICK queue : queue = back \o outgoing
  OBVIOUS
<1>4. PICK pass : pass = SubSeq(queue, 1, k)
  OBVIOUS
<1>5. /\ k <= Len(queue) /\ WindowsAllow(pass)
      /\ sent' = kept \o pass /\ outgoing' = SubSeq(queue, k + 1, Len(queue))
      /\ attempted' = attempted \cup Among(pass)
      /\ reliableWindows' = CountedWindows(pass)
      /\ data' = StillUnderWay(data \cup Among(pass), attempted')
      /\ acks' = StillUnderWay(acks, attempted')
  BY <1>1, <1>2, <1>3, <1>4 DEF SendPass
<1>6. outgoing \in Seq(Packets) /\ sent \in Seq(Packets)
  BY DEF PlainTypes
<1>7. /\ NoDuplicates(sent) /\ NoDuplicates(outgoing)
      /\ Among(sent) \cap Among(outgoing) = {} /\ Among(sent) \subseteq attempted
  BY DEF Queues
<1>8. /\ back \in Seq(Packets) /\ Among(back) = Among(sent) \cap timedOut /\ NoDuplicates(back)
  BY <1>1, <1>6, <1>7, ThoseProperties
<1>9. /\ kept \in Seq(Packets) /\ Among(kept) = Among(sent) \ timedOut /\ NoDuplicates(kept)
  <2>1. /\ kept \in Seq(Packets) /\ Among(kept) = Among(sent) \cap (Among(sent) \ timedOut)
        /\ NoDuplicates(kept)
    BY <1>2, <1>6, <1>7, ThoseProperties
  <2>2. QED
    BY <2>1
<1>10. /\ queue \in Seq(Packets) /\ NoDuplicates(queue)
       /\ Among(queue) = Among(back) \cup Among(outgoing)
  <2>1. Among(back) \cap Among(outgoing) = {}
    BY <1>7, <1>8
  <2>2. QED
    BY <1>3, <1>6, <1>7, <1>8, <2>1, AmongConcat
<1>11. Len(queue) \in Nat /\ k \in 0 .. Len(queue)
  BY <1>5, <1>10
<1>12. /\ pass \in Seq(Packets) /\ outgoing' \in Seq(Packets)
       /\ Len(pass) = k /\ Len(outgoing') = Len(queue) - k
       /\ \A i \in 1 .. k : pass[i] = queue[i]
       /\ \A i \in 1 .. Len(queue) - k : outgoing'[i] = queue[k + i]
       /\ Among(pass) \cup Among(outgoing') = Among(queue)
       /\ Among(pass) \cap Among(outgoing') = {}
       /\ NoDuplicates(pass) /\ NoDuplicates(outgoing')
  BY <1>4, <1>5, <1>10, <1>11, CutList
<1>13. Among(kept) \cap Among(queue) = {}
  BY <1>7, <1>8, <1>9, <1>10
<1>14. /\ sent' \in Seq(Packets) /\ Among(sent') = Among(kept) \cup Among(pass)
       /\ NoDuplicates(sent')
  <2>1. Among(kept) \cap Among(pass) = {}
    BY <1>12, <1>13
  <2>2. QED
    BY <1>5, <1>9, <1>12, <2>1, AmongConcat
<1>15. ASSUME NEW i \in 1 .. Len(queue), NEW j \in 1 .. Len(queue), i < j, queue[i] \notin attempted
       PROVE  queue[j] \notin attempted /\ queue[i] < queue[j]
  <2>1. PICK l \in Nat : l = Len(back)
    BY <1>8
  <2>2. /\ Len(queue) = l + Len(outgoing) /\ Len(outgoing) \in Nat
        /\ \A h \in 1 .. l : queue[h] = back[h]
        /\ \A h \in 1 .. Len(queue) : h > l => queue[h] = outgoing[h - l]
    BY <1>3, <1>6, <1>8, <2>1
  <2>3. \A h \in 1 .. l : queue[h] \in attempted
    BY <1>7, <1>8, <2>1, <2>2 DEF Among
  <2>4. i > l /\ j > l
    BY <1>11, <1>15, <2>3
  <2>5. PICK x \in 1 .. Len(outgoing), y \in 1 .. Len(outgoing) : x = i - l /\ y = j - l
    <3>1. Len(queue) = l + Len(outgoing) /\ Len(outgoing) \in Nat
      BY <2>2
    <3>2. i - l \in 1 .. Len(outgoing) /\ j - l \in 1 .. Len(outgoing)
      BY <2>4, <3>1
    <3>3. QED
      BY <3>2
  <2>6. x < y /\ queue[i] = outgoing[x] /\ queue[j] = outgoing[y]
    BY <1>15, <2>2, <2>4, <2>5
  <2>7. QED
    BY <1>15, <2>6 DEF Attempts
<1>16. \A i \in 1 .. Len(pass), j \in 1 .. Len(pass) :
          i < j /\ pass[i] \notin attempted => pass[j] \notin attempted /\ pass[i] < pass[j]
  BY <1>11, <1>12, <1>15
<1>17. \A i \in 1 .. Len(outgoing'), j \in 1 .. Len(outgoing') :
          i < j /\ outgoing'[i] \notin attempted =>
              outgoing'[j] \notin attempted /\ outgoing'[i] < outgoing'[j]
  <2> SUFFICES ASSUME NEW i \in 1 .. Len(outgoing'), NEW j \in 1 .. Len(outgoing'),
                      i < j, outgoing'[i] \notin attempted
               PROVE  outgoing'[j] \notin attempted /\ outgoing'[i] < outgoing'[j]
    OBVIOUS
  <2>1. PICK x \in 1 .. Len(queue), y \in 1 .. Len(queue) : x = k + i /\ y = k + j
    BY <1>11, <1>12
  <2>2. x < y /\ outgoing'[i] = queue[x] /\ outgoing'[j] = queue[y]
    BY <1>11, <1>12, <2>1
  <2>3. QED
    BY <1>15, <2>2
<1>18. \A i \in 1 .. Len(pass), j \in 1 .. Len(outgoing') :
          pass[i] \notin attempted => outgoing'[j] \notin attempted /\ pass[i] < outgoing'[j]
  <2> SUFFICES ASSUME NEW i \in 1 .. Len(pass), NEW j \in 1 .. Len(outgoing'),
                      pass[i] \notin attempted
               PROVE  outgoing'[j] \notin attempted /\ pass[i] < outgoing'[j]
    OBVIOUS
  <2>1. PICK x \in 1 .. Len(queue), y \in 1 .. Len(queue) : x = i /\ y = k + j
    BY <1>11, <1>12
  <2>2. x < y /\ pass[i] = queue[x] /\ outgoing'[j] = queue[y]
    BY <1>11, <1>12, <2>1
  <2>3. QED
    BY <1>15, <2>2
<1>19. /\ Among(sent') \cap Among(outgoing') = {}
       /\ Among(sent') \cup Among(outgoing') = Among(sent) \cup Among(outgoing)
       /\ Among(pass) \subseteq Among(sent) \cup Among(outgoing)
       /\ Among(pass) \subseteq Among(sent')
       /\ Among(sent') \ Among(pass) \subseteq Among(sent)
  BY <1>8, <1>9, <1>10, <1>12, <1>13, <1>14
<1>20. QED
  BY <1>5, <1>12, <1>14, <1>16, <1>17, <1>18, <1>19

LEMMA SendPassKeeps ==
    ASSUME ReliableInv, NEW timedOut, NEW k \in Nat, SendPass(timedOut, k)
    PROVE  ReliableInv'
<1> USE DEF ReliableInv
<1>1. PICK pass \in Seq(Packets) :
        /\ sent' \in Seq(Packets) /\ outgoing' \in Seq(Packets)
        /\ NoDuplicates(sent') /\ NoDuplicates(outgoing') /\ NoDuplicates(pass)
        /\ Among(pass) \subseteq Among(sent) \cup Among(outgoing)
        /\ Among(sent') \cap Among(outgoing') = {}
        /\ Among(sent') \cup Among(outgoing') = Among(sent) \cup Among(outgoing)
        /\ Among(pass) \subseteq Among(sent')
        /\ Among(sent') \ Among(pass) \subseteq Among(sent)
        /\ WindowsAllow(pass)
        /\ attempted' = attempted \cup Among(pass)
        /\ reliableWindows' = CountedWindows(pass)
        /\ data' = StillUnderWay(data \cup Among(pass), attempted')
        /\ acks' = StillUnderWay(acks, attempted')
        /\ \A i \in 1 .. Len(pass), j \in 1 .. Len(pass) :
              i < j /\ pass[i] \notin attempted => pass[j] \notin attempted /\ pass[i] < pass[j]
        /\ \A i \in 1 .. Len(outgoing'), j \in 1 .. Len(outgoing') :
              i < j /\ outgoing'[i] \notin attempted =>
                  outgoing'[j] \notin attempted /\ outgoing'[i] < outgoing'[j]
        /\ \A i \in 1 .. Len(pass), j \in 1 .. Len(outgoing') :
              pass[i] \notin attempted =>
                  outgoing'[j] \notin attempted /\ pass[i] < outgoing'[j]
  BY PassLists
<1>2. /\ open /\ open' = open /\ sentCount' = sentCount
      /\ received' = received /\ waiting' = waiting /\ incoming' = incoming
  BY DEF SendPass, receiverVars
<1>3. Among(sent)' = Among(sent') /\ Among(outgoing)' = Among(outgoing')
      /\ NoDuplicates(sent)' = NoDuplicates(sent') /\ NoDuplicates(outgoing)' = NoDuplicates(outgoing')
  BY DEF Among, NoDuplicates
<1>4. outgoing \in Seq(Packets) /\ sent \in Seq(Packets) /\ sentCount \in 0 .. MaxPackets
  BY DEF PlainTypes
<1>5. /\ Among(sent) \subseteq attempted /\ attempted \subseteq 1 .. sentCount
      /\ Among(outgoing) \subseteq 1 .. sentCount
      /\ (1 .. sentCount) \ attempted \subseteq Among(outgoing)
  BY <1>2 DEF Queues, Attempts
<1>6. PICK fresh : fresh = Among(pass) \ attempted
  OBVIOUS
<1>7. Unacknowledged' = Unacknowledged \cup fresh /\ Unacknowledged \cap fresh = {}
  <2>1. Unacknowledged' = Among(sent') \cup (Among(outgoing') \cap attempted')
    BY <1>3 DEF Unacknowledged
  <2>2. Unacknowledged \subseteq attempted
    BY <1>5 DEF Unacknowledged
  <2>3. Unacknowledged' \subseteq Unacknowledged \cup fresh
    BY <1>1, <1>6, <2>1 DEF Unacknowledged
  <2>4. Unacknowledged \cup fresh \subseteq Unacknowledged'
    BY <1>1, <1>5, <1>6, <2>1 DEF Unacknowledged
  <2>5. QED
    BY <1>6, <2>2, <2>3, <2>4
<1>8. fresh \subseteq Packets /\ Unacknowledged \subseteq Packets /\ fresh \cap attempted = {}
      /\ attempted' = attempted \cup fresh /\ fresh \subseteq 1 .. sentCount
  <2>1. Unacknowledged \subseteq 1 .. sentCount
    BY <1>5 DEF Unacknowledged
  <2>2. fresh \subseteq 1 .. sentCount
    BY <1>1, <1>5, <1>6
  <2>3. 1 .. sentCount \subseteq Packets
    BY <1>4, Parameters DEF Packets
  <2>4. QED
    BY <1>1, <1>6, <2>1, <2>2, <2>3
<1>9. PlainTypes'
  <2>1. reliableWindows' \in [0 .. Windows - 1 -> Nat]
    <3>1. ASSUME NEW w \in 0 .. Windows - 1
          PROVE  reliableWindows[w] + Cardinality(InWindow(fresh, w)) \in Nat
      <4>1. IsFiniteSet(InWindow(fresh, w))
        BY <1>8, FinitePackets
      <4>2. Cardinality(InWindow(fresh, w)) \in Nat
        BY <4>1, FS_CardinalityType
      <4>3. reliableWindows[w] \in Nat
        BY DEF PlainTypes
      <4>4. QED
        BY <4>2, <4>3
    <3>2. QED
      BY <1>1, <1>6, <3>1 DEF CountedWindows, InWindow
  <2>2. QED
    BY <1>1, <1>2, <2>1 DEF PlainTypes
<1>10. Queues'
  <2>1. Among(sent') \subseteq attempted'
    BY <1>1, <1>5
  <2>2. Among(outgoing') \subseteq 1 .. sentCount
    BY <1>1, <1>5
  <2>3. QED
    BY <1>1, <1>2, <1>3, <2>1, <2>2 DEF Queues
<1>11. \A n \in attempted', m \in 1 .. sentCount : m < n => m \in attempted'
  <2> SUFFICES ASSUME NEW n \in attempted', NEW m \in 1 .. sentCount, m < n, m \notin attempted'
               PROVE  FALSE
    OBVIOUS
  <2>1. m \notin attempted /\ n \notin attempted /\ n \in Among(pass)
    BY <1>1 DEF Attempts
  <2>2. m \in Among(outgoing')
    BY <1>1, <1>5, <2>1
  <2>3. PICK i \in 1 .. Len(pass), j \in 1 .. Len(outgoing') : n = pass[i] /\ m = outgoing'[j]
    BY <2>1, <2>2 DEF Among
  <2>4. n < m
    BY <1>1, <2>1, <2>3
  <2>5. n \in 1 .. sentCount
    BY <1>5, <1>8
  <2>6. QED
    BY <1>4, <2>4, <2>5
<1>12. Attempts'
  <2>1. attempted' \subseteq 1 .. sentCount
    BY <1>5, <1>8
  <2>2. (1 .. sentCount) \ attempted' \subseteq Among(outgoing')
    BY <1>1, <1>5
  <2>3. \A i \in 1 .. Len(outgoing'), j \in 1 .. Len(outgoing') :
            i < j /\ outgoing'[i] \notin attempted' =>
                outgoing'[j] \notin attempted' /\ outgoing'[i] < outgoing'[j]
    <3>1. \A j \in 1 .. Len(outgoing') : outgoing'[j] \notin Among(pass)
      BY <1>1 DEF Among
    <3>2. QED
      BY <1>1, <3>1
  <2>4. QED
    BY <1>2, <1>3, <1>11, <2>1, <2>2, <2>3 DEF Attempts
<1>13. WindowsAgree'
  <2>1. ASSUME NEW w \in 0 .. Windows - 1
        PROVE  reliableWindows'[w] = Cardinality(InWindow(Unacknowledged', w))
    <3>1. reliableWindows[w] = Cardinality(InWindow(Unacknowledged, w))
      BY <1>2 DEF WindowsAgree, InWindow
    <3>2. reliableWindows'[w] = reliableWindows[w] + Cardinality(InWindow(fresh, w))
      BY <1>1, <1>6 DEF CountedWindows, InWindow
    <3>3. QED
      BY <1>7, <1>8, <3>1, <3>2, CountUnion
  <2>2. QED
    BY <2>1 DEF WindowsAgree, InWindow
<1>14. WindowSpan'
  <2> SUFFICES ASSUME NEW m \in Unacknowledged', NEW n \in attempted',
                      ~(Frame(n) <= Frame(m) + FreeWindows - 2)
               PROVE  FALSE
    BY DEF WindowSpan, Frame
  <2>1. m \in Nat /\ n \in Nat /\ m \in 1 .. sentCount /\ n \in 1 .. sentCount
    <3>1. m \in 1 .. sentCount
      BY <1>5, <1>7, <1>8 DEF Unacknowledged
    <3>2. n \in 1 .. sentCount
      BY <1>5, <1>8
    <3>3. QED
      BY <1>4, <3>1, <3>2
  <2> Frame(m) \in Nat /\ Frame(n) \in Nat /\ FreeWindows \in Nat
    <3>1. Frame(m) \in Nat
      BY <2>1, Frames
    <3>2. Frame(n) \in Nat
      BY <2>1, Frames
    <3>3. QED
      BY <3>1, <3>2, Parameters
  <2>2. Frame(n) > Frame(m) + FreeWindows - 2
    OBVIOUS
  <2>3. PICK b \in Nat : /\ m < b /\ b <= n
                         /\ Frame(b) = Frame(m) + FreeWindows - 1
                         /\ SeqNo(b) % WindowSize = 0
    BY <2>1, <2>2, OpensFrame
  <2>4. b \in attempted'
    BY <1>4, <1>11, <2>1, <2>3
  <2>5. b \notin attempted
    <3> SUFFICES ASSUME b \in attempted PROVE FALSE
      OBVIOUS
    <3>1. m \in attempted
      BY <2>1, <2>3 DEF Attempts
    <3>2. m \in Unacknowledged
      BY <1>7, <1>8, <3>1
    <3>3. Frame(b) <= Frame(m) + FreeWindows - 2
      BY <3>2 DEF WindowSpan
    <3>4. QED
      BY <2>3, <3>3
  <2>6. PICK j \in 1 .. Len(pass) : b = pass[j]
    BY <1>1, <2>4, <2>5 DEF Among
  <2>7. PICK earlier : earlier = SubSeq(pass, 1, j - 1)
    OBVIOUS
  <2>8. MayOpen(b, CountedWindows(earlier))
    BY <1>1, <2>3, <2>5, <2>6, <2>7 DEF WindowsAllow
  <2>9. PICK w \in 0 .. Windows - 1 : w = WindowOf(SeqNo(m))
    BY <2>1, Frames
  <2>10. CountedWindows(earlier)[w] = 0
    <3>1. PICK v : v = WindowOf(SeqNo(b)) + FreeWindows + 1
      OBVIOUS
    <3>2. v \in WindowOf(SeqNo(b)) .. WindowOf(SeqNo(b)) + FreeWindows + 1
      <4>1. WindowOf(SeqNo(b)) \in Int
        BY Frames
      <4>2. QED
        BY <3>1, <4>1
    <3>3. v % Windows = w
      BY <2>1, <2>3, <2>9, <3>1, WindowIsTested
    <3>4. QED
      BY <2>8, <3>2, <3>3 DEF MayOpen
  <2>11. /\ earlier \in Seq(Packets) /\ Len(earlier) = j - 1
         /\ \A i \in 1 .. j - 1 : earlier[i] = pass[i]
         /\ Among(earlier) \subseteq Among(pass)
    <3>1. j - 1 \in 0 .. Len(pass)
      OBVIOUS
    <3>2. PICK l : l = j - 1
      OBVIOUS
    <3>3. /\ earlier \in Seq(Packets) /\ Len(earlier) = l
          /\ \A i \in 1 .. l : earlier[i] = pass[i]
          /\ Among(earlier) \cup Among(SubSeq(pass, l + 1, Len(pass))) = Among(pass)
      BY <1>1, <2>7, <3>1, <3>2, CutList
    <3>4. QED
      BY <3>2, <3>3
  <2>12. PICK first : first = Among(earlier) \ attempted
    OBVIOUS
  <2>13. first \subseteq Packets
    BY <1>6, <1>8, <2>11, <2>12
  <2>14. Cardinality(InWindow(Unacknowledged, w)) + Cardinality(InWindow(first, w)) = 0
    <3>1. reliableWindows[w] = Cardinality(InWindow(Unacknowledged, w))
      BY <1>2 DEF WindowsAgree, InWindow
    <3>2. CountedWindows(earlier)[w] = reliableWindows[w] + Cardinality(InWindow(first, w))
      BY <2>12 DEF CountedWindows, InWindow
    <3>3. QED
      BY <2>10, <3>1, <3>2
  <2>15. IsFiniteSet(InWindow(Unacknowledged, w)) /\ IsFiniteSet(InWindow(first, w))
    BY <1>8, <2>13, FinitePackets
  <2>16. InWindow(Unacknowledged, w) = {} /\ InWindow(first, w) = {}
    <3>1. Cardinality(InWindow(Unacknowledged, w)) \in Nat /\ Cardinality(InWindow(first, w)) \in Nat
      BY <2>15, FS_CardinalityType
    <3>2. Cardinality(InWindow(Unacknowledged, w)) = 0 /\ Cardinality(InWindow(first, w)) = 0
      BY <2>14, <3>1
    <3>3. QED
      BY <2>15, <3>2, FS_EmptySet
  <2>17. m \in fresh
    BY <1>7, <2>9, <2>16 DEF InWindow
  <2>18. PICK i \in 1 .. Len(pass) : m = pass[i]
    BY <1>6, <2>17 DEF Among
  <2>19. i < j
    <3>1. i # j
      BY <2>3, <2>6, <2>18
    <3>2. ~(j < i)
      <4>1. j < i /\ pass[j] \notin attempted => pass[j] < pass[i]
        BY <1>1
      <4>2. pass[j] \notin attempted /\ m < b /\ pass[j] = b /\ pass[i] = m
        BY <2>3, <2>5, <2>6, <2>18
      <4>3. QED
        BY <2>1, <4>1, <4>2
    <3>3. QED
      BY <3>1, <3>2
  <2>20. m \in first
    <3>1. i \in 1 .. j - 1
      BY <2>19
    <3>2. earlier[i] = m /\ i \in 1 .. Len(earlier)
      BY <2>11, <2>18, <3>1
    <3>3. m \in Among(earlier)
      BY <3>2 DEF Among
    <3>4. QED
      BY <1>6, <2>12, <2>17, <3>3
  <2>21. QED
    BY <2>9, <2>16, <2>20 DEF InWindow
<1>15. ReceivedInOrder'
  BY <1>1, <1>2 DEF ReceivedInOrder
<1>16. ForgottenIsReceived'
  <2>1. ASSUME NEW n \in 1 .. sentCount
        PROVE  n \in Among(outgoing') \cup Among(sent') \cup Among(received) \cup waiting
    BY <1>1, <1>2 DEF ForgottenIsReceived
  <2>2. QED
    BY <1>2, <1>3, <2>1 DEF ForgottenIsReceived, Among
<1>17. NearlyReceived'
  <2>1. PICK l \in Nat : l = Len(received)
    BY DEF PlainTypes
  <2> SUFFICES ASSUME NEW n \in attempted', n > l
               PROVE  Frame(n) <= Frame(l + 1) + FreeWindows - 2
    BY <1>2, <2>1 DEF NearlyReceived, Frame
  <2>2. n \in 1 .. sentCount /\ l + 1 \in 1 .. sentCount
    BY <1>4, <1>5, <1>8, <2>1
  <2>3. l + 1 \in attempted'
    BY <1>4, <1>11, <2>2
  <2>4. l + 1 \notin Among(received) /\ l + 1 \notin waiting
    BY <2>1 DEF ReceivedInOrder, Among
  <2>5. l + 1 \in Among(outgoing') \cup Among(sent')
    BY <1>2, <1>3, <1>16, <2>2, <2>4 DEF ForgottenIsReceived, Among
  <2>6. l + 1 \in Unacknowledged'
    BY <1>3, <2>3, <2>5 DEF Unacknowledged
  <2>7. QED
    BY <1>14, <2>6 DEF WindowSpan, Frame
<1>18. Datagrams'
  <2>1. data' \subseteq attempted' /\ acks' \subseteq attempted'
    BY <1>1, <1>8 DEF Datagrams, StillUnderWay
  <2>2. \A d \in data' \cup acks', n \in attempted' : n < d + Lifetime
    BY <1>1 DEF StillUnderWay
  <2>3. \A n \in acks' : n \in waiting \/ n <= Len(received)
    BY <1>1 DEF StillUnderWay, Datagrams
  <2>4. QED
    BY <1>2, <2>1, <2>2, <2>3 DEF Datagrams
<1>19. QED
  BY <1>9, <1>10, <1>12, <1>13, <1>14, <1>15, <1>16, <1>17, <1>18

(***************************************************************************)
(* A packet that arrives.                                                  *)
(***************************************************************************)
\* The packets that were sent, as the receiver's numbers see them: those it has received
\* and those it lacks are both near.
LEMMA Nearness ==
    ASSUME ReliableInv, NEW l, l = Len(received), NEW n \in attempted
    PROVE  /\ l \in Nat /\ n \in Nat /\ n \in Packets
           /\ n > l => n < l + FreeWindows * WindowSize /\ Frame(n) - Frame(l) \in 0 .. FreeWindows - 1
<1> USE DEF ReliableInv
<1>1. l \in Nat
  BY DEF PlainTypes
<1>2. n \in Nat /\ n \in Packets
  <2>1. n \in 1 .. sentCount /\ sentCount \in 0 .. MaxPackets
    BY DEF PlainTypes, Attempts
  <2>2. QED
    BY <2>1, Parameters DEF Packets
<1>3. ASSUME n > l
      PROVE  n < l + FreeWindows * WindowSize /\ Frame(n) - Frame(l) \in 0 .. FreeWindows - 1
  <2>1. Frame(n) <= Frame(l + 1) + FreeWindows - 2
    BY <1>3 DEF NearlyReceived
  <2>2. Frame(l + 1) <= Frame(l) + 1
    BY <1>1, NextFrame
  <2>3. Frame(l) <= Frame(n)
    BY <1>1, <1>2, <1>3, FrameMonotone
  <2>4. Frame(l) \in Nat
    BY <1>1, Frames
  <2>5. Frame(n) \in Nat
    BY <1>2, Frames
  <2>6. Frame(l + 1) \in Nat
    <3>1. l + 1 \in Nat
      BY <1>1
    <3>2. QED
      BY <3>1, Frames
  <2>7. Frame(n) <= Frame(l) + FreeWindows - 1
    BY <2>1, <2>2, <2>4, <2>5, <2>6, Parameters
  <2>8. n < l + FreeWindows * WindowSize
    BY <1>1, <1>2, <2>7, FrameDistance
  <2>9. QED
    BY <2>3, <2>4, <2>5, <2>7, <2>8, Parameters
<1>4. QED
  BY <1>1, <1>2, <1>3

\* What is kept is new, and what is not kept is not acknowledged unless the receiver has it.
LEMMA KeptIsNew ==
    ASSUME ReliableInv, NEW l, l = Len(received), NEW n \in data
    PROVE  /\ Kept(n) => n > l /\ n \notin waiting
           /\ ~Kept(n) => n <= l \/ n \in waiting \/ ~Answers(n, incoming)
<1> USE DEF ReliableInv
<1>1. incoming = SeqNo(l) /\ n \in attempted /\ waiting \subseteq attempted
  BY DEF ReceivedInOrder, Datagrams
<1>2. l \in Nat /\ n \in Nat
  BY <1>1, Nearness
<1>3. PICK h \in Nat : h = FreeWindows * WindowSize /\ SeqNos = 2 * h /\ h > 0
  BY Parameters
<1>4. Frame(l) \in Nat /\ Frame(n) \in Nat
  <2>1. Frame(l) \in Nat
    BY <1>2, Frames
  <2>2. Frame(n) \in Nat
    BY <1>2, Frames
  <2>3. QED
    BY <2>1, <2>2
<1>5. CASE n = l
  BY <1>1, <1>2, <1>5 DEF Kept
<1>6. CASE n < l
  <2>1. l \in attempted
    BY <1>2, <1>6 DEF ReceivedInOrder
  <2>2. l < n + Lifetime
    BY <2>1 DEF Datagrams
  <2>3. l <= n + h
    BY <1>2, <1>3, <2>2, Parameters
  <2>4. Frame(l) <= Frame(n) + FreeWindows
    BY <1>2, <1>3, <2>3, FrameDistance
  <2>5. Ahead(SeqNo(n), SeqNo(l)) = Frame(n) - Frame(l) + Windows
    <3>1. l < n + SeqNos
      BY <1>2, <1>3, <2>3
    <3>2. QED
      BY <1>2, <1>6, <3>1, AheadOfReceiver
  <2>6. ~(Ahead(SeqNo(n), SeqNo(l)) < FreeWindows - 1)
    BY <1>4, <2>4, <2>5, Parameters
  <2>7. ~Kept(n)
    BY <1>1, <2>6 DEF Kept
  <2>8. QED
    BY <1>2, <1>6, <2>7
<1>7. CASE n > l
  <2>1. n < l + h /\ Frame(n) - Frame(l) \in 0 .. FreeWindows - 1
    BY <1>1, <1>3, <1>7, Nearness
  <2>2. Ahead(SeqNo(n), SeqNo(l)) = Frame(n) - Frame(l)
    <3>1. n < l + SeqNos
      BY <1>2, <1>3, <2>1
    <3>2. QED
      BY <1>2, <1>7, <3>1, AheadOfReceiver
  <2>3. SeqNo(n) # SeqNo(l)
    <3>1. n < l + SeqNos /\ l < n + SeqNos
      BY <1>2, <1>3, <1>7, <2>1
    <3>2. QED
      BY <1>2, <1>7, <3>1, SameNumber
  <2>4. ASSUME NEW m \in waiting, SeqNo(m) = SeqNo(n) PROVE m = n
    <3>1. m \in attempted /\ m > l
      BY <1>1, <1>2 DEF ReceivedInOrder, Attempts, PlainTypes
    <3>2. m \in Nat /\ m < l + h
      BY <1>1, <1>3, <3>1, Nearness
    <3>3. m < n + SeqNos /\ n < m + SeqNos
      BY <1>2, <1>3, <1>7, <2>1, <3>1, <3>2
    <3>4. QED
      BY <1>2, <2>4, <3>2, <3>3, SameNumber
  <2>5. n \in waiting => ~Kept(n)
    BY DEF Kept
  <2>6. ASSUME ~Kept(n), n \notin waiting PROVE ~Answers(n, incoming)
    <3>1. ~(Ahead(SeqNo(n), SeqNo(l)) < FreeWindows - 1)
      BY <1>1, <2>3, <2>4, <2>6 DEF Kept
    <3>2. Ahead(SeqNo(n), SeqNo(l)) = FreeWindows - 1
      BY <2>1, <2>2, <3>1, Parameters
    <3>3. QED
      BY <1>1, <3>2 DEF Answers
  <2>7. QED
    BY <1>7, <2>5, <2>6
<1>8. QED
  BY <1>2, <1>5, <1>6, <1>7

\* The packets that follow the last one received without a gap.
LEMMA InOrderRuns ==
    ASSUME ReliableInv, NEW l, l = Len(received), NEW arrived \in SUBSET attempted,
           \A m \in arrived : m > l
    PROVE  \E k \in Nat : /\ InOrder(arrived) = [j \in 1 .. k |-> l + j]
                          /\ \A j \in 1 .. k : l + j \in arrived
                          /\ l + (k + 1) \notin arrived
<1>1. incoming = SeqNo(l)
  BY DEF ReliableInv, ReceivedInOrder
<1>2. l \in Nat
  BY DEF ReliableInv, PlainTypes
<1>3. PICK h \in Nat : h = FreeWindows * WindowSize /\ SeqNos = 2 * h /\ h > 0
  BY Parameters
<1>4. \A m \in arrived : m \in Nat /\ m > l /\ m < l + h
  BY <1>3, Nearness
<1>5. PICK c \in Nat : /\ c = Cardinality(arrived) /\ IsFiniteSet(arrived) /\ c < h
  <2>1. arrived \subseteq l + 1 .. l + h - 1
    BY <1>2, <1>3, <1>4
  <2>2. IsFiniteSet(l + 1 .. l + h - 1) /\ Cardinality(l + 1 .. l + h - 1) = h - 1
    <3>1. PICK a \in Int, b \in Int : a = l + 1 /\ b = l + h - 1
      BY <1>2, <1>3
    <3>2. IsFiniteSet(a .. b) /\ Cardinality(a .. b) = (IF a > b THEN 0 ELSE b - a + 1)
      BY FS_Interval
    <3>3. QED
      BY <1>2, <1>3, <3>1, <3>2
  <2>3. IsFiniteSet(arrived) /\ Cardinality(arrived) <= h - 1
    <3>1. PICK T : T = l + 1 .. l + h - 1
      OBVIOUS
    <3>2. IsFiniteSet(T) /\ arrived \in SUBSET T /\ Cardinality(T) = h - 1
      BY <2>1, <2>2, <3>1
    <3>3. IsFiniteSet(arrived) /\ Cardinality(arrived) <= Cardinality(T)
      BY <3>2, FS_Subset
    <3>4. QED
      BY <3>2, <3>3
  <2>4. Cardinality(arrived) \in Nat
    BY <2>3, FS_CardinalityType
  <2>5. QED
    BY <1>3, <2>3, <2>4
<1> DEFINE F(j) == {m \in arrived : SeqNo(m) = (incoming + j) % SeqNos}
           P(k) == F(k + 1) = {} /\ \A j \in 1 .. k : F(j) # {}
           length == CHOOSE k \in 0 .. Cardinality(arrived) : P(k)
<1>6. ASSUME NEW j \in 1 .. c + 1 PROVE F(j) = {l + j} \cap arrived
  <2>1. (incoming + j) % SeqNos = SeqNo(l + j)
    <3>1. PICK x \in Nat : x = Earlier + l
      BY <1>2, Parameters
    <3>2. ((x % SeqNos) + j) % SeqNos = (x + j) % SeqNos
      BY <1>5, Parameters, ReducedSum
    <3>3. x + j = Earlier + (l + j)
      BY <1>2, <3>1, Parameters
    <3>4. QED
      BY <1>1, <3>1, <3>2, <3>3 DEF SeqNo
  <2>2. ASSUME NEW m \in arrived, SeqNo(m) = SeqNo(l + j) PROVE m = l + j
    <3>1. m \in Nat /\ l + j \in Nat /\ m < l + j + SeqNos /\ l + j < m + SeqNos
      <4>1. m \in Nat /\ m > l /\ m < l + h
        BY <1>4
      <4>2. j >= 1 /\ j <= h /\ j \in Nat
        BY <1>5
      <4>3. PICK d \in Nat : d = SeqNos /\ d = 2 * h
        BY <1>3
      <4>4. m < l + j + d /\ l + j < m + d /\ l + j \in Nat
        BY <1>2, <4>1, <4>2, <4>3
      <4>5. QED
        BY <4>1, <4>3, <4>4
    <3>2. QED
      BY <2>2, <3>1, SameNumber
  <2>3. QED
    BY <2>1, <2>2
<1>7. \E k \in 0 .. c : P(k)
  <2> DEFINE missing == {j \in Nat : j \in 1 .. c + 1 /\ l + j \notin arrived}
  <2>1. missing # {}
    <3> SUFFICES ASSUME missing = {} PROVE FALSE
      OBVIOUS
    <3>1. l + 1 .. l + c + 1 \subseteq arrived
      <4> SUFFICES ASSUME NEW m \in l + 1 .. l + c + 1 PROVE m \in arrived
        OBVIOUS
      <4>1. PICK j \in Nat : j \in 1 .. c + 1 /\ m = l + j
        <5>1. m - l \in 1 .. c + 1 /\ m = l + (m - l)
          BY <1>2
        <5>2. QED
          BY <5>1
      <4>2. QED
        BY <4>1
    <3>2. Cardinality(l + 1 .. l + c + 1) = c + 1
      <4>1. l + 1 \in Int /\ l + c + 1 \in Int
        BY <1>2
      <4>2. QED
        BY <1>2, <4>1, FS_Interval
    <3>3. c + 1 <= c
      BY <1>5, <3>1, <3>2, FS_Subset
    <3>4. QED
      BY <3>3
  <2>2. missing \subseteq Nat
    OBVIOUS
  <2>3. PICK j \in missing : \A i \in missing : j <= i
    <3> HIDE DEF missing
    <3>1. QED
      BY <2>1, <2>2, LeastOf
  <2>4. PICK k \in 0 .. c : k = j - 1
    OBVIOUS
  <2>5. l + (k + 1) \notin arrived /\ k + 1 \in 1 .. c + 1
    BY <2>3, <2>4
  <2>6. ASSUME NEW i \in 1 .. k PROVE l + i \in arrived
    <3>1. i \in Nat /\ i \in 1 .. c + 1 /\ i < j
      BY <2>3, <2>4
    <3>2. i \notin missing
      BY <2>3, <3>1
    <3>3. QED
      BY <3>1, <3>2
  <2>7. P(k)
    <3> HIDE DEF F
    <3>1. F(k + 1) = {}
      <4>1. F(k + 1) = {l + (k + 1)} \cap arrived
        BY <1>6, <2>5
      <4>2. QED
        BY <2>5, <4>1
    <3>2. ASSUME NEW i \in 1 .. k PROVE F(i) # {}
      <4>1. i \in 1 .. c + 1
        BY <2>5
      <4>2. F(i) = {l + i} \cap arrived
        BY <1>6, <4>1
      <4>3. l + i \in arrived
        BY <2>6
      <4>4. QED
        BY <4>2, <4>3
    <3>3. QED
      BY <3>1, <3>2
  <2>8. QED
    BY <2>7
<1>8. PICK k \in 0 .. c : k = length /\ P(k)
  <2> HIDE DEF P
  <2>1. QED
    BY <1>5, <1>7
<1>9. \A j \in 1 .. k : F(j) = {l + j} /\ l + j \in arrived
  <2> SUFFICES ASSUME NEW j \in 1 .. k PROVE F(j) = {l + j} /\ l + j \in arrived
    OBVIOUS
  <2>1. j \in 1 .. c + 1
    OBVIOUS
  <2>2. \A i \in 1 .. k : F(i) # {}
    <3> HIDE DEF F, length
    <3>1. QED
      BY <1>8
  <2>3. F(j) # {} /\ F(j) = {l + j} \cap arrived
    <3> HIDE DEF F
    <3>1. QED
      BY <1>6, <2>1, <2>2
  <2>4. QED
    BY <2>3
<1>10. InOrder(arrived) = [j \in 1 .. k |-> l + j]
  <2>1. InOrder(arrived) = [j \in 1 .. length |-> CHOOSE m \in F(j) : TRUE]
    BY DEF InOrder
  <2> HIDE DEF F, length
  <2>2. ASSUME NEW j \in 1 .. k PROVE (CHOOSE m \in F(j) : TRUE) = l + j
    BY <1>9
  <2>3. QED
    BY <1>8, <2>1, <2>2
<1>11. l + (k + 1) \notin arrived
  <2>1. k + 1 \in 1 .. c + 1 /\ F(k + 1) = {}
    <3>1. F(k + 1) = {}
      <4> HIDE DEF F, length
      <4>1. QED
        BY <1>8
    <3>2. QED
      BY <3>1
  <2> HIDE DEF F
  <2>2. QED
    BY <1>6, <2>1
<1>12. QED
  BY <1>9, <1>10, <1>11

\* The k packets that follow packet l.
Following(l, k) == [j \in 1 .. k |-> l + j]

LEMMA FollowingPackets ==
    ASSUME NEW l \in Nat, NEW k \in Nat
    PROVE  /\ Len(Following(l, k)) = k
           /\ Among(Following(l, k)) = {l + j : j \in 1 .. k}
           /\ k = 0 => Following(l, k) = <<>>
  BY DEF Following, Among

\* What a packet that arrives does: the receiver gets the next k packets, in order.
LEMMA ReceiveDataDelivers ==
    ASSUME ReliableInv, NEW n, ReceiveData(n), NEW l, l = Len(received)
    PROVE  \E k \in Nat, arrived \in SUBSET attempted :
              /\ waiting \subseteq arrived
              /\ \A m \in arrived : m > l
              /\ \A j \in 1 .. k : l + j \in arrived
              /\ l + (k + 1) \notin arrived
              /\ waiting' = arrived \ Among(Following(l, k))
              /\ received' = received \o Following(l, k)
              /\ incoming' = SeqNo(l + k)
              /\ acks' \subseteq acks \cup {n}
              /\ n \in acks' \ acks => n \in arrived \/ n <= l
<1> USE DEF ReliableInv
<1>1. n \in data /\ n \in attempted /\ waiting \subseteq attempted
  BY DEF ReceiveData, Datagrams, ReceivedInOrder
<1>2. l \in Nat /\ n \in Nat
  BY <1>1, Nearness
<1>3. \A m \in waiting : m > l
  <2>1. ASSUME NEW m \in waiting PROVE m > l
    <3>1. m \in Nat /\ m > l + 1
      BY <1>1, Nearness DEF ReceivedInOrder
    <3>2. QED
      BY <1>2, <3>1
  <2>2. QED
    BY <2>1
<1>4. incoming = SeqNo(l)
  BY DEF ReceivedInOrder
<1>5. ASSUME NEW k \in Nat PROVE (incoming + k) % SeqNos = SeqNo(l + k)
  <2>1. PICK x \in Nat : x = Earlier + l
    BY <1>2, Parameters
  <2>2. ((x % SeqNos) + k) % SeqNos = (x + k) % SeqNos
    BY Parameters, ReducedSum
  <2>3. x + k = Earlier + (l + k)
    BY <1>2, <2>1, Parameters
  <2>4. QED
    BY <1>4, <2>1, <2>2, <2>3 DEF SeqNo
<1>6. acks' \subseteq acks \cup {n} /\ (n \in acks' \ acks => Answers(n, incoming'))
  BY DEF ReceiveData
<1>7. CASE Kept(n)
  <2>1. PICK arrived : arrived = waiting \cup {n}
    OBVIOUS
  <2>2. n > l
    BY <1>1, <1>7, KeptIsNew
  <2>3. arrived \subseteq attempted /\ \A m \in arrived : m > l
    BY <1>1, <1>3, <2>1, <2>2
  <2>4. PICK k \in Nat : /\ InOrder(arrived) = [j \in 1 .. k |-> l + j]
                         /\ \A j \in 1 .. k : l + j \in arrived
                         /\ l + (k + 1) \notin arrived
    BY <2>3, InOrderRuns
  <2>5. PICK run : run = Following(l, k)
    OBVIOUS
  <2>6. Len(run) = k
    BY <1>2, <2>5, FollowingPackets
  <2>7. /\ waiting' = arrived \ Among(run)
        /\ received' = received \o run
        /\ incoming' = (incoming + Len(run)) % SeqNos
    BY <1>7, <2>1, <2>4, <2>5 DEF ReceiveData, Following
  <2>8. incoming' = SeqNo(l + k)
    BY <1>5, <2>6, <2>7
  <2>9. waiting \subseteq arrived /\ n \in arrived
    BY <2>1
  <2>10. QED
    BY <1>6, <2>3, <2>4, <2>5, <2>6, <2>7, <2>8, <2>9
<1>8. CASE ~Kept(n)
  <2> PICK k \in Nat : k = 0
    OBVIOUS
  <2>1. PICK run : run = Following(l, k)
    OBVIOUS
  <2>2. run = <<>> /\ Len(run) = 0 /\ Among(run) = {}
    BY <1>2, <2>1, FollowingPackets, AmongEmpty
  <2>3. /\ waiting' = waiting \ Among(run)
        /\ received' = received \o run
        /\ incoming' = (incoming + Len(run)) % SeqNos
    BY <1>8, <2>2 DEF ReceiveData
  <2>4. l + 0 = l /\ incoming' = SeqNo(l)
    BY <1>2, <1>5, <2>2, <2>3
  <2>5. n \in acks' \ acks => n \in waiting \/ n <= l
    BY <1>1, <1>4, <1>6, <1>8, <2>4, KeptIsNew
  <2>6. l + (0 + 1) \notin waiting
    <3>1. \A m \in waiting : m > l + 1
      BY DEF ReceivedInOrder
    <3>2. QED
      BY <1>2, <3>1
  <2>7. received' = received \o Following(l, k) /\ waiting' = waiting \ Among(Following(l, k))
    BY <2>1, <2>3
  <2>8. incoming' = SeqNo(l + k) /\ l + (k + 1) \notin waiting /\ \A j \in 1 .. k : l + j \in waiting
    BY <2>4, <2>6
  <2>9. QED
    BY <1>1, <1>3, <1>6, <2>5, <2>7, <2>8
<1>9. QED
  BY <1>7, <1>8

LEMMA ReceiveDataKeeps ==
    ASSUME ReliableInv, NEW n, ReceiveData(n)
    PROVE  ReliableInv'
<1> USE DEF ReliableInv
<1>1. PICK l : l = Len(received)
  OBVIOUS
<1>2. l \in Nat /\ received \in Seq(Packets) /\ n \in attempted
  BY <1>1 DEF PlainTypes, ReceiveData, Datagrams
<1>3. PICK k \in Nat, arrived \in SUBSET attempted :
        /\ waiting \subseteq arrived
        /\ \A m \in arrived : m > l
        /\ \A j \in 1 .. k : l + j \in arrived
        /\ l + (k + 1) \notin arrived
        /\ waiting' = arrived \ Among(Following(l, k))
        /\ received' = received \o Following(l, k)
        /\ incoming' = SeqNo(l + k)
        /\ acks' \subseteq acks \cup {n}
        /\ n \in acks' \ acks => n \in arrived \/ n <= l
  <2> HIDE DEF ReliableInv
  <2>1. QED
    BY <1>1, ReceiveDataDelivers
<1>4. /\ open' = open /\ outgoing' = outgoing /\ sent' = sent /\ reliableWindows' = reliableWindows
      /\ sentCount' = sentCount /\ attempted' = attempted /\ data' = data
  BY DEF ReceiveData, senderVars
<1>5. Unacknowledged' = Unacknowledged
  BY <1>4 DEF Unacknowledged, Among
<1>6. attempted \subseteq Nat /\ attempted \subseteq Packets
  BY <1>1, Nearness
<1>7. received' \in Seq(Packets) /\ received' = [i \in 1 .. l + k |-> i] /\ Len(received') = l + k
  <2>1. PICK run : run = Following(l, k)
    OBVIOUS
  <2>2. run \in Seq(Packets) /\ Len(run) = k /\ \A j \in 1 .. k : run[j] = l + j
    <3>1. \A j \in 1 .. k : l + j \in Packets
      BY <1>3, <1>6
    <3>2. run \in [1 .. k -> Packets]
      BY <2>1, <3>1 DEF Following
    <3>3. run \in Seq(Packets) /\ Len(run) = k
      BY <3>2
    <3>4. QED
      BY <2>1, <3>3 DEF Following
  <2>3. /\ received' \in Seq(Packets) /\ Len(received') = l + k
        /\ \A i \in 1 .. l : received'[i] = received[i]
        /\ \A i \in 1 .. l + k : i > l => received'[i] = run[i - l]
    <3>1. received' = received \o run
      BY <1>3, <2>1
    <3>2. ASSUME NEW s \in Seq(Packets), NEW t \in Seq(Packets)
          PROVE  /\ s \o t \in Seq(Packets) /\ Len(s \o t) = Len(s) + Len(t)
                 /\ \A i \in 1 .. Len(s) : (s \o t)[i] = s[i]
                 /\ \A i \in 1 .. Len(s) + Len(t) : i > Len(s) => (s \o t)[i] = t[i - Len(s)]
      OBVIOUS
    <3>3. /\ received' \in Seq(Packets) /\ Len(received') = Len(received) + Len(run)
          /\ \A i \in 1 .. Len(received) : received'[i] = received[i]
          /\ \A i \in 1 .. Len(received) + Len(run) :
                i > Len(received) => received'[i] = run[i - Len(received)]
      BY <1>2, <2>2, <3>1, <3>2
    <3>4. Len(received) = l /\ Len(run) = k
      BY <1>1, <2>2
    <3>5. QED
      BY <3>3, <3>4
  <2>4. \A i \in 1 .. l : received[i] = i
    BY <1>1 DEF ReceivedInOrder
  <2>5. \A i \in 1 .. l + k : received'[i] = i
    <3> SUFFICES ASSUME NEW i \in 1 .. l + k PROVE received'[i] = i
      OBVIOUS
    <3>1. CASE i \in 1 .. l
      BY <2>3, <2>4, <3>1
    <3>2. CASE i > l
      <4>1. i - l \in 1 .. k /\ l + (i - l) = i
        BY <1>2, <3>2
      <4>2. QED
        BY <2>2, <2>3, <3>2, <4>1
    <3>3. QED
      BY <1>2, <3>1, <3>2
  <2>6. DOMAIN received' = 1 .. l + k /\ received' = [i \in DOMAIN received' |-> received'[i]]
    BY <2>3
  <2>7. QED
    BY <2>3, <2>5, <2>6
<1>8. PlainTypes' /\ Queues' /\ Attempts'
  <2>1. PlainTypes'
    BY <1>4, <1>7 DEF PlainTypes
  <2>2. Queues'
    BY <1>4 DEF Queues, Among, NoDuplicates
  <2>3. Attempts'
    BY <1>4 DEF Attempts, Among
  <2>4. QED
    BY <2>1, <2>2, <2>3
<1>9. WindowSpan' /\ WindowsAgree'
  BY <1>4, <1>5 DEF WindowSpan, WindowsAgree
<1>10. \A m \in arrived : m \in waiting' \/ m <= l + k
  <2>1. ASSUME NEW m \in arrived, m \notin waiting' PROVE m <= l + k
    <3>1. PICK j \in 1 .. k : m = l + j
      <4>1. Among(Following(l, k)) = {l + j : j \in 1 .. k}
        BY <1>2, FollowingPackets
      <4>2. m \in Among(Following(l, k))
        BY <1>3, <2>1
      <4>3. QED
        BY <4>1, <4>2
    <3>2. QED
      BY <1>2, <3>1
  <2>2. QED
    BY <2>1
<1>11. ReceivedInOrder'
  <2>1. ASSUME NEW i \in 1 .. l + k PROVE i \in attempted
    <3>1. CASE i \in 1 .. l
      BY <1>1, <3>1 DEF ReceivedInOrder
    <3>2. CASE i > l
      <4>1. i - l \in 1 .. k /\ l + (i - l) = i
        BY <1>2, <3>2
      <4>2. QED
        BY <1>3, <4>1
    <3>3. QED
      BY <1>2, <3>1, <3>2
  <2>2. waiting' \subseteq attempted
    BY <1>3
  <2>3. ASSUME NEW m \in waiting' PROVE m > l + k + 1
    <3>1. m \in arrived /\ m \in Nat /\ m > l /\ \A j \in 1 .. k : m # l + j
      <4>1. m \in arrived /\ m \notin Among(Following(l, k))
        BY <1>3, <2>3
      <4>2. m \in Nat /\ m > l
        BY <1>3, <1>6, <4>1
      <4>3. \A j \in 1 .. k : m # l + j
        <5>1. Among(Following(l, k)) = {l + j : j \in 1 .. k}
          BY <1>2, FollowingPackets
        <5>2. QED
          BY <4>1, <5>1
      <4>4. QED
        BY <4>1, <4>2, <4>3
    <3>2. ~(m <= l + k)
      <4> SUFFICES ASSUME m <= l + k PROVE FALSE
        OBVIOUS
      <4>1. m - l \in 1 .. k /\ m = l + (m - l)
        BY <1>2, <3>1
      <4>2. QED
        BY <3>1, <4>1
    <3>3. m # l + (k + 1)
      BY <1>3, <3>1
    <3>4. QED
      BY <1>2, <3>1, <3>2, <3>3
  <2>4. QED
    BY <1>3, <1>4, <1>7, <2>1, <2>2, <2>3 DEF ReceivedInOrder
<1>12. NearlyReceived'
  <2> SUFFICES ASSUME NEW m \in attempted, m > l + k
               PROVE  Frame(m) <= Frame(l + k + 1) + FreeWindows - 2
    BY <1>4, <1>7 DEF NearlyReceived, Frame
  <2>1. m \in Nat /\ m > l
    BY <1>2, <1>6
  <2>2. Frame(m) <= Frame(l + 1) + FreeWindows - 2
    BY <1>1, <2>1 DEF NearlyReceived
  <2>3. PICK x \in Nat, y \in Nat : x = l + 1 /\ y = l + k + 1 /\ x <= y
    BY <1>2
  <2>4. Frame(x) <= Frame(y)
    BY <2>3, FrameMonotone
  <2>5. Frame(x) \in Nat
    BY Frames
  <2>6. Frame(y) \in Nat
    BY Frames
  <2>7. Frame(m) \in Nat
    BY <2>1, Frames
  <2>8. QED
    BY <2>2, <2>3, <2>4, <2>5, <2>6, <2>7, Parameters
<1>13. Datagrams'
  <2>1. acks' \subseteq attempted
    BY <1>2, <1>3 DEF Datagrams
  <2>2. \A d \in data \cup acks', m \in attempted : m < d + Lifetime
    <3>1. n \in data
      BY DEF ReceiveData
    <3>2. QED
      BY <1>3, <3>1 DEF Datagrams
  <2>3. ASSUME NEW m \in acks' PROVE m \in waiting' \/ m <= l + k
    <3>1. m \in arrived \/ m <= l
      <4>1. CASE m \in acks
        BY <1>1, <1>3, <4>1 DEF Datagrams
      <4>2. CASE m \notin acks
        BY <1>3, <2>3, <4>2
      <4>3. QED
        BY <4>1, <4>2
    <3>2. m \in Nat
      BY <1>6, <2>1
    <3>3. QED
      BY <1>2, <1>10, <3>1, <3>2
  <2>4. QED
    BY <1>4, <1>7, <2>1, <2>2, <2>3 DEF Datagrams
<1>14. ForgottenIsReceived'
  <2>1. Among(received') = 1 .. l + k
    BY <1>7 DEF Among
  <2>2. Among(received) = 1 .. l
    BY <1>1 DEF Among, ReceivedInOrder
  <2>3. ASSUME open, NEW m \in 1 .. sentCount
        PROVE  m \in Among(outgoing) \cup Among(sent) \cup Among(received') \cup waiting'
    <3>1. m \in Among(outgoing) \cup Among(sent) \cup Among(received) \cup waiting
      BY <2>3 DEF ForgottenIsReceived
    <3>2. CASE m \in Among(received)
      <4>1. m \in 1 .. l + k
        BY <1>2, <2>2, <3>2
      <4>2. QED
        BY <2>1, <4>1
    <3>3. CASE m \in waiting
      <4>1. m \in waiting' \/ m <= l + k
        BY <1>3, <1>10, <3>3
      <4>2. m \in 1 .. l + k \/ m \in waiting'
        BY <4>1, <1>2
      <4>3. QED
        BY <2>1, <4>2
    <3>4. QED
      BY <3>1, <3>2, <3>3
  <2>4. QED
    BY <1>4, <2>3 DEF ForgottenIsReceived, Among
<1>15. QED
  BY <1>8, <1>9, <1>11, <1>12, <1>13, <1>14

(***************************************************************************)
(* The invariant.                                                          *)
(***************************************************************************)
LEMMA StepKeepsReliable == ReliableInv /\ [ReliableNext]_reliableVars => ReliableInv'
<1> SUFFICES ASSUME ReliableInv, [ReliableNext]_reliableVars PROVE ReliableInv'
  OBVIOUS
<1>1. CASE Send
  BY <1>1, SendKeeps
<1>2. CASE SendOutgoing
  <2>1. PICK timedOut \in SUBSET Among(sent), k \in 0 .. MaxQueued : SendPass(timedOut, k)
    BY <1>2 DEF SendOutgoing
  <2>2. k \in Nat
    BY <2>1, Parameters
  <2>3. QED
    BY <2>1, <2>2, SendPassKeeps
<1>3. CASE GiveUp
  BY <1>3, GiveUpKeeps
<1>4. ASSUME NEW n \in Packets, ReceiveData(n) PROVE ReliableInv'
  BY <1>4, ReceiveDataKeeps
<1>5. ASSUME NEW n \in Packets, ReceiveAck(n) PROVE ReliableInv'
  BY <1>5, ReceiveAckKeeps
<1>6. CASE \E n \in Packets : LoseData(n) \/ LoseAck(n)
  BY <1>6, LossKeeps
<1>7. CASE UNCHANGED reliableVars
  <2>1. /\ sentCount' = sentCount /\ outgoing' = outgoing /\ attempted' = attempted /\ sent' = sent
        /\ reliableWindows' = reliableWindows /\ incoming' = incoming /\ waiting' = waiting
        /\ received' = received /\ data' = data /\ acks' = acks /\ open' = open
    BY <1>7 DEF reliableVars, senderVars, receiverVars
  <2>2. Unacknowledged' = Unacknowledged
    BY <2>1 DEF Unacknowledged, Among
  <2>3. PlainTypes' /\ Attempts'
    BY <2>1 DEF ReliableInv, PlainTypes, Attempts, Among
  <2>4. Queues'
    <3>1. Queues
      BY DEF ReliableInv
    <3>2. QED
      BY <2>1, <3>1 DEF Queues, Among, NoDuplicates
  <2>5. WindowSpan' /\ WindowsAgree' /\ ForgottenIsReceived'
    BY <2>1, <2>2 DEF ReliableInv, WindowSpan, WindowsAgree, ForgottenIsReceived, Among
  <2>6. ReceivedInOrder' /\ NearlyReceived' /\ Datagrams'
    BY <2>1 DEF ReliableInv, ReceivedInOrder, NearlyReceived, Datagrams
  <2>7. QED
    BY <2>3, <2>4, <2>5, <2>6 DEF ReliableInv
<1>8. QED
  BY <1>1, <1>2, <1>3, <1>4, <1>5, <1>6, <1>7 DEF ReliableNext

LEMMA AlwaysReliable == ReliableSpec => []ReliableInv
<1>1. ReliableInit => ReliableInv
  BY InitReliable
<1>2. ReliableInv /\ [ReliableNext]_reliableVars => ReliableInv'
  BY StepKeepsReliable
<1>3. QED
  BY <1>1, <1>2, PTL DEF ReliableSpec

(***************************************************************************)
(* What the runs check, for every instance.                                *)
(***************************************************************************)
\* Unacknowledged packets with one window are in one frame.
LEMMA SameFrame ==
    ASSUME ReliableInv, NEW m \in Unacknowledged, NEW n \in Unacknowledged,
           WindowOf(SeqNo(m)) = WindowOf(SeqNo(n))
    PROVE  Frame(m) = Frame(n)
<1>1. Unacknowledged \subseteq attempted
  BY DEF Unacknowledged, ReliableInv, Queues
<1>2. m \in Nat /\ n \in Nat
  BY <1>1 DEF ReliableInv, Attempts, PlainTypes
<1> PICK c \in Nat \ {0} : c = Windows
  BY Parameters
<1> PICK f \in Nat, g \in Nat : f = Frame(m) /\ g = Frame(n)
  BY <1>2, Frames
<1>3. f < g + c /\ g < f + c
  <2>1. Frame(n) <= Frame(m) + FreeWindows - 2 /\ Frame(m) <= Frame(n) + FreeWindows - 2
    BY <1>1 DEF ReliableInv, WindowSpan
  <2>2. QED
    BY <2>1, Parameters
<1>4. f % c = g % c
  BY <1>2, Frames
<1>5. PICK p \in Nat, q \in Nat, r \in 0 .. c - 1 : f = c * p + r /\ g = c * q + r
  <2>1. f \div c \in Nat /\ f % c \in 0 .. c - 1 /\ f = (c * (f \div c)) + (f % c)
    BY Quotient
  <2>2. g \div c \in Nat /\ g = (c * (g \div c)) + (g % c)
    BY Quotient
  <2>3. QED
    BY <1>4, <2>1, <2>2
<1>6. PICK u \in Int, v \in Int : u = c * p /\ v = c * q
  OBVIOUS
<1>7. ~(p < q)
  <2> SUFFICES ASSUME p < q PROVE FALSE
    OBVIOUS
  <2>1. u + c <= v
    BY <1>6, Multiple
  <2>2. QED
    BY <1>3, <1>5, <1>6, <2>1
<1>8. ~(q < p)
  <2> SUFFICES ASSUME q < p PROVE FALSE
    OBVIOUS
  <2>1. v + c <= u
    BY <1>6, Multiple
  <2>2. QED
    BY <1>3, <1>5, <1>6, <2>1
<1>9. QED
  BY <1>5, <1>7, <1>8

\* A window counts no more packets than it has numbers.
LEMMA CountFits ==
    ASSUME ReliableInv, NEW w
    PROVE  Cardinality(InWindow(Unacknowledged, w)) \in 0 .. WindowSize
<1> DEFINE S == InWindow(Unacknowledged, w)
<1>1. Unacknowledged \subseteq attempted
  BY DEF Unacknowledged, ReliableInv, Queues
<1>2. attempted \subseteq Nat /\ attempted \subseteq Packets
  <2>1. attempted \subseteq 1 .. sentCount /\ sentCount \in 0 .. MaxPackets
    BY DEF ReliableInv, Attempts, PlainTypes
  <2>2. QED
    BY <2>1, Parameters DEF Packets
<1>3. IsFiniteSet(S)
  <2>1. Unacknowledged \subseteq Packets
    BY <1>1, <1>2
  <2>2. QED
    BY <2>1, FinitePackets
<1>4. CASE S = {}
  <2>1. Cardinality(S) = 0
    BY <1>3, <1>4, FS_EmptySet
  <2>2. QED
    BY <2>1, Parameters
<1>5. CASE S # {}
  <2>1. PICK n \in S : TRUE
    BY <1>5
  <2>2. n \in Unacknowledged /\ n \in Nat /\ WindowOf(SeqNo(n)) = w
    BY <1>1, <1>2, <2>1 DEF InWindow
  <2> PICK d \in Nat \ {0} : d = WindowSize
    BY Parameters
  <2> PICK f \in Nat : f = Frame(n)
    BY <2>2, Frames
  <2>3. PICK a \in Int, b \in Int : a = d * f - Earlier /\ b = a + (d - 1)
    BY Parameters
  <2>4. S \subseteq a .. b
    <3> SUFFICES ASSUME NEW m \in S PROVE m \in a .. b
      OBVIOUS
    <3>1. m \in Unacknowledged /\ m \in Nat /\ WindowOf(SeqNo(m)) = w
      BY <1>1, <1>2 DEF InWindow
    <3>2. Frame(m) = f
      BY <2>2, <3>1, SameFrame
    <3>3. PICK x \in Nat : x = Earlier + m
      BY <3>1, Parameters
    <3>4. x % d \in 0 .. d - 1 /\ x = (d * (x \div d)) + (x % d)
      BY Quotient
    <3>5. x \div d = f
      BY <3>2, <3>3 DEF Frame
    <3>6. PICK r \in 0 .. d - 1 : x = d * f + r
      BY <3>4, <3>5
    <3>7. PICK u \in Int : u = d * f
      OBVIOUS
    <3>8. QED
      BY <2>3, <3>1, <3>3, <3>6, <3>7, Parameters
  <2>5. IsFiniteSet(a .. b) /\ Cardinality(a .. b) = (IF a > b THEN 0 ELSE b - a + 1)
    BY FS_Interval
  <2>6. Cardinality(a .. b) = d
    BY <2>3, <2>5
  <2>7. Cardinality(S) <= d
    BY <2>4, <2>5, <2>6, FS_Subset
  <2>8. Cardinality(S) \in Nat
    BY <1>3, FS_CardinalityType
  <2>9. QED
    BY <2>7, <2>8
<1>6. QED
  BY <1>4, <1>5

\* Every variable keeps its type; in particular, no window of reliableWindows counts more
\* packets than it has numbers, and only what the receiver's windows admit waits.
THEOREM ReliableTypeCorrect == ReliableSpec => []ReliableTypeOK
<1>1. ReliableInv => ReliableTypeOK
  <2> SUFFICES ASSUME ReliableInv PROVE ReliableTypeOK
    OBVIOUS
  <2>1. /\ sentCount \in 0 .. MaxPackets
        /\ outgoing \in Seq(Packets) /\ sent \in Seq(Packets) /\ received \in Seq(Packets)
        /\ open \in BOOLEAN
    BY DEF ReliableInv, PlainTypes
  <2>2. attempted \subseteq Packets
    <3>1. attempted \subseteq 1 .. sentCount
      BY DEF ReliableInv, Attempts
    <3>2. QED
      BY <2>1, <3>1, Parameters DEF Packets
  <2>3. waiting \subseteq Packets /\ data \subseteq Packets /\ acks \subseteq Packets
    BY <2>2 DEF ReliableInv, ReceivedInOrder, Datagrams
  <2>4. incoming \in 0 .. SeqNos - 1
    <3>1. incoming = SeqNo(Len(received)) /\ Len(received) \in Nat
      BY <2>1 DEF ReliableInv, ReceivedInOrder
    <3>2. QED
      BY <3>1, Frames
  <2>5. reliableWindows \in [0 .. Windows - 1 -> 0 .. WindowSize]
    <3>1. reliableWindows \in [0 .. Windows - 1 -> Nat]
      BY DEF ReliableInv, PlainTypes
    <3>2. ASSUME NEW w \in 0 .. Windows - 1 PROVE reliableWindows[w] \in 0 .. WindowSize
      <4>1. CASE open
        <5>1. reliableWindows[w] = Cardinality(InWindow(Unacknowledged, w))
          BY <4>1 DEF ReliableInv, WindowsAgree, InWindow
        <5>2. QED
          BY <5>1, CountFits
      <4>2. CASE ~open
        <5>1. reliableWindows[w] = 0
          BY <4>2 DEF ReliableInv, PlainTypes, NoCounts
        <5>2. QED
          BY <5>1, Parameters
      <4>3. QED
        BY <4>1, <4>2
    <3>3. QED
      BY <3>1, <3>2
  <2>6. QED
    BY <2>1, <2>2, <2>3, <2>4, <2>5 DEF ReliableTypeOK
<1>2. QED
  BY <1>1, AlwaysReliable, PTL

\* The sender forgets a packet only when the receiver has it, whatever is lost, duplicated
\* or delayed and however often the numbers wrap.
THEOREM ForgetsOnlyReceived == ReliableSpec => []ForgottenIsReceived
<1>1. ReliableInv => ForgottenIsReceived
  BY DEF ReliableInv
<1>2. QED
  BY <1>1, AlwaysReliable, PTL

\* The windows count exactly the packets that were sent and not acknowledged.
THEOREM WindowsCountUnacknowledged == ReliableSpec => []WindowsAgree
<1>1. ReliableInv => WindowsAgree
  BY DEF ReliableInv
<1>2. QED
  BY <1>1, AlwaysReliable, PTL

\* A duplicate of an old packet never waits in place of the packet that has its number next.
THEOREM WaitsForLater == ReliableSpec => []WaitingIsAhead
<1>1. ReliableInv => WaitingIsAhead
  <2> SUFFICES ASSUME ReliableInv, NEW n \in waiting PROVE n \in Len(received) + 1 .. sentCount
    BY DEF WaitingIsAhead
  <2>1. Len(received) \in Nat /\ sentCount \in Nat
    BY DEF ReliableInv, PlainTypes
  <2>2. n \in 1 .. sentCount /\ n > Len(received) + 1
    BY DEF ReliableInv, ReceivedInOrder, Attempts
  <2>3. QED
    BY <2>1, <2>2
<1>2. QED
  BY <1>1, AlwaysReliable, PTL

\* ENet delivers each reliable packet once and in order: every step of the two peers and
\* of the network is a step of the channel, or leaves the channel as it is.
THEOREM DeliversInOrder == ReliableSpec => ImplementsChannel
<1> USE DEF Channel!SendPacket, Channel!ReceivePackets, Channel!End, Channel!channelVars
<1>1. ReliableInit => Channel!ChannelInit
  BY DEF ReliableInit, Channel!ChannelInit
<1>2. ASSUME ReliableInv, ReliableInv', [ReliableNext]_reliableVars
      PROVE  [Channel!SendPacket \/ Channel!ReceivePackets \/ Channel!End]_(Channel!channelVars)
  <2>1. CASE Send
    BY <2>1 DEF Send, receiverVars
  <2>2. CASE SendOutgoing
    BY <2>2 DEF SendOutgoing, SendPass, receiverVars
  <2>3. CASE GiveUp
    BY <2>3 DEF GiveUp, receiverVars
  <2>4. ASSUME NEW n \in Packets, ReceiveData(n)
        PROVE  Channel!ReceivePackets \/ UNCHANGED Channel!channelVars
    <3>1. PICK l : l = Len(received)
      OBVIOUS
    <3>2. PICK k : k = Len(received')
      OBVIOUS
    <3>3. sentCount' = sentCount /\ open' = open
      BY <2>4 DEF ReceiveData, senderVars
    <3>4. l \in Nat /\ received = [i \in 1 .. l |-> i]
      BY <1>2, <3>1 DEF ReliableInv, PlainTypes, ReceivedInOrder
    <3>5. k \in Nat /\ received' = [i \in 1 .. k |-> i] /\ (k > 0 => k \in attempted')
      BY <1>2, <3>2 DEF ReliableInv, PlainTypes, ReceivedInOrder
    <3>6. l <= k
      <4>1. PICK j \in Nat : received' = received \o Following(l, j)
        BY <1>2, <2>4, <3>1, ReceiveDataDelivers
      <4>2. Len(Following(l, j)) = j /\ received \in Seq(Packets)
        BY <1>2, <3>4, FollowingPackets DEF ReliableInv, PlainTypes
      <4>3. Following(l, j) \in Seq(Nat)
        BY <3>4 DEF Following
      <4>4. k = l + j
        BY <3>1, <3>2, <4>1, <4>2, <4>3
      <4>5. QED
        BY <3>4, <4>4
    <3>7. k <= sentCount
      <4>1. attempted' \subseteq 1 .. sentCount' /\ sentCount \in Nat
        BY <1>2 DEF ReliableInv, PlainTypes, Attempts
      <4>2. QED
        BY <3>3, <3>5, <4>1
    <3>8. CASE k = l
      BY <3>3, <3>4, <3>5, <3>8
    <3>9. CASE k > l
      <4>1. k \in l + 1 .. sentCount
        BY <1>2, <3>4, <3>5, <3>7, <3>9 DEF ReliableInv, PlainTypes
      <4>2. QED
        BY <3>1, <3>3, <3>5, <4>1
    <3>10. QED
      BY <3>4, <3>5, <3>6, <3>8, <3>9
  <2>5. ASSUME NEW n \in Packets, ReceiveAck(n) PROVE UNCHANGED Channel!channelVars
    BY <2>5 DEF ReceiveAck, receiverVars
  <2>6. ASSUME NEW n \in Packets, LoseData(n) \/ LoseAck(n) PROVE UNCHANGED Channel!channelVars
    BY <2>6 DEF LoseData, LoseAck, senderVars, receiverVars
  <2>7. CASE UNCHANGED reliableVars
    BY <2>7 DEF reliableVars, senderVars, receiverVars
  <2>8. QED
    BY <1>2, <2>1, <2>2, <2>3, <2>4, <2>5, <2>6, <2>7 DEF ReliableNext
<1>3. QED
  BY <1>1, <1>2, AlwaysReliable, PTL DEF ReliableSpec, ImplementsChannel, Channel!ChannelSpec
===============================================================================

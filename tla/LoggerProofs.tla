------------------------------ MODULE LoggerProofs ------------------------------
(***************************************************************************)
(* Proofs about Logger, for any number of writers and messages.            *)
(***************************************************************************)
EXTENDS Logger, DataLemmas

(***************************************************************************)
(* Where start and stop are says what there is: while they replace the     *)
(* queue no thread is there to see it, and running follows them.           *)
(***************************************************************************)
CallerPhases ==
    /\ running \in BOOLEAN /\ made \in BOOLEAN
    /\ caller \in {"make", "spawn"} => running
    /\ caller \in {"join", "reset"} => ~running
    /\ caller \in {"make", "spawn", "reset"} => thread = "none"
    /\ caller = "make" => ~made
    /\ caller = "spawn" => made
    /\ caller = "idle" /\ ~running => thread = "none" /\ ~made

\* The thread leaves its first loop only after running has been cleared.
DrainsAfterStop == thread \in {"drain", "ended"} => ~running

NoQueueNoMessages == ~made => queue = <<>>

LoggerInv == CallerPhases /\ DrainsAfterStop /\ NoQueueNoMessages /\ ThreadHasQueue

LEMMA InitLogger == LoggerInit => LoggerInv
  BY DEF LoggerInit, LoggerInv, CallerPhases, DrainsAfterStop, NoQueueNoMessages,
         ThreadHasQueue

\* The log functions only add to a queue that exists.
LEMMA WritersKeepInv ==
    ASSUME LoggerInv, NEW w \in Writers, Log(w) \/ Push(w) PROVE LoggerInv'
<1>1. /\ UNCHANGED <<running, made, caller, thread>>
      /\ ~made => UNCHANGED queue
  BY DEF Log, Push, callerVars, threadVars
<1>2. QED
  BY <1>1 DEF LoggerInv, CallerPhases, DrainsAfterStop, NoQueueNoMessages, ThreadHasQueue

\* The logger's thread touches the queue only while there is one.
LEMMA ThreadKeepsInv == ASSUME LoggerInv, LoggerThread PROVE LoggerInv'
<1>1. /\ UNCHANGED <<running, made, caller>>
      /\ made /\ thread # "none"
  BY DEF LoggerThread, Test, Look, PrintMessage, Drain, Thread, callerVars, LoggerInv,
         ThreadHasQueue
<1>2. thread' # "none"
  BY DEF LoggerThread, Test, Look, PrintMessage, Drain, Thread
<1>3. thread' \in {"drain", "ended"} => ~running
  BY DEF LoggerThread, Test, Look, PrintMessage, Drain, Thread, LoggerInv, DrainsAfterStop
<1>4. QED
  BY <1>1, <1>2, <1>3
  DEF LoggerInv, CallerPhases, DrainsAfterStop, NoQueueNoMessages, ThreadHasQueue

LEMMA CallerKeepsInv == ASSUME LoggerInv, Start \/ Stop \/ Calls PROVE LoggerInv'
<1> USE DEF Caller, threadVars, writerVars, LoggerInv, CallerPhases, DrainsAfterStop,
            NoQueueNoMessages, ThreadHasQueue
<1>1. CASE Start
  BY <1>1 DEF Start
<1>2. CASE Stop
  BY <1>2 DEF Stop
<1>3. CASE MakeQueue
  BY <1>3 DEF MakeQueue
<1>4. CASE Spawn
  BY <1>4 DEF Spawn
<1>5. CASE Join
  BY <1>5 DEF Join
<1>6. CASE ResetQueue
  BY <1>6 DEF ResetQueue
<1>7. QED
  BY <1>1, <1>2, <1>3, <1>4, <1>5, <1>6 DEF Calls

LEMMA StepLogger == LoggerInv /\ [LoggerNext]_loggerVars => LoggerInv'
<1>1. CASE UNCHANGED loggerVars
  BY <1>1 DEF loggerVars, LoggerInv, CallerPhases, DrainsAfterStop, NoQueueNoMessages,
              ThreadHasQueue
<1>2. QED
  BY <1>1, WritersKeepInv, ThreadKeepsInv, CallerKeepsInv DEF LoggerNext

\* Where the caller and the thread are says whether there is a queue and who may use it.
THEOREM LoggerInvariant == LoggerSpec => []LoggerInv
  BY InitLogger, StepLogger, PTL DEF LoggerSpec

\* The logger's thread never finds its queue gone, however often the logger is
\* started and stopped and whoever logs meanwhile.
THEOREM QueueOutlivesThread == LoggerSpec => []ThreadHasQueue
<1>1. LoggerInv => ThreadHasQueue
  BY DEF LoggerInv
<1>2. QED
  BY <1>1, LoggerInvariant, PTL

(***************************************************************************)
(* What loses a message: the second loop of the thread, and the end of the *)
(* queue.  The queue that start replaces is empty.                         *)
(***************************************************************************)
LEMMA StepLoses ==
    LoggerInv /\ [LoggerNext]_loggerVars => UNCHANGED <<deleted, leaked>> \/ ~running
<1> SUFFICES ASSUME LoggerInv, [LoggerNext]_loggerVars, running
             PROVE  UNCHANGED <<deleted, leaked>>
  OBVIOUS
<1>1. ASSUME NEW w \in Writers, Log(w) \/ Push(w)
      PROVE  UNCHANGED <<deleted, leaked>>
  BY <1>1 DEF Log, Push, callerVars, threadVars
<1>2. CASE LoggerThread
  BY <1>2 DEF LoggerThread, Test, Look, PrintMessage, Drain, Thread, callerVars,
              LoggerInv, DrainsAfterStop
<1>3. CASE Start \/ Stop \/ Spawn \/ Join
  BY <1>3 DEF Start, Stop, Spawn, Join, threadVars
<1>4. CASE MakeQueue
  <2>1. queue = <<>>
    BY <1>4 DEF MakeQueue, Caller, LoggerInv, CallerPhases, NoQueueNoMessages
  <2>2. ToSet(queue) = {}
    BY <2>1 DEF ToSet
  <2>3. QED
    BY <1>4, <2>2 DEF MakeQueue, threadVars
<1>5. CASE ResetQueue
  BY <1>5 DEF ResetQueue, Caller, LoggerInv, CallerPhases
<1>6. CASE UNCHANGED loggerVars
  BY <1>6 DEF loggerVars
<1>7. QED
  BY <1>1, <1>2, <1>3, <1>4, <1>5, <1>6 DEF LoggerNext, Calls

\* A message that has been queued is lost only once stop has been called.
THEOREM LossesAreStops == LoggerSpec => LostOnlyByStop
<1>1. LoggerInv /\ [LoggerNext]_loggerVars
        => [UNCHANGED <<deleted, leaked>> \/ ~running]_loggerVars
  BY StepLoses
<1>2. QED
  BY <1>1, LoggerInvariant, PTL DEF LoggerSpec, LostOnlyByStop

(***************************************************************************)
(* The order of what is printed.  What is in the queue was pushed last;    *)
(* what has left it was pushed before; and what is at hand was pushed      *)
(* after all that has been printed.                                        *)
(***************************************************************************)
\* How many of the pushed messages have left the queue.
Taken == Len(pushed) - Len(queue)

\* What has been printed was pushed before the message in place h.
OutBefore(h) == \A i \in 1 .. Len(pushed) : pushed[i] \in Among(printed) => i < h

\* A writer pushes each of its messages once.
Numbered ==
    /\ NoDuplicates(pushed)
    /\ \A w \in Writers : writer[w] = "push" => logged[w] >= 1
    /\ \A m \in Among(pushed) :
          m[2] <= logged[m[1]] /\ (writer[m[1]] = "push" => m[2] < logged[m[1]])

QueuedLast ==
    /\ Len(queue) <= Len(pushed)
    /\ \A k \in 1 .. Len(queue) : queue[k] = pushed[Taken + k]

OutFirst ==
    /\ OutBefore(Taken + 1)
    /\ hand # NoMessage => \E h \in 1 .. Taken : pushed[h] = hand /\ OutBefore(h)

PrintInv == LoggerTypeOK /\ Numbered /\ QueuedLast /\ OutFirst /\ PrintedInOrder

LEMMA InitPrint == LoggerInit => PrintInv
<1> SUFFICES ASSUME LoggerInit PROVE PrintInv
  OBVIOUS
<1>1. queue = <<>> /\ pushed = <<>> /\ printed = <<>> /\ hand = NoMessage
  BY DEF LoggerInit
<1>2. Among(<<>>) = {} /\ NoDuplicates(<<>>)
  BY AmongEmpty
<1>3. <<>> \in Seq(Messages) /\ Len(<<>>) = 0
  OBVIOUS
<1>4. LoggerTypeOK
  <2>1. logged \in [Writers -> 0 .. MaxMessages] /\ writer \in [Writers -> {"idle", "push"}]
    BY LoggerAssumption DEF LoggerInit
  <2>2. (hand # NoMessage) = (thread = "print")
    BY DEF LoggerInit
  <2>3. running \in BOOLEAN /\ made \in BOOLEAN
    BY DEF LoggerInit
  <2>4. queue \in Seq(Messages) /\ pushed \in Seq(Messages) /\ printed \in Seq(Messages)
    BY <1>1, <1>3
  <2>5. QED
    BY <2>1, <2>2, <2>3, <2>4 DEF LoggerInit, LoggerTypeOK
<1>5. Numbered
  BY <1>1, <1>2 DEF LoggerInit, Numbered
<1>6. QueuedLast /\ OutFirst
  BY <1>1, <1>3 DEF QueuedLast, OutFirst, OutBefore
<1>7. PrintedInOrder
  <2>1. Those(<<>>, {}) \in Seq(Messages) /\ Among(Those(<<>>, {})) = {}
    BY <1>2, <1>3, ThoseProperties
  <2>2. Those(<<>>, {}) = <<>>
    <3> PICK t \in Seq(Messages) : t = Those(<<>>, {}) /\ Among(t) = {}
      BY <2>1
    <3>1. Len(t) = 0
      <4>1. Len(t) \in Nat /\ \A k \in 1 .. Len(t) : t[k] \in Among(t)
        BY DEF Among
      <4>2. QED
        BY <4>1
    <3>2. QED
      BY <3>1
  <2>3. QED
    BY <1>1, <1>2, <2>2 DEF PrintedInOrder
<1>8. QED
  BY <1>4, <1>5, <1>6, <1>7 DEF PrintInv

LEMMA PrintedArePushed ==
    ASSUME PrintInv
    PROVE  /\ Among(printed) \subseteq Among(pushed)
           /\ Len(queue) \in Nat /\ Len(pushed) \in Nat /\ Taken \in 0 .. Len(pushed)
<1>1. pushed \in Seq(Messages) /\ queue \in Seq(Messages)
  BY DEF PrintInv, LoggerTypeOK
<1>2. Among(Those(pushed, Among(printed))) = Among(pushed) \cap Among(printed)
  BY <1>1, ThoseProperties
<1>3. QED
  BY <1>1, <1>2 DEF PrintInv, PrintedInOrder, QueuedLast, Taken

\* What does not touch what is printed, pushed and at hand may only shorten the queue.
LEMMA TakenKeeps ==
    ASSUME PrintInv, LoggerTypeOK', Numbered', QueuedLast', Taken' \in Int, Taken <= Taken',
           UNCHANGED <<pushed, printed>>, hand' \in {hand, NoMessage}
    PROVE  PrintInv'
<1>1. Among(printed)' = Among(printed)
  BY DEF Among
<1>2. Taken \in Int
  BY PrintedArePushed
<1>3. ASSUME NEW h \in Int, NEW g \in Int, h <= g, OutBefore(h) PROVE OutBefore(g)'
  BY <1>1, <1>3 DEF OutBefore
<1>4. OutBefore(Taken + 1)'
  BY <1>2, <1>3 DEF PrintInv, OutFirst
<1>5. ASSUME hand' # NoMessage PROVE \E h \in 1 .. Taken' : pushed'[h] = hand' /\ OutBefore(h)'
  <2>1. PICK h \in 1 .. Taken : pushed[h] = hand /\ OutBefore(h)
    BY <1>5 DEF PrintInv, OutFirst
  <2>2. h \in 1 .. Taken' /\ OutBefore(h)'
    BY <1>2, <1>3, <2>1
  <2>3. QED
    BY <1>5, <2>1, <2>2
<1>6. PrintedInOrder'
  BY <1>1 DEF PrintInv, PrintedInOrder
<1>7. QED
  BY <1>4, <1>5, <1>6 DEF PrintInv, OutFirst

LEMMA PushPrints ==
    ASSUME PrintInv, NEW w \in Writers, Push(w)
    PROVE  PrintInv'
<1> USE DEF PrintInv
<1>1. UNCHANGED <<running, made, caller, leaked, thread, hand, printed, deleted, logged>>
  BY DEF Push, callerVars, threadVars
<1>2. CASE ~made
  <2>1. UNCHANGED <<queue, pushed, writer>> /\ fault' = "queue"
    BY <1>2 DEF Push
  <2>2. LoggerTypeOK'
    BY <1>1, <2>1 DEF LoggerTypeOK
  <2>3. Numbered' /\ QueuedLast' /\ Taken' = Taken
    BY <1>1, <2>1 DEF Numbered, QueuedLast, Taken, Among, NoDuplicates
  <2>4. QED
    BY <1>1, <2>1, <2>2, <2>3, PrintedArePushed, TakenKeeps
<1>3. CASE made
  <2> PICK m : m = <<w, logged[w]>>
    OBVIOUS
  <2>1. /\ queue' = Append(queue, m) /\ pushed' = Append(pushed, m)
        /\ writer' = [writer EXCEPT ![w] = "idle"] /\ writer[w] = "push" /\ UNCHANGED fault
    BY <1>3 DEF Push
  <2>2. pushed \in Seq(Messages) /\ queue \in Seq(Messages) /\ m \in Messages /\ m[1] = w /\ m[2] = logged[w]
    <3>1. logged[w] \in 0 .. MaxMessages /\ logged[w] >= 1
      BY <2>1 DEF LoggerTypeOK, Numbered
    <3>2. logged[w] \in 1 .. MaxMessages
      BY <3>1, LoggerAssumption
    <3>3. QED
      BY <3>2 DEF LoggerTypeOK, Messages
  <2>3. m \notin Among(pushed)
    <3> SUFFICES ASSUME m \in Among(pushed) PROVE FALSE
      OBVIOUS
    <3>1. m[2] < logged[w]
      BY <2>1, <2>2 DEF Numbered
    <3>2. logged[w] \in Nat
      BY LoggerAssumption DEF LoggerTypeOK
    <3>3. QED
      BY <2>2, <3>1, <3>2
  <2>4. /\ pushed' \in Seq(Messages) /\ queue' \in Seq(Messages)
        /\ Among(pushed') = Among(pushed) \cup {m} /\ NoDuplicates(pushed')
    BY <2>1, <2>2, <2>3, AmongAppend DEF Numbered
  <2>5. LoggerTypeOK'
    <3>1. writer' \in [Writers -> {"idle", "push"}]
      BY <2>1 DEF LoggerTypeOK
    <3>2. QED
      BY <1>1, <2>1, <2>4, <3>1 DEF LoggerTypeOK
  <2>6. Numbered'
    <3>1. \A v \in Writers : writer'[v] = "push" => v # w /\ writer[v] = "push"
      BY <2>1 DEF LoggerTypeOK
    <3>2. \A v \in Writers : logged[v] \in Nat
      BY LoggerAssumption DEF LoggerTypeOK
    <3>3. ASSUME NEW x \in Among(pushed')
          PROVE  x[2] <= logged[x[1]] /\ (writer'[x[1]] = "push" => x[2] < logged[x[1]])
      <4>1. CASE x = m
        BY <2>2, <3>1, <3>2, <4>1
      <4>2. CASE x \in Among(pushed)
        <5>1. x[1] \in Writers
          BY <2>2, <4>2 DEF Among, Messages
        <5>2. QED
          BY <3>1, <4>2, <5>1 DEF Numbered
      <4>3. QED
        BY <2>4, <3>3, <4>1, <4>2
    <3>4. Among(pushed)' = Among(pushed') /\ NoDuplicates(pushed)' = NoDuplicates(pushed')
      BY DEF Among, NoDuplicates
    <3>5. \A v \in Writers : writer'[v] = "push" => logged[v] >= 1
      BY <3>1 DEF Numbered
    <3>6. QED
      BY <1>1, <2>4, <3>3, <3>4, <3>5 DEF Numbered
  <2>7. /\ Len(pushed') = Len(pushed) + 1 /\ Len(queue') = Len(queue) + 1
        /\ \A k \in 1 .. Len(pushed) : pushed'[k] = pushed[k]
        /\ pushed'[Len(pushed) + 1] = m
        /\ \A k \in 1 .. Len(queue) : queue'[k] = queue[k]
        /\ queue'[Len(queue) + 1] = m
    BY <2>1, <2>2
  <2>8. Len(queue) \in Nat /\ Len(pushed) \in Nat /\ Taken \in 0 .. Len(pushed) /\ Taken' = Taken
    BY <2>7, PrintedArePushed DEF Taken
  <2>9. QueuedLast'
    <3>1. Len(queue') <= Len(pushed')
      BY <2>7, <2>8 DEF QueuedLast
    <3>2. ASSUME NEW k \in 1 .. Len(queue') PROVE queue'[k] = pushed'[Taken + k]
      <4>1. CASE k \in 1 .. Len(queue)
        <5>1. Taken + k \in 1 .. Len(pushed)
          BY <2>8, <4>1 DEF Taken
        <5>2. QED
          BY <2>7, <4>1, <5>1 DEF QueuedLast
      <4>2. CASE k = Len(queue) + 1
        <5>1. Taken + k = Len(pushed) + 1
          BY <2>8, <4>2 DEF Taken
        <5>2. QED
          BY <2>7, <4>2, <5>1
      <4>3. QED
        BY <2>7, <2>8, <4>1, <4>2
    <3>3. QED
      BY <2>8, <3>1, <3>2 DEF QueuedLast
  <2>10. m \notin Among(printed)
    BY <2>3, PrintedArePushed
  <2>11. ASSUME NEW h, OutBefore(h) PROVE OutBefore(h)'
    <3> SUFFICES ASSUME NEW i \in 1 .. Len(pushed'), pushed'[i] \in Among(printed) PROVE i < h
      BY <1>1 DEF OutBefore, Among
    <3>1. i \in 1 .. Len(pushed)
      BY <2>7, <2>8, <2>10
    <3>2. QED
      BY <2>7, <2>11, <3>1 DEF OutBefore
  <2>12. OutFirst'
    <3>1. OutBefore(Taken + 1)'
      BY <2>8, <2>11 DEF OutFirst, OutBefore
    <3>2. ASSUME hand # NoMessage PROVE \E h \in 1 .. Taken : pushed'[h] = hand /\ OutBefore(h)'
      <4>1. PICK h \in 1 .. Taken : pushed[h] = hand /\ OutBefore(h)
        BY <3>2 DEF OutFirst
      <4>2. pushed'[h] = hand /\ OutBefore(h)'
        BY <2>7, <2>8, <2>11, <4>1
      <4>3. QED
        BY <4>2
    <3>3. QED
      BY <1>1, <2>8, <3>1, <3>2 DEF OutFirst
  <2>13. PrintedInOrder'
    <3>1. Those(pushed', Among(printed)) = Those(pushed, Among(printed))
      BY <2>1, <2>2, <2>10, ThoseAppend
    <3>2. QED
      BY <1>1, <3>1 DEF PrintedInOrder, Among
  <2>14. QED
    BY <2>5, <2>6, <2>9, <2>12, <2>13
<1>4. QED
  BY <1>2, <1>3

\* pop takes what was pushed first of what is in the queue.
LEMMA PopPrints ==
    ASSUME PrintInv, queue # <<>>, queue' = Tail(queue), UNCHANGED <<pushed, printed>>
    PROVE  /\ queue' \in Seq(Messages) /\ Head(queue) \in Messages
           /\ Taken' = Taken + 1 /\ Taken + 1 \in 1 .. Len(pushed)
           /\ Head(queue) = pushed[Taken + 1]
           /\ QueuedLast'
<1> USE DEF PrintInv
<1>1. queue \in Seq(Messages)
  BY DEF LoggerTypeOK
<1>2. /\ queue' \in Seq(Messages) /\ Head(queue) \in Messages /\ Head(queue) = queue[1]
      /\ Len(queue') = Len(queue) - 1 /\ Len(queue) >= 1
      /\ \A k \in 1 .. Len(queue) - 1 : queue'[k] = queue[k + 1]
  BY <1>1
<1>3. Len(queue) \in Nat /\ Len(pushed) \in Nat /\ Taken \in 0 .. Len(pushed)
  BY PrintedArePushed
<1>4. Taken' = Taken + 1 /\ Taken + 1 \in 1 .. Len(pushed)
  BY <1>2, <1>3 DEF Taken
<1>5. Head(queue) = pushed[Taken + 1]
  BY <1>2, <1>3 DEF QueuedLast
<1>6. ASSUME NEW k \in 1 .. Len(queue) - 1 PROVE queue'[k] = pushed[(Taken + 1) + k]
  <2>1. k + 1 \in 1 .. Len(queue) /\ Taken + (k + 1) = (Taken + 1) + k
    BY <1>3
  <2>2. queue'[k] = queue[k + 1] /\ queue[k + 1] = pushed[Taken + (k + 1)]
    BY <1>2, <2>1 DEF QueuedLast
  <2>3. QED
    BY <2>1, <2>2
<1>7. QueuedLast'
  BY <1>2, <1>3, <1>4, <1>6 DEF QueuedLast
<1>8. QED
  BY <1>2, <1>4, <1>5, <1>7

\* Steps that leave the messages where they are.
LEMMA ElsewherePrints ==
    ASSUME PrintInv, LoggerTypeOK', UNCHANGED <<queue, pushed, printed, writer, logged, hand>>
    PROVE  PrintInv'
<1>1. Numbered' /\ QueuedLast' /\ Taken' = Taken
  BY DEF PrintInv, Numbered, QueuedLast, Taken, Among, NoDuplicates
<1>2. Taken \in Int
  BY PrintedArePushed
<1>3. QED
  BY <1>1, <1>2, TakenKeeps

LEMMA LogPrints == ASSUME PrintInv, NEW w \in Writers, Log(w) PROVE PrintInv'
<1> USE DEF PrintInv
<1>1. /\ UNCHANGED <<queue, pushed, printed, hand, thread, deleted, running, made, caller,
                     leaked, fault>>
      /\ logged' = [logged EXCEPT ![w] = logged[w] + 1] /\ logged[w] < MaxMessages
      /\ writer' = (IF made THEN [writer EXCEPT ![w] = "push"] ELSE writer) /\ writer[w] = "idle"
  BY DEF Log, callerVars, threadVars
<1>2. \A v \in Writers : logged[v] \in Nat
  BY LoggerAssumption DEF LoggerTypeOK
<1>3. /\ logged'[w] = logged[w] + 1
      /\ \A v \in Writers : v # w => logged'[v] = logged[v] /\ writer'[v] = writer[v]
  BY <1>1 DEF LoggerTypeOK
<1>4. LoggerTypeOK'
  <2>1. logged' \in [Writers -> 0 .. MaxMessages]
    <3>1. logged[w] + 1 \in 0 .. MaxMessages
      BY <1>1, <1>2, LoggerAssumption
    <3>2. QED
      BY <1>1, <3>1 DEF LoggerTypeOK
  <2>2. writer' \in [Writers -> {"idle", "push"}]
    BY <1>1 DEF LoggerTypeOK
  <2>3. QED
    BY <1>1, <2>1, <2>2 DEF LoggerTypeOK
<1>5. Numbered'
  <2>1. ASSUME NEW m \in Among(pushed)
        PROVE  m[2] <= logged'[m[1]] /\ (writer'[m[1]] = "push" => m[2] < logged'[m[1]])
    <3>1. pushed \in Seq(Messages)
      BY DEF LoggerTypeOK
    <3>2. m \in Messages
      BY <3>1 DEF Among
    <3>3. m[1] \in Writers /\ m[2] \in Nat
      BY <3>2 DEF Messages
    <3>4. m[2] <= logged[m[1]] /\ (writer[m[1]] = "push" => m[2] < logged[m[1]])
      BY DEF Numbered
    <3>5. CASE m[1] = w
      BY <1>2, <1>3, <3>3, <3>4, <3>5
    <3>6. CASE m[1] # w
      BY <1>3, <3>3, <3>4, <3>6
    <3>7. QED
      BY <3>5, <3>6
  <2>2. ASSUME NEW v \in Writers, writer'[v] = "push" PROVE logged'[v] >= 1
    <3>1. CASE v = w
      BY <1>2, <1>3, <3>1
    <3>2. CASE v # w
      BY <1>3, <2>2, <3>2 DEF Numbered
    <3>3. QED
      BY <3>1, <3>2
  <2>3. QED
    BY <1>1, <2>1, <2>2 DEF Numbered, Among, NoDuplicates
<1>6. QueuedLast' /\ Taken' = Taken
  BY <1>1 DEF QueuedLast, Taken
<1>7. QED
  BY <1>1, <1>4, <1>5, <1>6, PrintedArePushed, TakenKeeps

\* The message printed was pushed after all that has been printed before.
LEMMA PrintPrints == ASSUME PrintInv, PrintMessage PROVE PrintInv'
<1> USE DEF PrintInv
<1>1. /\ UNCHANGED <<running, made, caller, leaked, writer, logged, pushed, queue, deleted, fault>>
      /\ printed' = Append(printed, hand) /\ hand' = NoMessage
      /\ thread = "print" /\ thread' = "test"
  BY DEF PrintMessage, Thread, callerVars, writerVars
<1>2. hand \in Messages /\ hand # NoMessage /\ printed \in Seq(Messages) /\ pushed \in Seq(Messages)
  BY <1>1 DEF LoggerTypeOK
<1>3. PICK h \in 1 .. Taken : pushed[h] = hand /\ OutBefore(h)
  BY <1>2 DEF OutFirst
<1>4. Taken \in 0 .. Len(pushed) /\ Len(pushed) \in Nat /\ Taken' = Taken
  BY <1>1, PrintedArePushed DEF Taken
<1>5. h \in 1 .. Len(pushed)
  BY <1>3, <1>4
<1>6. printed' \in Seq(Messages) /\ Among(printed') = Among(printed) \cup {hand}
  BY <1>1, <1>2, AmongAppend
<1>7. LoggerTypeOK'
  BY <1>1, <1>6 DEF LoggerTypeOK
<1>8. Numbered' /\ QueuedLast'
  BY <1>1, <1>4 DEF Numbered, QueuedLast, Among, NoDuplicates
<1>9. OutFirst'
  <2>1. ASSUME NEW i \in 1 .. Len(pushed), pushed[i] \in Among(printed') PROVE i < Taken + 1
    <3>1. CASE pushed[i] = hand
      <4>1. i = h
        BY <1>3, <1>5, <3>1 DEF Numbered, NoDuplicates
      <4>2. QED
        BY <1>3, <1>4, <4>1
    <3>2. CASE pushed[i] \in Among(printed)
      BY <3>2 DEF OutFirst, OutBefore
    <3>3. QED
      BY <1>6, <2>1, <3>1, <3>2
  <2>2. QED
    BY <1>1, <1>4, <2>1 DEF OutFirst, OutBefore, Among
<1>10. PrintedInOrder'
  <2>1. Those(pushed, Among(printed) \cup {pushed[h]}) = Append(Those(pushed, Among(printed)), pushed[h])
    BY <1>2, <1>3, <1>5, ThoseLater DEF OutBefore, Numbered
  <2>2. QED
    BY <1>1, <1>3, <1>6, <2>1 DEF PrintedInOrder, Among
<1>11. QED
  BY <1>7, <1>8, <1>9, <1>10

LEMMA LookPrints == ASSUME PrintInv, Look PROVE PrintInv'
<1> USE DEF PrintInv
<1>1. UNCHANGED <<running, made, caller, leaked, writer, logged, pushed, printed, deleted, fault>>
      /\ thread = "look"
  BY DEF Look, Thread, callerVars, writerVars
<1>2. CASE queue # <<>> /\ hand' = Head(queue) /\ queue' = Tail(queue) /\ thread' = "print"
  <2>1. /\ queue' \in Seq(Messages) /\ hand' \in Messages
        /\ Taken' = Taken + 1 /\ Taken + 1 \in 1 .. Len(pushed)
        /\ hand' = pushed[Taken + 1]
        /\ QueuedLast'
    BY <1>1, <1>2, PopPrints
  <2>2. LoggerTypeOK'
    BY <1>1, <1>2, <2>1, LoggerAssumption DEF LoggerTypeOK, Messages
  <2>3. Numbered'
    BY <1>1 DEF Numbered, Among, NoDuplicates
  <2>4. Taken \in 0 .. Len(pushed) /\ Len(pushed) \in Nat
    BY PrintedArePushed
  <2>5. OutBefore(Taken + 1) /\ OutBefore(Taken + 2)
    BY <2>4 DEF OutFirst, OutBefore
  <2>6. OutFirst'
    <3>1. PICK t \in 1 .. Len(pushed) : t = Taken + 1
      BY <2>1
    <3>2. Taken' = t /\ hand' = pushed[t] /\ OutBefore(t) /\ OutBefore(t + 1)
      BY <2>1, <2>4, <2>5, <3>1
    <3>3. OutBefore(t)' /\ OutBefore(t + 1)'
      BY <1>1, <3>2 DEF OutBefore, Among
    <3>4. t \in 1 .. Taken' /\ pushed'[t] = hand'
      BY <1>1, <3>1, <3>2
    <3>5. OutBefore(Taken + 1)'
      BY <3>2, <3>3 DEF OutBefore
    <3>6. QED
      BY <3>3, <3>4, <3>5 DEF OutFirst
  <2>7. PrintedInOrder'
    BY <1>1 DEF PrintedInOrder, Among
  <2>8. QED
    BY <2>1, <2>2, <2>3, <2>6, <2>7
<1>3. CASE thread' = "test" /\ UNCHANGED <<hand, queue>>
  <2>1. LoggerTypeOK'
    BY <1>1, <1>3 DEF LoggerTypeOK
  <2>2. QED
    BY <1>1, <1>3, <2>1, ElsewherePrints
<1>4. QED
  BY <1>2, <1>3 DEF Look

LEMMA DrainPrints == ASSUME PrintInv, Drain PROVE PrintInv'
<1> USE DEF PrintInv
<1>1. UNCHANGED <<running, made, caller, leaked, writer, logged, pushed, printed, hand, fault>>
      /\ thread = "drain"
  BY DEF Drain, Thread, callerVars, writerVars
<1>2. CASE queue # <<>> /\ deleted' = deleted \cup {Head(queue)} /\ queue' = Tail(queue)
           /\ UNCHANGED thread
  <2>1. /\ queue' \in Seq(Messages) /\ Head(queue) \in Messages
        /\ Taken' = Taken + 1 /\ QueuedLast'
    BY <1>1, <1>2, PopPrints
  <2>2. LoggerTypeOK'
    <3>1. deleted' \subseteq Messages
      BY <1>2, <2>1 DEF LoggerTypeOK
    <3>2. QED
      BY <1>1, <1>2, <2>1, <3>1 DEF LoggerTypeOK
  <2>3. Numbered'
    BY <1>1 DEF Numbered, Among, NoDuplicates
  <2>4. Taken \in Int /\ Taken' \in Int /\ Taken <= Taken'
    BY <2>1, PrintedArePushed
  <2>5. QED
    BY <1>1, <2>1, <2>2, <2>3, <2>4, TakenKeeps
<1>3. CASE thread' = "ended" /\ UNCHANGED <<deleted, queue>>
  <2>1. LoggerTypeOK'
    BY <1>1, <1>3 DEF LoggerTypeOK
  <2>2. QED
    BY <1>1, <1>3, <2>1, ElsewherePrints
<1>4. QED
  BY <1>2, <1>3 DEF Drain

\* The end of a queue, with what it holds.
LEMMA EmptiedPrints ==
    ASSUME PrintInv, queue' = <<>>, leaked' = leaked \cup ToSet(queue), made' \in BOOLEAN,
           caller' \in {"spawn", "idle"},
           UNCHANGED <<thread, hand, printed, deleted, writer, logged, pushed, running, fault>>
    PROVE  PrintInv'
<1> USE DEF PrintInv
<1>1. queue \in Seq(Messages) /\ Len(<<>>) = 0 /\ <<>> \in Seq(Messages)
  BY DEF LoggerTypeOK
<1>2. leaked' \subseteq Messages
  BY <1>1 DEF LoggerTypeOK, ToSet
<1>3. LoggerTypeOK'
  BY <1>1, <1>2 DEF LoggerTypeOK
<1>4. Numbered'
  BY DEF Numbered, Among, NoDuplicates
<1>5. Taken' = Len(pushed) /\ Taken \in 0 .. Len(pushed) /\ Len(pushed) \in Nat
  BY <1>1, PrintedArePushed DEF Taken
<1>6. QueuedLast'
  BY <1>1, <1>5 DEF QueuedLast
<1>7. QED
  BY <1>3, <1>4, <1>5, <1>6, TakenKeeps

LEMMA StepPrint == PrintInv /\ [LoggerNext]_loggerVars => PrintInv'
<1> SUFFICES ASSUME PrintInv, [LoggerNext]_loggerVars PROVE PrintInv'
  OBVIOUS
<1>1. LoggerTypeOK
  BY DEF PrintInv
<1>2. ASSUME NEW w \in Writers, Log(w) PROVE PrintInv'
  BY <1>2, LogPrints
<1>3. ASSUME NEW w \in Writers, Push(w) PROVE PrintInv'
  BY <1>3, PushPrints
<1>4. CASE Test
  <2>1. LoggerTypeOK'
    BY <1>1, <1>4 DEF Test, Thread, callerVars, writerVars, LoggerTypeOK
  <2>2. QED
    BY <1>4, <2>1, ElsewherePrints DEF Test, callerVars, writerVars
<1>5. CASE Look \/ PrintMessage \/ Drain
  BY <1>5, LookPrints, PrintPrints, DrainPrints
<1>6. CASE MakeQueue
  BY <1>1, <1>6, EmptiedPrints DEF MakeQueue, threadVars, writerVars, LoggerTypeOK
<1>7. CASE ResetQueue
  BY <1>1, <1>7, EmptiedPrints DEF ResetQueue, threadVars, writerVars, LoggerTypeOK
<1>8. CASE Start \/ Stop
  <2>1. LoggerTypeOK'
    BY <1>1, <1>8 DEF Start, Stop, Caller, threadVars, writerVars, LoggerTypeOK
  <2>2. QED
    BY <1>8, <2>1, ElsewherePrints DEF Start, Stop, threadVars, writerVars
<1>9. CASE Spawn
  <2>1. LoggerTypeOK'
    BY <1>1, <1>9 DEF Spawn, Caller, writerVars, LoggerTypeOK
  <2>2. QED
    BY <1>9, <2>1, ElsewherePrints DEF Spawn, writerVars
<1>10. CASE Join
  <2>1. LoggerTypeOK'
    BY <1>1, <1>10 DEF Join, Caller, writerVars, LoggerTypeOK
  <2>2. QED
    BY <1>10, <2>1, ElsewherePrints DEF Join, writerVars
<1>11. CASE UNCHANGED loggerVars
  <2>1. LoggerTypeOK'
    BY <1>1, <1>11 DEF loggerVars, LoggerTypeOK
  <2>2. QED
    BY <1>11, <2>1, ElsewherePrints DEF loggerVars
<1>12. QED
  BY <1>2, <1>3, <1>4, <1>5, <1>6, <1>7, <1>8, <1>9, <1>10, <1>11
  DEF LoggerNext, LoggerThread, Calls

LEMMA AlwaysPrints == LoggerSpec => []PrintInv
  BY InitPrint, StepPrint, PTL DEF LoggerSpec

\* Every variable keeps its type; a message is at hand exactly while it is printed.
THEOREM LoggerTypeCorrect == LoggerSpec => []LoggerTypeOK
<1>1. PrintInv => LoggerTypeOK
  BY DEF PrintInv
<1>2. QED
  BY <1>1, AlwaysPrints, PTL

\* Messages are printed in the order in which they were queued, none twice, whichever
\* threads queue them and however often the logger is stopped and started again.
THEOREM PrintsInOrder == LoggerSpec => []PrintedInOrder
<1>1. PrintInv => PrintedInOrder
  BY DEF PrintInv
<1>2. QED
  BY <1>1, AlwaysPrints, PTL
===============================================================================

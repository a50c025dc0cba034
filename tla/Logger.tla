-------------------------------- MODULE Logger --------------------------------
(***************************************************************************)
(* Logger: any thread queues messages, one thread prints them.  start      *)
(* makes the queue and the thread, stop joins the thread and destroys the  *)
(* queue; both may be called again and again, here by one thread.          *)
(*                                                                         *)
(* Nothing orders the log functions and stop, so a log function takes two  *)
(* steps: it tests logQueue, and it pushes.                                *)
(***************************************************************************)
EXTENDS Naturals, SequencesExt, Lists

CONSTANTS
    Writers,     \* the threads that log
    MaxMessages, \* bound: how many messages a writer logs
    NoMessage

ASSUME LoggerAssumption ==
    /\ MaxMessages \in Nat
    /\ NoMessage \notin Writers \X (1 .. MaxMessages)

VARIABLES
    running,
    made,    \* logQueue is not null
    queue,   \* what logQueue holds
    thread,  \* what the logger's thread does next; "none" if it is not joinable
    hand,    \* the message it has popped
    writer,  \* what each writer does next
    logged,  \* the number of calls of each writer
    caller,  \* what the thread that calls start and stop does next
    fault,   \* "none", or what ended the process
    pushed,  \* history: the messages queued, in order
    printed, \* history: the messages printed, in order
    deleted, \* history: those deleted unprinted
    leaked   \* history: those destroyed with the queue

loggerVars == <<running, made, queue, thread, hand, writer, logged, caller, fault,
                pushed, printed, deleted, leaked>>
threadVars == <<thread, hand, printed, deleted>>
writerVars == <<writer, logged, pushed>>
callerVars == <<running, made, caller, leaked>>

Messages == Writers \X (1 .. MaxMessages)

LoggerInit ==
    /\ running = FALSE /\ made = FALSE
    /\ queue = <<>>
    /\ thread = "none"
    /\ hand = NoMessage
    /\ writer = [w \in Writers |-> "idle"]
    /\ logged = [w \in Writers |-> 0]
    /\ caller = "idle"
    /\ fault = "none"
    /\ pushed = <<>> /\ printed = <<>>
    /\ deleted = {} /\ leaked = {}

-------------------------------------------------------------------------------
(* The log functions.                                                      *)

\* error, warn, info, success, print: without a queue, false is returned.
Log(w) ==
    /\ fault = "none"
    /\ writer[w] = "idle"
    /\ logged[w] < MaxMessages
    /\ logged' = [logged EXCEPT ![w] = logged[w] + 1]
    /\ writer' = IF made THEN [writer EXCEPT ![w] = "push"] ELSE writer
    /\ UNCHANGED <<callerVars, threadVars, queue, fault, pushed>>

\* Mutant of Push: the message is put in front of those that wait.
PushInFront(w) ==
    /\ fault = "none"
    /\ writer[w] = "push"
    /\ made
    /\ queue' = <<<<w, logged[w]>>>> \o queue
    /\ pushed' = Append(pushed, <<w, logged[w]>>)
    /\ writer' = [writer EXCEPT ![w] = "idle"]
    /\ UNCHANGED fault
    /\ UNCHANGED <<callerVars, threadVars, logged>>

\* push, which reads logQueue anew.  The queue takes as many messages as there are:
\* queueSize is what it allocates at first.
Push(w) ==
    /\ fault = "none"
    /\ writer[w] = "push"
    /\ \/ /\ made
          /\ queue' = Append(queue, <<w, logged[w]>>)
          /\ pushed' = Append(pushed, <<w, logged[w]>>)
          /\ writer' = [writer EXCEPT ![w] = "idle"]
          /\ UNCHANGED fault
       \/ /\ ~made
          /\ fault' = "queue"
          /\ UNCHANGED <<queue, pushed, writer>>
    /\ UNCHANGED <<callerVars, threadVars, logged>>

-------------------------------------------------------------------------------
(* The logger's thread: process.                                           *)

Thread(step) == fault = "none" /\ thread = step

Test ==
    /\ Thread("test")
    /\ thread' = IF running THEN "look" ELSE "drain"
    /\ UNCHANGED <<callerVars, writerVars, queue, hand, printed, deleted, fault>>

\* Mutant of Look: the last message in the queue is not seen.
LookKeepsLast ==
    /\ Thread("look")
    /\ \/ /\ made /\ Len(queue) > 1
          /\ hand' = Head(queue)
          /\ queue' = Tail(queue)
          /\ thread' = "print"
       \/ /\ ~made \/ Len(queue) <= 1
          /\ thread' = "test"
          /\ UNCHANGED <<hand, queue>>
    /\ UNCHANGED <<callerVars, writerVars, printed, deleted, fault>>

\* The test of the queue, and pop.  Finding it empty the thread sleeps.
Look ==
    /\ Thread("look")
    /\ \/ /\ made /\ queue # <<>>
          /\ hand' = Head(queue)
          /\ queue' = Tail(queue)
          /\ thread' = "print"
       \/ /\ ~made \/ queue = <<>>
          /\ thread' = "test"
          /\ UNCHANGED <<hand, queue>>
    /\ UNCHANGED <<callerVars, writerVars, printed, deleted, fault>>

\* Mutant of PrintMessage: the message printed stays at hand.
PrintAndKeep ==
    /\ Thread("print")
    /\ printed' = Append(printed, hand)
    /\ thread' = "test"
    /\ UNCHANGED <<callerVars, writerVars, queue, hand, deleted, fault>>

PrintMessage ==
    /\ Thread("print")
    /\ printed' = Append(printed, hand)
    /\ hand' = NoMessage
    /\ thread' = "test"
    /\ UNCHANGED <<callerVars, writerVars, queue, deleted, fault>>

\* Mutant of Drain: the loop goes on as long as there is a queue.
DrainWhileMade ==
    /\ Thread("drain")
    /\ \/ /\ made /\ queue # <<>>
          /\ deleted' = deleted \cup {Head(queue)}
          /\ queue' = Tail(queue)
          /\ UNCHANGED thread
       \/ /\ ~made
          /\ thread' = "ended"
          /\ UNCHANGED <<deleted, queue>>
    /\ UNCHANGED <<callerVars, writerVars, hand, printed, fault>>

\* What is left when running is no longer set is deleted, not printed.
Drain ==
    /\ Thread("drain")
    /\ \/ /\ made /\ queue # <<>>
          /\ deleted' = deleted \cup {Head(queue)}
          /\ queue' = Tail(queue)
          /\ UNCHANGED thread
       \/ /\ ~made \/ queue = <<>>
          /\ thread' = "ended"
          /\ UNCHANGED <<deleted, queue>>
    /\ UNCHANGED <<callerVars, writerVars, hand, printed, fault>>

-------------------------------------------------------------------------------
(* start and stop.                                                         *)

Caller(step) == fault = "none" /\ caller = step

\* Mutant of Start: running is set without a look at what it was.
StartAlways ==
    /\ Caller("idle")
    /\ running' = TRUE
    /\ caller' = "make"
    /\ UNCHANGED <<threadVars, writerVars, queue, made, leaked, fault>>

\* Called while running is set, start does nothing; so does stop while it is not.
Start ==
    /\ Caller("idle")
    /\ ~running
    /\ running' = TRUE
    /\ caller' = "make"
    /\ UNCHANGED <<threadVars, writerVars, queue, made, leaked, fault>>

MakeQueue ==
    /\ Caller("make")
    /\ made' = TRUE
    /\ queue' = <<>>
    /\ leaked' = leaked \cup ToSet(queue)
    /\ caller' = "spawn"
    /\ UNCHANGED <<threadVars, writerVars, running, fault>>

\* A thread assigned to a joinable std::thread ends the process.
Spawn ==
    /\ Caller("spawn")
    /\ IF thread = "none"
       THEN thread' = "test" /\ UNCHANGED fault
       ELSE fault' = "thread" /\ UNCHANGED thread
    /\ caller' = "idle"
    /\ UNCHANGED <<writerVars, running, made, leaked, queue, hand, printed, deleted>>

\* Mutant of Stop: the thread is not joined.
StopOnly ==
    /\ Caller("idle")
    /\ running
    /\ running' = FALSE
    /\ caller' = "reset"
    /\ UNCHANGED <<threadVars, writerVars, queue, made, leaked, fault>>

Stop ==
    /\ Caller("idle")
    /\ running
    /\ running' = FALSE
    /\ caller' = "join"
    /\ UNCHANGED <<threadVars, writerVars, queue, made, leaked, fault>>

Join ==
    /\ Caller("join")
    /\ thread = "ended"
    /\ thread' = "none"
    /\ caller' = "reset"
    /\ UNCHANGED <<writerVars, running, made, leaked, queue, hand, printed, deleted, fault>>

ResetQueue ==
    /\ Caller("reset")
    /\ made' = FALSE
    /\ queue' = <<>>
    /\ leaked' = leaked \cup ToSet(queue)
    /\ caller' = "idle"
    /\ UNCHANGED <<threadVars, writerVars, running, fault>>

-------------------------------------------------------------------------------
LoggerThread == Test \/ Look \/ PrintMessage \/ Drain
Calls == MakeQueue \/ Spawn \/ Join \/ ResetQueue

LoggerNext ==
    \/ \E w \in Writers : Log(w)
    \/ \E w \in Writers : Push(w)
    \/ LoggerThread
    \/ Start
    \/ Stop
    \/ Calls

\* The logger's thread is scheduled, and so is a thread inside start or stop; nobody
\* has to log, to start the logger or to stop it.
LoggerSpec ==
    /\ LoggerInit /\ [][LoggerNext]_loggerVars
    /\ WF_loggerVars(LoggerThread)
    /\ WF_loggerVars(Calls)

-------------------------------------------------------------------------------
(* Properties.                                                             *)

\* The variables keep their types; a message is at hand exactly while it is printed.
LoggerTypeOK ==
    /\ running \in BOOLEAN /\ made \in BOOLEAN
    /\ queue \in Seq(Messages)
    /\ thread \in {"none", "test", "look", "print", "drain", "ended"}
    /\ hand \in Messages \cup {NoMessage}
    /\ (hand # NoMessage) = (thread = "print")
    /\ writer \in [Writers -> {"idle", "push"}]
    /\ logged \in [Writers -> 0 .. MaxMessages]
    /\ caller \in {"idle", "make", "spawn", "join", "reset"}
    /\ fault \in {"none", "queue", "thread"}
    /\ pushed \in Seq(Messages) /\ printed \in Seq(Messages)
    /\ deleted \subseteq Messages /\ leaked \subseteq Messages

\* A queue is never replaced or destroyed under the logger's thread, whatever the order
\* of starts and stops: the thread's tests of logQueue only ever see a live queue.
ThreadHasQueue == thread \notin {"none", "ended"} => made

\* Messages are printed in the order in which they were queued, whichever threads
\* queued them and however often the logger is restarted, none twice.
PrintedInOrder ==
    printed = Those(pushed, Among(printed))

\* A queued message is lost only to stop: none is while the logger runs.
LostOnlyByStop ==
    [][UNCHANGED <<deleted, leaked>> \/ ~running]_loggerVars

\* Each message queued is printed, or lost to a stop, in the end.
Settled ==
    \A m \in Messages :
        m \in ToSet(pushed) ~>
            (m \in ToSet(printed) \cup deleted \cup leaked \/ fault # "none")

\* stop returns, provided the writers fall silent for a while.
StopReturns == caller = "join" ~> (caller = "idle" \/ fault # "none")

\* A log function called without a queue answers false.
FalseWithoutQueue == fault # "queue"
===============================================================================

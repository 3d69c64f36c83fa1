------------------------------ MODULE GLBackend ------------------------------
(***************************************************************************)
(* The OpenGL backend: the thread that exports one piece of data per tick, *)
(* the work thread that lays it out and draws it, and the thread that      *)
(* polls SDL for the user's wish to quit, with SIGINT delivered to any of  *)
(* them.                                                                   *)
(*                                                                         *)
(* The queues are meant to be locked.  The lock_guard of every operation   *)
(* is an unnamed temporary, gone at the end of its own statement, so the   *)
(* operations are modelled as they are: they begin, and they take effect   *)
(* later.  When two of them overlap on one deque, life may become          *)
(* "undefined"; that the overlap turns out harmless is the other outcome.  *)
(*                                                                         *)
(* The numbers of ticks, of requests to quit and of signals (one) are the  *)
(* bounds of the model: MaxTicks, MaxQuits, SignalSent.                    *)
(***************************************************************************)
EXTENDS Integers, Sequences, SequencesExt

CONSTANTS
    MaxTicks,   \* how many times exportData is called
    NullTicks,  \* those of them that export a null pointer, as the demo does
    MaxQuits,   \* how often the user asks to quit
    NoThread

ASSUME BackendAssumption ==
    /\ MaxTicks \in Nat
    /\ MaxQuits \in Nat
    /\ NullTicks \subseteq 1 .. MaxTicks
    /\ NoThread \notin {"main", "worker", "poller"}

VARIABLES
    life,         \* of the process: running, or how it ended
    main,         \* the exporting thread
    worker,       \* GLWorkThread::run
    poller,       \* GLWindow::EventPoller::poll
    handler,      \* the thread that runs signalHandler
    joining,      \* the handler has set the flag and waits in join
    signalSent,
    workQueue,    \* front first
    exported, handled,  \* what exportData was given, what the worker popped
    eventQueue,   \* number of QUITs in EventPoller::eventQueue
    sdlQuits,     \* requests to quit that SDL holds
    quits,        \* how often the user has asked
    context,      \* glContext is not null, and with it eventPoller
    interrupted,
    receivedQuit,
    late          \* history: tasks popped since the flag was set

threads == <<main, worker, poller>>
signal == <<handler, joining, signalSent>>
work == <<workQueue, exported, handled, late>>
events == <<eventQueue, sdlQuits, quits>>
flags == <<context, interrupted, receivedQuit>>
vars == <<life, threads, signal, work, events, flags>>

Init ==
    /\ life = "running"
    /\ main = "ticking"
    /\ worker = "loop"
    /\ poller = "none"
    /\ handler = NoThread /\ joining = FALSE /\ signalSent = FALSE
    /\ workQueue = <<>> /\ exported = <<>> /\ handled = <<>> /\ late = 0
    /\ eventQueue = 0 /\ sdlQuits = 0 /\ quits = 0
    /\ context = FALSE /\ interrupted = FALSE /\ receivedQuit = FALSE

\* A thread does not go on while it runs the signal handler.
Runs(t) == life = "running" /\ handler # t

\* Both threads are inside an operation on the same deque.
WorkQueueShared == main = "emplacing" /\ worker = "popping"
EventQueueShared == poller = "adding" /\ worker = "getting"

\* An operation takes effect, or its race with the other is felt.
Outcome(shared) == \/ UNCHANGED life
                   \/ shared /\ life' = "undefined"

-----------------------------------------------------------------------------
(* The exporting thread: Simulation::cycleCallBackends, then the end of    *)
(* the test (join) or of the program (the backend is destroyed).           *)

BeginExport ==
    /\ Runs("main")
    /\ main = "ticking"
    /\ Len(exported) < MaxTicks
    /\ main' = "emplacing"
    /\ UNCHANGED <<life, worker, poller, signal, work, events, flags>>

\* Mutant: new work goes to the end it is taken from.
EmplaceBack ==
    /\ Runs("main")
    /\ main = "emplacing"
    /\ LET task == Len(exported) + 1 IN
        /\ workQueue' = Append(workQueue, task)
        /\ exported' = Append(exported, task)
    /\ main' = "ticking"
    /\ UNCHANGED <<life, worker, poller, signal, handled, late, events, flags>>

EmplaceFront ==
    /\ Runs("main")
    /\ main = "emplacing"
    /\ LET task == Len(exported) + 1 IN
        /\ workQueue' = <<task>> \o workQueue
        /\ exported' = Append(exported, task)
    /\ main' = "ticking"
    /\ Outcome(WorkQueueShared)
    /\ UNCHANGED <<worker, poller, signal, handled, late, events, flags>>

\* GLBackend::join waits for a worker that has ended.  There is no step for
\* its return: JoinNeverReturns.
Join ==
    /\ Runs("main")
    /\ main = "ticking"
    /\ main' = "joining"
    /\ UNCHANGED <<life, worker, poller, signal, work, events, flags>>

\* The last pointer to the simulation goes, unless the handler holds another.
\* From here on simPtr.lock() fails.
Destroy ==
    /\ Runs("main")
    /\ main = "ticking"
    /\ ~joining
    /\ main' = "destroying"
    /\ UNCHANGED <<life, worker, poller, signal, work, events, flags>>

\* ~GLBackend: the destructor of a thread nobody joined terminates.
DestroyBackend ==
    /\ Runs("main")
    /\ main = "destroying"
    /\ life' = "terminated"
    /\ UNCHANGED <<threads, signal, work, events, flags>>

-----------------------------------------------------------------------------
(* GLWorkThread::run. *)

\* Mutant: the loop condition forgets the interrupt.
CheckQuitOnly ==
    /\ Runs("worker")
    /\ worker = "loop"
    /\ ~receivedQuit
    /\ worker' = "popping"
    /\ UNCHANGED <<life, main, poller, signal, work, events, flags>>

CheckFlags ==
    /\ Runs("worker")
    /\ worker = "loop"
    /\ ~interrupted /\ ~receivedQuit
    /\ worker' = "popping"
    /\ UNCHANGED <<life, main, poller, signal, work, events, flags>>

\* Mutant: the context outlives the thread.
LeaveLoopLeaking ==
    /\ Runs("worker")
    /\ worker = "loop"
    /\ interrupted \/ receivedQuit
    /\ worker' = "ended"
    /\ UNCHANGED <<life, main, poller, signal, work, events, flags>>

\* run returns: the context goes, with the window and the EventPoller, whose
\* thread was never joined.
LeaveLoop ==
    /\ Runs("worker")
    /\ worker = "loop"
    /\ interrupted \/ receivedQuit
    /\ \/ context /\ life' = "terminated" /\ UNCHANGED worker
       \/ ~context /\ worker' = "ended" /\ UNCHANGED life
    /\ UNCHANGED <<main, poller, signal, work, events, flags>>

AfterTask == IF context THEN "getting" ELSE "loop"

\* Mutant: an off-by-one in the test for an empty queue.
PopUnlessLast ==
    /\ Runs("worker")
    /\ worker = "popping"
    /\ \/ /\ Len(workQueue) <= 1
          /\ worker' = AfterTask
          /\ UNCHANGED work
       \/ /\ Len(workQueue) > 1
          /\ handled' = Append(handled, Last(workQueue))
          /\ workQueue' = Front(workQueue)
          /\ worker' = AfterTask
          /\ UNCHANGED <<exported, late>>
    /\ UNCHANGED <<life, main, poller, signal, events, flags>>

\* A null task is not told from no task.
PopReturnBackOrNull ==
    /\ Runs("worker")
    /\ worker = "popping"
    /\ \/ /\ workQueue = <<>>
          /\ worker' = AfterTask
          /\ UNCHANGED work
       \/ /\ workQueue # <<>>
          /\ handled' = Append(handled, Last(workQueue))
          /\ workQueue' = Front(workQueue)
          /\ late' = late + (IF interrupted THEN 1 ELSE 0)
          /\ worker' = IF Last(workQueue) \notin NullTicks /\ ~context
                       THEN "layout" ELSE AfterTask
          /\ UNCHANGED exported
    /\ Outcome(WorkQueueShared)
    /\ UNCHANGED <<main, poller, signal, events, flags>>

\* calculateLayout, then the window and its poll thread.
MakeContext ==
    /\ Runs("worker")
    /\ worker = "layout"
    /\ context' = TRUE
    /\ poller' = "polling"
    /\ worker' = "getting"
    /\ UNCHANGED <<life, main, signal, work, events, interrupted, receivedQuit>>

\* An exception of SDL, OpenGL or the layout leaves the thread's function.
ContextFails ==
    /\ Runs("worker")
    /\ worker = "layout"
    /\ life' = "terminated"
    /\ UNCHANGED <<threads, signal, work, events, flags>>

\* Without an event the frame is drawn, which changes nothing here.
GetEvent ==
    /\ Runs("worker")
    /\ worker = "getting"
    /\ \/ eventQueue = 0 /\ UNCHANGED <<eventQueue, receivedQuit>>
       \/ eventQueue > 0 /\ eventQueue' = eventQueue - 1 /\ receivedQuit' = TRUE
    /\ worker' = "loop"
    /\ Outcome(EventQueueShared)
    /\ UNCHANGED <<main, poller, signal, work, sdlQuits, quits, context,
                   interrupted>>

-----------------------------------------------------------------------------
(* EventPoller::poll, and the user in front of the window. *)

\* Other events than a wish to quit keep the loop going and change nothing.
PollEvent ==
    /\ Runs("poller")
    /\ poller = "polling"
    /\ \/ sdlQuits > 0 /\ sdlQuits' = sdlQuits - 1 /\ poller' = "adding"
       \/ sdlQuits = 0 /\ poller' = "done" /\ UNCHANGED sdlQuits
    /\ UNCHANGED <<life, main, worker, signal, work, eventQueue, quits, flags>>

\* Mutant: SDL_QUIT and escape are both added for one request.
AddEventTwice ==
    /\ Runs("poller")
    /\ poller = "adding"
    /\ eventQueue' = eventQueue + 2
    /\ poller' = "polling"
    /\ UNCHANGED <<life, main, worker, signal, work, sdlQuits, quits, flags>>

\* Mutant: the queue holds the latest event only.
AddEventOverwrites ==
    /\ Runs("poller")
    /\ poller = "adding"
    /\ eventQueue' = 1
    /\ poller' = "polling"
    /\ UNCHANGED <<life, main, worker, signal, work, sdlQuits, quits, flags>>

AddEvent ==
    /\ Runs("poller")
    /\ poller = "adding"
    /\ eventQueue' = eventQueue + 1
    /\ poller' = "polling"
    /\ Outcome(EventQueueShared)
    /\ UNCHANGED <<main, worker, signal, work, sdlQuits, quits, flags>>

UserQuits ==
    /\ life = "running"
    /\ context
    /\ quits < MaxQuits
    /\ quits' = quits + 1
    /\ sdlQuits' = sdlQuits + 1
    /\ UNCHANGED <<life, threads, signal, work, eventQueue, flags>>

-----------------------------------------------------------------------------
(* SIGINT: signalHandler, Simulation::interrupt and exit, in any thread    *)
(* that is there to receive it.  Nothing else in the repository calls      *)
(* interrupt.                                                              *)

Deliver(t) ==
    /\ life = "running"
    /\ ~signalSent
    /\ t = "worker" => worker # "ended"
    /\ t = "poller" => poller \notin {"none", "done"}
    /\ handler' = t
    /\ signalSent' = TRUE
    /\ UNCHANGED <<life, threads, joining, work, events, flags>>

Interrupt ==
    /\ life = "running"
    /\ handler # NoThread
    /\ ~joining
    /\ main # "destroying"
    /\ interrupted' = TRUE
    /\ joining' = TRUE
    /\ UNCHANGED <<life, threads, handler, signalSent, work, events, context,
                   receivedQuit>>

\* Without a simulation there is nothing to interrupt.
HandlerExits ==
    /\ life = "running"
    /\ handler # NoThread
    /\ ~joining
    /\ main = "destroying"
    /\ life' = "exited"
    /\ UNCHANGED <<threads, signal, work, events, flags>>

\* GLBackend::join: a thread that joins itself is an exception in a noexcept
\* function, two joins of one thread are undefined.
HandlerJoins ==
    /\ life = "running"
    /\ joining
    /\ \/ handler = "worker" /\ life' = "terminated"
       \/ handler # "worker" /\ main = "joining" /\ life' = "undefined"
       \/ /\ handler # "worker" /\ main # "joining"
          /\ worker = "ended"
          /\ life' = "exited"
    /\ UNCHANGED <<threads, signal, work, events, flags>>

-----------------------------------------------------------------------------
MainStep == BeginExport \/ EmplaceFront \/ Join \/ Destroy \/ DestroyBackend

LayoutStep == MakeContext \/ ContextFails

WorkerStep == CheckFlags \/ LeaveLoop \/ PopReturnBackOrNull \/ GetEvent

PollerStep == PollEvent \/ AddEvent

HandlerStep == Interrupt \/ HandlerExits \/ HandlerJoins

Next ==
    \/ MainStep
    \/ WorkerStep
    \/ LayoutStep
    \/ PollerStep
    \/ UserQuits
    \/ \E t \in {"main", "worker", "poller"} : Deliver(t)
    \/ HandlerStep

Spec == Init /\ [][Next]_vars

\* The scheduler gives every thread its turns.  Nothing is assumed of the
\* layout, which need not converge, of the user, or of when the exporting
\* thread decides to stop.
FairSpec ==
    /\ Spec
    /\ WF_vars(EmplaceFront)
    /\ WF_vars(WorkerStep)
    /\ WF_vars(PollerStep)
    /\ WF_vars(HandlerStep)
-----------------------------------------------------------------------------
(* Properties *)

Over == {"exited", "terminated", "undefined"}

TypeOK ==
    /\ life \in {"running"} \cup Over
    /\ main \in {"ticking", "emplacing", "joining", "destroying"}
    /\ worker \in {"loop", "popping", "layout", "getting", "ended"}
    /\ poller \in {"none", "polling", "adding", "done"}
    /\ handler \in {"main", "worker", "poller", NoThread}
    /\ {joining, signalSent, context, interrupted, receivedQuit} \subseteq BOOLEAN
    /\ workQueue \in Seq(1 .. MaxTicks)
    /\ exported \in Seq(1 .. MaxTicks)
    /\ handled \in Seq(1 .. MaxTicks)
    /\ late \in 0 .. MaxTicks
    /\ eventQueue \in 0 .. MaxQuits
    /\ sdlQuits \in 0 .. MaxQuits
    /\ quits \in 0 .. MaxQuits

\* exportData's comment: FIFO, nothing lost or handled twice, as long as no
\* race on the deque is felt.
Channel == INSTANCE WorkChannel WITH Task <- 1 .. MaxTicks
ImplementsChannel == Channel!Spec

\* The work thread looks at its flag once per frame: after an interrupt it
\* takes up one more piece of work at most.
OneTaskAfterInterrupt == late <= 1

\* A request to quit is in one place at a time, or was acted upon: the two
\* queues together never invent or duplicate one.
QuitsConserved ==
    eventQueue + sdlQuits + (IF poller = "adding" THEN 1 ELSE 0)
        + (IF receivedQuit THEN 1 ELSE 0) = quits

\* The process exits in an orderly way only if no window was ever opened, or
\* the simulation was on its way out already: the handler's exit presupposes
\* a work thread that has ended, and with a window it cannot end without
\* terminating.
OrderlyEndMeansNoWindow == life = "exited" => ~context \/ main = "destroying"

\* A thread that joins the backend, as the demo's test does, is never
\* released: the worker ends by a signal only, and then the handler either
\* has suspended the joining thread or is what ends the process.
JoinNeverReturns == main = "joining" /\ Runs("main") => worker # "ended"

\* Once the flag is set the process ends, unless the layout goes on forever.
InterruptEnds ==
    [](interrupted => <>(life \in Over \/ [](worker = "layout")))

\* What was exported is taken up, unless the thread is told to stop, or the
\* layout goes on forever.
WorkTakenUp ==
    \A n \in 1 .. MaxTicks :
        [](Len(exported) >= n =>
            <>(\/ Len(handled) >= n
               \/ life \in Over \/ interrupted \/ receivedQuit
               \/ [](worker = "layout")))

\* AtomicDeque's comment on pop_return_back_or_null: the mutex is held, so
\* two operations on the deque exclude one another.
DequeExclusive == ~WorkQueueShared

\* run's comment: the user can exit by interacting with the SDL window.
UserCanExit == quits > 0 ~> life \in Over
=============================================================================

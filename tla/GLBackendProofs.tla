--------------------------- MODULE GLBackendProofs ---------------------------
(***************************************************************************)
(* What GLBackend.tla promises for any number of ticks, of requests to     *)
(* quit, and any interleaving of its threads.                              *)
(***************************************************************************)
EXTENDS GLBackend, SequenceTheorems, TLAPS

(***************************************************************************)
(* The inductive invariant.  Numbered says where each tick is: tick number *)
(* n is the n-th exported, the n-th handled if it was handled, and         *)
(* otherwise in the queue, behind all the later ones.                      *)
(***************************************************************************)
Typed ==
    /\ workQueue \in Seq(Nat) /\ exported \in Seq(Nat) /\ handled \in Seq(Nat)
    /\ late \in Nat
    /\ context \in BOOLEAN

Numbered ==
    /\ Len(exported) = Len(handled) + Len(workQueue)
    /\ Len(exported) <= MaxTicks
    /\ main = "emplacing" => Len(exported) < MaxTicks
    /\ \A i \in 1 .. Len(exported) : exported[i] = i
    /\ \A i \in 1 .. Len(handled) : handled[i] = i
    /\ \A i \in 1 .. Len(workQueue) : workQueue[i] = Len(exported) + 1 - i

\* Before the flag is set nothing is late; after it, the one task that can
\* be late is that of a worker on its way from the flag to the queue.
Lateness ==
    /\ ~interrupted => late = 0
    /\ interrupted /\ worker = "popping" => late = 0
    /\ late <= 1

\* A thread that ended did so without a window, and opens none afterwards.  Only
\* without a simulation is an exit possible before that.
Windowless ==
    /\ worker = "ended" => ~context
    /\ life = "exited" => worker = "ended" \/ main = "destroying"

IInv == Typed /\ Numbered /\ Lateness /\ Windowless

USE BackendAssumption

-----------------------------------------------------------------------------
LEMMA InitInvariant == Init => IInv
  <1> SUFFICES ASSUME Init PROVE IInv
    OBVIOUS
  <1>1. /\ workQueue = <<>> /\ exported = <<>> /\ handled = <<>>
        /\ late = 0 /\ context = FALSE /\ main = "ticking"
        /\ worker = "loop" /\ life = "running"
    BY DEF Init
  <1>2. Typed
    BY <1>1, EmptySeq DEF Typed
  <1>3. Numbered
    <2>1. Len(workQueue) = 0 /\ Len(exported) = 0 /\ Len(handled) = 0
      BY <1>1
    <2>2. QED
      BY <1>1, <2>1 DEF Numbered
  <1>4. Lateness /\ Windowless
    BY <1>1 DEF Lateness, Windowless
  <1>5. QED
    BY <1>2, <1>3, <1>4 DEF IInv

(* The end of the queue the worker takes from. *)
LEMMA FrontAndLast ==
    ASSUME NEW q \in Seq(Nat), q # <<>>
    PROVE  /\ Last(q) = q[Len(q)]
           /\ Last(q) \in Nat
           /\ Front(q) \in Seq(Nat)
           /\ Len(Front(q)) = Len(q) - 1
           /\ \A i \in 1 .. Len(q) - 1 : Front(q)[i] = q[i]
  <1>1. Len(q) \in Nat /\ Len(q) >= 1
    OBVIOUS
  <1>2. Last(q) = q[Len(q)] /\ Last(q) \in Nat
    BY <1>1 DEF Last
  <1>3. /\ Front(q) \in Seq(Nat)
        /\ Len(Front(q)) = Len(q) - 1
        /\ \A i \in 1 .. Len(q) - 1 : Front(q)[i] = q[i]
    <2>1. \A i \in 1 .. Len(q) - 1 : q[i] \in Nat
      BY <1>1
    <2>2. /\ Front(q) \in Seq(Nat)
          /\ Len(Front(q)) = IF 1 <= Len(q) - 1 THEN Len(q) - 1 ELSE 0
          /\ \A i \in 1 .. Len(q) - 1 : Front(q)[i] = q[i]
      BY <1>1, <2>1, SubSeqProperties DEF Front
    <2>3. Len(Front(q)) = Len(q) - 1
      <3>1. ASSUME NEW n \in Nat, n >= 1
            PROVE  (IF 1 <= n - 1 THEN n - 1 ELSE 0) = n - 1
        <4>1. CASE n = 1
          <5>1. ~(1 <= n - 1) /\ n - 1 = 0
            BY <4>1
          <5>2. QED
            BY <5>1
        <4>2. CASE 1 <= n - 1
          BY <4>2
        <4>3. QED
          BY <3>1, <4>1, <4>2
      <3>2. (IF 1 <= Len(q) - 1 THEN Len(q) - 1 ELSE 0) = Len(q) - 1
        BY <1>1, <3>1
      <3>3. QED
        BY <2>2, <3>2, Zenon
    <2>4. QED
      BY <2>2, <2>3
  <1>4. QED
    BY <1>2, <1>3

(* Putting a tick in at the front. *)
LEMMA EmplaceStep ==
    ASSUME IInv, EmplaceFront
    PROVE  IInv' /\ Channel!Export(Len(exported) + 1)
                 /\ Len(exported) + 1 \in 1 .. MaxTicks
  <1> DEFINE n == Len(exported)
  <1>1. /\ workQueue' = <<n + 1>> \o workQueue
        /\ exported' = Append(exported, n + 1)
        /\ UNCHANGED <<handled, late, interrupted, context, worker>>
        /\ main = "emplacing" /\ main' = "ticking"
        /\ life = "running" /\ life' \in {"running", "undefined"}
    BY DEF EmplaceFront, Runs, Outcome, flags
  <1>2. /\ workQueue \in Seq(Nat) /\ exported \in Seq(Nat) /\ handled \in Seq(Nat)
        /\ n \in Nat /\ Len(workQueue) \in Nat /\ n < MaxTicks
    BY <1>1 DEF IInv, Typed, Numbered
  <1>3. /\ workQueue' \in Seq(Nat) /\ exported' \in Seq(Nat)
        /\ Len(exported') = n + 1
        /\ Len(workQueue') = Len(workQueue) + 1
        /\ \A i \in 1 .. n : exported'[i] = exported[i]
        /\ exported'[n + 1] = n + 1
        /\ workQueue'[1] = n + 1
        /\ \A i \in 1 .. Len(workQueue) : workQueue'[i + 1] = workQueue[i]
    BY <1>1, <1>2
  <1>4. Typed'
    BY <1>1, <1>3 DEF IInv, Typed
  <1>5. Numbered'
    <2>1. \A i \in 1 .. n + 1 : exported'[i] = i
      <3>1. \A i \in 1 .. n : exported[i] = i
        BY DEF IInv, Numbered
      <3>2. \A i \in 1 .. n + 1 : i \in 1 .. n \/ i = n + 1
        BY <1>2
      <3>3. QED
        BY <1>3, <3>1, <3>2
    <2>2. ASSUME NEW i \in 1 .. Len(workQueue) + 1
          PROVE  workQueue'[i] = n + 2 - i
      <3>1. CASE i = 1
        BY <1>2, <1>3, <3>1
      <3>2. CASE i - 1 \in 1 .. Len(workQueue)
        <4>1. workQueue'[(i - 1) + 1] = workQueue[i - 1]
          BY <1>3, <3>2
        <4>2. workQueue[i - 1] = n + 1 - (i - 1)
          BY <3>2 DEF IInv, Numbered
        <4>3. QED
          BY <1>2, <4>1, <4>2
      <3>3. QED
        BY <1>2, <3>1, <3>2
    <2>3. Len(exported') = Len(handled) + Len(workQueue') /\ Len(exported') <= MaxTicks
      BY <1>2, <1>3 DEF IInv, Numbered
    <2>4. QED
      <3>1. \A i \in 1 .. Len(workQueue') : workQueue'[i] = Len(exported') + 1 - i
        <4>1. (n + 1) + 1 = n + 2
          BY <1>2
        <4>2. QED
          BY <1>3, <2>2, <4>1
      <3>2. main' # "emplacing"
        BY <1>1
      <3>3. \A i \in 1 .. Len(handled') : handled'[i] = i
        BY <1>1 DEF IInv, Numbered
      <3>4. \A i \in 1 .. Len(exported') : exported'[i] = i
        BY <1>3, <2>1
      <3>5. Len(exported') = Len(handled') + Len(workQueue')
        BY <1>1, <2>3
      <3>6. QED
        BY <2>3, <3>1, <3>2, <3>3, <3>4, <3>5 DEF Numbered
  <1>6. Lateness' /\ Windowless'
    BY <1>1 DEF IInv, Lateness, Windowless
  <1>7. QED
    BY <1>1, <1>2, <1>4, <1>5, <1>6 DEF IInv, Channel!Export

(* Taking a tick out at the back: it is the next one that was exported. *)
LEMMA PopStep ==
    ASSUME IInv, PopReturnBackOrNull
    PROVE  IInv' /\ (Channel!Handle \/ UNCHANGED <<exported, handled>>)
  <1>1. /\ worker = "popping" /\ worker' \in {"layout", "getting", "loop"}
        /\ life = "running" /\ life' \in {"running", "undefined"}
        /\ UNCHANGED <<main, context, interrupted, exported>>
    BY DEF PopReturnBackOrNull, Runs, Outcome, AfterTask, flags, work
  <1>2. Windowless'
    BY <1>1 DEF IInv, Windowless
  <1>3. CASE workQueue = <<>>
    <2>1. UNCHANGED <<workQueue, handled, late>>
      BY <1>3 DEF PopReturnBackOrNull, work
    <2>2. QED
      BY <1>1, <1>2, <2>1 DEF IInv, Typed, Numbered, Lateness
  <1>4. CASE workQueue # <<>>
    <2>1. /\ handled' = Append(handled, Last(workQueue))
          /\ workQueue' = Front(workQueue)
          /\ late' = late + (IF interrupted THEN 1 ELSE 0)
      BY <1>4 DEF PopReturnBackOrNull
    <2>2. /\ workQueue \in Seq(Nat) /\ exported \in Seq(Nat) /\ handled \in Seq(Nat)
          /\ Len(handled) \in Nat /\ Len(workQueue) \in Nat /\ Len(exported) \in Nat
          /\ Len(exported) = Len(handled) + Len(workQueue)
          /\ late \in Nat
      BY DEF IInv, Typed, Numbered
    <2>3. /\ Last(workQueue) = workQueue[Len(workQueue)]
          /\ Last(workQueue) \in Nat
          /\ workQueue' \in Seq(Nat)
          /\ Len(workQueue') = Len(workQueue) - 1
          /\ \A i \in 1 .. Len(workQueue) - 1 : workQueue'[i] = workQueue[i]
      BY <1>4, <2>1, <2>2, FrontAndLast
    <2>4. Len(workQueue) \in 1 .. Len(workQueue)
      BY <1>4, <2>2
    <2>5. Last(workQueue) = Len(handled) + 1
      BY <2>2, <2>3, <2>4 DEF IInv, Numbered
    <2>6. /\ handled' \in Seq(Nat) /\ Len(handled') = Len(handled) + 1
          /\ \A i \in 1 .. Len(handled) : handled'[i] = handled[i]
          /\ handled'[Len(handled) + 1] = Len(handled) + 1
      BY <2>1, <2>2, <2>3, <2>5
    <2>7. Typed'
      BY <1>1, <2>1, <2>2, <2>3, <2>6 DEF IInv, Typed
    <2>8. Numbered'
      <3>1. \A i \in 1 .. Len(handled') : handled'[i] = i
        <4>1. \A i \in 1 .. Len(handled) : handled[i] = i
          BY DEF IInv, Numbered
        <4>2. \A i \in 1 .. Len(handled) + 1 :
                  i \in 1 .. Len(handled) \/ i = Len(handled) + 1
          BY <2>2
        <4>3. QED
          BY <2>6, <4>1, <4>2
      <3>2. \A i \in 1 .. Len(workQueue') : workQueue'[i] = Len(exported) + 1 - i
        BY <2>2, <2>3 DEF IInv, Numbered
      <3>3. Len(exported) = Len(handled') + Len(workQueue')
        BY <2>2, <2>3, <2>6
      <3>4. QED
        BY <1>1, <3>1, <3>2, <3>3 DEF IInv, Numbered
    <2>9. Lateness'
      BY <1>1, <2>1, <2>2 DEF IInv, Lateness
    <2>10. Channel!Handle
      <3>1. exported[Len(handled) + 1] = Len(handled) + 1
            /\ Len(handled) < Len(exported)
        BY <2>2, <2>4 DEF IInv, Numbered
      <3>2. QED
        BY <1>1, <2>1, <2>5, <3>1 DEF Channel!Handle
    <2>11. QED
      BY <1>2, <2>7, <2>8, <2>9, <2>10 DEF IInv
  <1>5. QED
    BY <1>3, <1>4

(* Every other step leaves the queue and what went through it alone. *)
LEMMA OtherStep ==
    ASSUME IInv, [Next]_vars, ~EmplaceFront, ~PopReturnBackOrNull
    PROVE  IInv' /\ UNCHANGED <<exported, handled>>
  <1>1. UNCHANGED <<workQueue, exported, handled, late>>
    BY DEF Next, MainStep, WorkerStep, LayoutStep, PollerStep, HandlerStep, vars,
        BeginExport, Join, Destroy, DestroyBackend, CheckFlags, LeaveLoop,
        MakeContext, ContextFails, GetEvent, PollEvent, AddEvent, UserQuits,
        Deliver, Interrupt, HandlerExits, HandlerJoins, work
  <1>2. main' = "emplacing" => main = "emplacing" \/ Len(exported) < MaxTicks
    BY DEF Next, MainStep, WorkerStep, LayoutStep, PollerStep, HandlerStep, vars,
        BeginExport, Join, Destroy, DestroyBackend, CheckFlags, LeaveLoop,
        MakeContext, ContextFails, GetEvent, PollEvent, AddEvent, UserQuits,
        Deliver, Interrupt, HandlerExits, HandlerJoins, threads
  <1>3. context' \in BOOLEAN
    BY DEF Next, MainStep, WorkerStep, LayoutStep, PollerStep, HandlerStep, vars,
        BeginExport, Join, Destroy, DestroyBackend, CheckFlags, LeaveLoop,
        MakeContext, ContextFails, GetEvent, PollEvent, AddEvent, UserQuits,
        Deliver, Interrupt, HandlerExits, HandlerJoins, flags, IInv, Typed
  <1>4. Typed' /\ Numbered'
    BY <1>1, <1>2, <1>3 DEF IInv, Typed, Numbered
  <1>5. Lateness'
    <2>1. interrupted' = interrupted \/ (interrupted' = TRUE /\ worker' = worker /\ ~interrupted)
            \/ (interrupted /\ interrupted' = TRUE)
      BY DEF Next, MainStep, WorkerStep, LayoutStep, PollerStep, HandlerStep, vars,
          BeginExport, Join, Destroy, DestroyBackend, CheckFlags, LeaveLoop,
          MakeContext, ContextFails, GetEvent, PollEvent, AddEvent, UserQuits,
          Deliver, Interrupt, HandlerExits, HandlerJoins, flags, threads
    <2>2. worker' = "popping" => worker = "popping" \/ ~interrupted'
      BY DEF Next, MainStep, WorkerStep, LayoutStep, PollerStep, HandlerStep, vars,
          BeginExport, Join, Destroy, DestroyBackend, CheckFlags, LeaveLoop,
          MakeContext, ContextFails, GetEvent, PollEvent, AddEvent, UserQuits,
          Deliver, Interrupt, HandlerExits, HandlerJoins, flags, threads
    <2>3. QED
      BY <1>1, <2>1, <2>2 DEF IInv, Lateness
  <1>6. Windowless'
    BY DEF IInv, Windowless, Next, MainStep, WorkerStep, LayoutStep, PollerStep,
        HandlerStep, vars, BeginExport, Join, Destroy, DestroyBackend, CheckFlags,
        LeaveLoop, MakeContext, ContextFails, GetEvent, PollEvent, AddEvent,
        UserQuits, Deliver, Interrupt, HandlerExits, HandlerJoins, flags, threads, Runs,
        Outcome, PopReturnBackOrNull, EmplaceFront
  <1>7. QED
    BY <1>1, <1>4, <1>5, <1>6 DEF IInv

LEMMA Invariance == Spec => []IInv
  <1>1. IInv /\ [Next]_vars => IInv'
    BY EmplaceStep, PopStep, OtherStep
  <1>2. QED
    BY <1>1, InitInvariant, PTL DEF Spec

-----------------------------------------------------------------------------
(* FIFO order, nothing lost and nothing handled twice, while the unlocked  *)
(* operations of the two threads overlap without the overlap being felt.   *)
THEOREM FirstInFirstOut == Spec => ImplementsChannel
  <1>1. Init => Channel!Init
    BY DEF Init, Channel!Init
  <1>2. IInv /\ [Next]_vars => [Channel!Next]_(Channel!vars)
    BY EmplaceStep, PopStep, OtherStep DEF Channel!Next, Channel!vars
  <1>3. QED
    BY <1>1, <1>2, Invariance, PTL DEF Spec, ImplementsChannel, Channel!Spec

(* However much work is queued: one piece at most after an interrupt. *)
THEOREM InterruptsArePrompt == Spec => []OneTaskAfterInterrupt
  <1>1. IInv => OneTaskAfterInterrupt
    BY DEF IInv, Lateness, OneTaskAfterInterrupt
  <1>2. QED
    BY <1>1, Invariance, PTL

(* No run that opened a window ends in an orderly way, until its simulation *)
(* is being destroyed.                                                     *)
THEOREM WindowsEndBadly == Spec => []OrderlyEndMeansNoWindow
  <1>1. IInv => OrderlyEndMeansNoWindow
    BY DEF IInv, Windowless, OrderlyEndMeansNoWindow
  <1>2. QED
    BY <1>1, Invariance, PTL
-----------------------------------------------------------------------------
(* The worker ends by a signal only, and the handler stays in its thread.  *)
Signalled ==
    /\ handler # NoThread => signalSent
    /\ handler \in {"main", "worker", "poller", NoThread}
    /\ interrupted => handler # NoThread
    /\ handler = "poller" \/ poller # "none" \/ receivedQuit => context
    /\ worker = "getting" => context
    /\ worker = "ended" => ~context /\ interrupted /\ handler # "worker"
    /\ signalSent \in BOOLEAN /\ interrupted \in BOOLEAN
    /\ receivedQuit \in BOOLEAN /\ context \in BOOLEAN

LEMMA SignalledStep == Signalled /\ [Next]_vars => Signalled'
  <1> SUFFICES ASSUME Signalled, [Next]_vars PROVE Signalled'
    OBVIOUS
  <1> USE DEF Signalled, threads, signal, flags, Runs
  <1>1. CASE MainStep
    BY <1>1 DEF MainStep, BeginExport, EmplaceFront, Join, Destroy, DestroyBackend
  <1>2. CASE CheckFlags \/ LeaveLoop
    BY <1>2 DEF CheckFlags, LeaveLoop
  <1>3. CASE PopReturnBackOrNull
    BY <1>3 DEF PopReturnBackOrNull, AfterTask
  <1>4. CASE GetEvent
    BY <1>4 DEF GetEvent
  <1>5. CASE LayoutStep
    <2>1. CASE MakeContext
      <3>1. /\ UNCHANGED <<handler, signalSent, interrupted, receivedQuit>>
            /\ context' = TRUE /\ worker' = "getting"
        BY <2>1 DEF MakeContext
      <3>2. worker' # "ended"
        BY <3>1
      <3>3. QED
        BY <3>1, <3>2, Zenon
    <2>2. CASE ContextFails
      BY <2>2 DEF ContextFails
    <2>3. QED
      BY <1>5, <2>1, <2>2 DEF LayoutStep
  <1>6. CASE PollerStep
    BY <1>6 DEF PollerStep, PollEvent, AddEvent
  <1>7. CASE UserQuits
    BY <1>7 DEF UserQuits
  <1>8. ASSUME NEW t \in {"main", "worker", "poller"}, Deliver(t)
        PROVE  Signalled'
    BY <1>8, BackendAssumption DEF Deliver
  <1>9. CASE HandlerStep
    <2>1. CASE Interrupt
      <3>1. /\ handler # NoThread /\ interrupted' = TRUE
            /\ UNCHANGED <<worker, poller, handler, signalSent, context, receivedQuit>>
        BY <2>1 DEF Interrupt
      <3>2. QED
        BY <3>1, Zenon
    <2>2. CASE HandlerExits \/ HandlerJoins
      BY <2>2 DEF HandlerExits, HandlerJoins
    <2>3. QED
      BY <1>9, <2>1, <2>2 DEF HandlerStep
  <1>10. CASE UNCHANGED vars
    BY <1>10 DEF vars
  <1>11. QED
    BY <1>1, <1>2, <1>3, <1>4, <1>5, <1>6, <1>7, <1>8, <1>9, <1>10
       DEF Next, WorkerStep

(* The thread that waits for the worker is not the one that sees it end.   *)
THEOREM JoinIsForever == Spec => []JoinNeverReturns
  <1>1. Init => Signalled
    BY BackendAssumption DEF Init, Signalled
  <1>2. Signalled => JoinNeverReturns
    BY DEF Signalled, JoinNeverReturns, Runs
  <1>3. QED
    BY <1>1, <1>2, SignalledStep, PTL DEF Spec
-----------------------------------------------------------------------------
(* A request to quit that was acted upon ends the loop: the worker is not  *)
(* there to take another from the queue.                                   *)
Enumerated ==
    /\ life \in {"running"} \cup Over
    /\ main \in {"ticking", "emplacing", "joining", "destroying"}
    /\ worker \in {"loop", "popping", "layout", "getting", "ended"}
    /\ poller \in {"none", "polling", "adding", "done"}
    /\ joining \in BOOLEAN
    /\ receivedQuit => worker \in {"loop", "ended"}
    /\ worker = "layout" => ~context
    /\ late <= Len(handled)

Counted ==
    /\ eventQueue \in Nat /\ sdlQuits \in Nat /\ quits \in Nat
    /\ quits <= MaxQuits
    /\ QuitsConserved

QInv == IInv /\ Signalled /\ Enumerated /\ Counted

LEMMA EnumeratedStep == QInv /\ [Next]_vars => Enumerated'
  <1> SUFFICES ASSUME QInv, [Next]_vars PROVE Enumerated'
    OBVIOUS
  <1> USE DEF QInv, Enumerated, Signalled, Typed, IInv, threads, signal, flags,
              work, Runs, Over
  <1>1. CASE MainStep
    BY <1>1 DEF MainStep, BeginExport, EmplaceFront, Join, Destroy, DestroyBackend, Outcome
  <1>2. CASE CheckFlags \/ LeaveLoop
    BY <1>2 DEF CheckFlags, LeaveLoop
  <1>3. CASE PopReturnBackOrNull
    <2>1. late' <= Len(handled')
      BY <1>3 DEF PopReturnBackOrNull
    <2>2. QED
      BY <1>3, <2>1 DEF PopReturnBackOrNull, AfterTask, Outcome
  <1>4. CASE GetEvent
    BY <1>4 DEF GetEvent, Outcome
  <1>5. CASE LayoutStep
    BY <1>5 DEF LayoutStep, MakeContext, ContextFails
  <1>6. CASE PollerStep
    BY <1>6 DEF PollerStep, PollEvent, AddEvent, Outcome
  <1>7. CASE UserQuits
    BY <1>7 DEF UserQuits
  <1>8. ASSUME NEW t \in {"main", "worker", "poller"}, Deliver(t)
        PROVE  Enumerated'
    BY <1>8 DEF Deliver
  <1>9. CASE HandlerStep
    <2>1. CASE Interrupt
      <3>1. /\ UNCHANGED <<life, main, worker, poller, context, receivedQuit,
                           late, handled>>
            /\ joining' \in BOOLEAN
        BY <2>1 DEF Interrupt
      <3>2. QED
        BY <3>1
    <2>2. CASE HandlerExits \/ HandlerJoins
      <3>1. /\ UNCHANGED <<main, worker, poller, joining, context, receivedQuit,
                           late, handled>>
            /\ life' \in Over
        BY <2>2 DEF HandlerExits, HandlerJoins
      <3>2. QED
        BY <3>1
    <2>3. QED
      BY <1>9, <2>1, <2>2 DEF HandlerStep
  <1>10. CASE UNCHANGED vars
    BY <1>10 DEF vars
  <1>11. QED
    BY <1>1, <1>2, <1>3, <1>4, <1>5, <1>6, <1>7, <1>8, <1>9, <1>10
       DEF Next, WorkerStep

LEMMA CountedStep == QInv /\ [Next]_vars => Counted'
  <1> SUFFICES ASSUME QInv, [Next]_vars PROVE Counted'
    OBVIOUS
  <1> USE DEF QInv, Counted, QuitsConserved, events
  <1>1. CASE MainStep \/ CheckFlags \/ LeaveLoop \/ PopReturnBackOrNull
    BY <1>1 DEF MainStep, BeginExport, EmplaceFront, Join, Destroy, DestroyBackend, CheckFlags,
                LeaveLoop, PopReturnBackOrNull, threads, flags
  <1>2. CASE GetEvent
    <2>1. ~receivedQuit /\ UNCHANGED <<sdlQuits, quits, poller>>
      BY <1>2 DEF GetEvent, Enumerated
    <2>2. QED
      BY <1>2, <2>1 DEF GetEvent
  <1>3. CASE LayoutStep
    <2>1. worker = "layout" => poller = "none"
      BY DEF Enumerated, Signalled
    <2>2. QED
      BY <1>3, <2>1 DEF LayoutStep, MakeContext, ContextFails, threads, flags
  <1>4. CASE PollerStep
    BY <1>4 DEF PollerStep, PollEvent, AddEvent, flags
  <1>5. CASE UserQuits
    BY <1>5 DEF UserQuits, threads, flags
  <1>6. ASSUME NEW t \in {"main", "worker", "poller"}, Deliver(t)
        PROVE  Counted'
    BY <1>6 DEF Deliver, threads, flags
  <1>7. CASE HandlerStep
    BY <1>7 DEF HandlerStep, Interrupt, HandlerExits, HandlerJoins, threads, flags
  <1>8. CASE UNCHANGED vars
    BY <1>8 DEF vars, threads, flags
  <1>9. QED
    BY <1>1, <1>2, <1>3, <1>4, <1>5, <1>6, <1>7, <1>8 DEF Next, WorkerStep

LEMMA QInvariance == Spec => []QInv
  <1>1. Init => Signalled
    BY BackendAssumption DEF Init, Signalled
  <1>2. Init => Enumerated /\ Counted
    <2>1. Init => late <= Len(handled)
      BY DEF Init
    <2>2. Init => Enumerated
      BY <2>1, Zenon DEF Init, Enumerated
    <2>3. Init => Counted
      BY DEF Init, Counted, QuitsConserved
    <2>4. QED
      BY <2>2, <2>3
  <1>3. IInv /\ [Next]_vars => IInv'
    BY EmplaceStep, PopStep, OtherStep
  <1>4. QInv /\ [Next]_vars => QInv'
    BY <1>3, SignalledStep, EnumeratedStep, CountedStep DEF QInv
  <1>5. QED
    BY <1>1, <1>2, <1>4, InitInvariant, PTL DEF Spec, QInv

(* However the poll thread, the worker and the user take turns: a request to *)
(* quit is in one place.                                                    *)
THEOREM NoQuitIsLost == Spec => []QuitsConserved
  <1>1. QInv => QuitsConserved
    BY DEF QInv, Counted
  <1>2. QED
    BY <1>1, QInvariance, PTL

(* Type correctness, which bounds the queues by what was asked for. *)
THEOREM TypeCorrect == Spec => []TypeOK
  <1>1. QInv => TypeOK
    <2> SUFFICES ASSUME QInv PROVE TypeOK
      OBVIOUS
    <2>1. eventQueue <= quits /\ sdlQuits <= quits
      BY DEF QInv, Counted, QuitsConserved
    <2>2. /\ Len(exported) \in 0 .. MaxTicks
          /\ Len(handled) \in 0 .. Len(exported)
          /\ Len(workQueue) \in 0 .. Len(exported)
      BY DEF QInv, IInv, Typed, Numbered
    <2>3. /\ exported \in Seq(1 .. MaxTicks) /\ handled \in Seq(1 .. MaxTicks)
          /\ workQueue \in Seq(1 .. MaxTicks)
      <3>1. ASSUME NEW q \in Seq(Nat), \A i \in 1 .. Len(q) : q[i] \in 1 .. MaxTicks
            PROVE  q \in Seq(1 .. MaxTicks)
        BY <3>1
      <3>2. \A i \in 1 .. Len(exported) : exported[i] \in 1 .. MaxTicks
        BY <2>2 DEF QInv, IInv, Numbered
      <3>3. \A i \in 1 .. Len(handled) : handled[i] \in 1 .. MaxTicks
        BY <2>2 DEF QInv, IInv, Numbered
      <3>4. \A i \in 1 .. Len(workQueue) : workQueue[i] \in 1 .. MaxTicks
        BY <2>2 DEF QInv, IInv, Numbered
      <3>5. QED
        BY <3>1, <3>2, <3>3, <3>4 DEF QInv, IInv, Typed
    <2>4. late \in 0 .. MaxTicks
      BY <2>2 DEF QInv, IInv, Typed, Enumerated
    <2>5. QED
      BY <2>1, <2>3, <2>4 DEF TypeOK, QInv, Counted, Enumerated, Signalled
  <1>2. QED
    BY <1>1, QInvariance, PTL
=============================================================================

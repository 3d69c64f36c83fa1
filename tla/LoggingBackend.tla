---------------------------- MODULE LoggingBackend ----------------------------
(***************************************************************************)
(* SpdLoggingBackend on a graph that has been built: each tick is written  *)
(* line by line, and an interrupt may come at any time, from the signal    *)
(* handler or from another thread.                                         *)
(***************************************************************************)
EXTENDS PopulationGraph

CONSTANT MaxTicks          \* bound on the ticks exported

ASSUME LoggingAssumption == MaxTicks \in Nat

VARIABLES
    interruptedFlag,       \* LoggingBackend::interruptedFlag
    exports,               \* how many ticks have been exported
    lines,                 \* of the tick being written, those not written yet
    checked,               \* writeString has seen the flag down for this line
    log,                   \* the lines written, <<tick, line of the tick>>
    late                   \* history: lines written since the interrupt

loggingVars == <<interruptedFlag, exports, lines, checked, log, late>>
allVars == <<vars, loggingVars>>

\* The title, the graph, and the empty line that the last endl makes.
LinesOfATick == PrintedLines + 2

LoggingInit ==
    /\ Init
    /\ interruptedFlag = FALSE
    /\ exports = 0
    /\ lines = <<>>
    /\ checked = FALSE
    /\ log = <<>>
    /\ late = 0

ExportData ==
    /\ pc = "built" /\ lines = <<>> /\ exports < MaxTicks
    /\ exports' = exports + 1
    /\ lines' = [n \in 1 .. LinesOfATick |-> <<exports + 1, n>>]
    /\ UNCHANGED <<vars, interruptedFlag, checked, log, late>>

\* Mutant: the flag is looked at once for the tick.
CheckFlagOnce ==
    /\ lines # <<>> /\ ~checked
    /\ ~interruptedFlag \/ Len(lines) < LinesOfATick
    /\ checked' = TRUE
    /\ UNCHANGED <<vars, interruptedFlag, exports, lines, log, late>>

\* The flag is down: the line will be written.
CheckFlag ==
    /\ lines # <<>> /\ ~checked /\ ~interruptedFlag
    /\ checked' = TRUE
    /\ UNCHANGED <<vars, interruptedFlag, exports, lines, log, late>>

\* Mutant: the string is written, not the line.
WriteWhole ==
    /\ checked
    /\ log' = Append(log, lines)
    /\ lines' = Tail(lines)
    /\ checked' = FALSE
    /\ late' = late + (IF interruptedFlag THEN 1 ELSE 0)
    /\ UNCHANGED <<vars, interruptedFlag, exports>>

WriteLine ==
    /\ checked
    /\ log' = Append(log, Head(lines))
    /\ lines' = Tail(lines)
    /\ checked' = FALSE
    /\ late' = late + (IF interruptedFlag THEN 1 ELSE 0)
    /\ UNCHANGED <<vars, interruptedFlag, exports>>

\* Mutant: the flag is lowered again.
GiveUpLowersFlag ==
    /\ lines # <<>> /\ ~checked /\ interruptedFlag
    /\ lines' = <<>>
    /\ interruptedFlag' = FALSE
    /\ UNCHANGED <<vars, exports, checked, log, late>>

\* The flag is up: onInterrupt flushes what has been written and the rest of
\* the tick is given up.
GiveUp ==
    /\ lines # <<>> /\ ~checked /\ interruptedFlag
    /\ lines' = <<>>
    /\ UNCHANGED <<vars, interruptedFlag, exports, checked, log, late>>

\* LoggingBackend::interrupt, once there is a simulation to be interrupted;
\* nothing lowers the flag again.
Interrupt ==
    /\ pc = "built" /\ ~interruptedFlag
    /\ interruptedFlag' = TRUE
    /\ UNCHANGED <<vars, exports, lines, checked, log, late>>

WriteString == CheckFlag \/ WriteLine \/ GiveUp

\* The graph is built before there is a simulation to export it.
Prepare == exports = 0 /\ Next /\ UNCHANGED loggingVars

LoggingNext ==
    \/ Prepare
    \/ ExportData \/ WriteString \/ Interrupt

LoggingSpec ==
    /\ LoggingInit /\ [][LoggingNext]_allVars
    /\ WF_allVars(Prepare)

-----------------------------------------------------------------------------
LoggingTypeOK ==
    /\ TypeOK
    /\ interruptedFlag \in BOOLEAN /\ checked \in BOOLEAN
    /\ exports \in 0 .. MaxTicks
    /\ lines \in Seq((1 .. MaxTicks) \X Nat) /\ log \in Seq((1 .. MaxTicks) \X Nat)
    /\ late \in Nat

\* The log is what would have been written without the interrupt, up to some
\* line: no tick is missing in the middle, and only the last one is cut.
LogIsAPrefix ==
    \A n \in DOMAIN log :
        log[n] = <<(n - 1) \div LinesOfATick + 1, ((n - 1) % LinesOfATick) + 1>>

\* A line is "the smallest non-interruptible amount of work": no more than the
\* one that had been begun is written after the interrupt.
AtMostOneLateLine == late <= 1
=============================================================================

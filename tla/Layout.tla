-------------------------------- MODULE Layout --------------------------------
(***************************************************************************)
(* GraphLayout: calculateLayout, called any number of times on one layout. *)
(* Every call runs ticks on the points of the graph until a condition on   *)
(* their energy and on the number of ticks fails, and gives back a copy of *)
(* the graph and the box around it.                                        *)
(*                                                                         *)
(* One thread.  What is hard is what a call leaves to the next: the points *)
(* with their speeds stay in the layout, the count of ticks does not.      *)
(*                                                                         *)
(* The points are on a line, which no force ever leaves, at whole numbers; *)
(* what the code divides is rounded towards zero.  The mass of every point *)
(* is 1.0, and springs are as long as newSpring makes them.                *)
(***************************************************************************)
EXTENDS Integers, Sequences, FiniteSetsExt

CONSTANTS
    N,                            \* the number of people
    Springs,                      \* what populationGraph.edges() may be
    Placements,                   \* the places rand() may come up with
    Thresholds,                   \* twice the options for minEnergyThreshold
    TickLimits, NoMaximum,        \* options for maxTicks; the null pointer
    Repulsion, Stiffness, MaxSpeed,
    DampingNumerator, DampingDenominator,
    MaxCalls, TickBound           \* bounds on calls, and on unlimited ticks

Node == 1 .. N

ASSUME LayoutAssumption ==
    /\ N \in Nat
    /\ Springs \subseteq Seq(Node \X Node)
    /\ Placements \subseteq Int
    /\ Thresholds \subseteq Int
    /\ TickLimits \subseteq Nat
    /\ NoMaximum \notin Nat
    /\ {Repulsion, Stiffness, MaxSpeed, DampingNumerator, MaxCalls, TickBound}
            \subseteq Nat
    /\ DampingDenominator \in Nat \ {0}

VARIABLES
    maxTicks, minEnergyThreshold, \* the options of this layout
    springs,                      \* the edges of its graph
    position, velocity, acceleration,
    step,                         \* where the call is
    toVisit,                      \* pairs the loop of a force has not come to
    currentTick,
    placed,                       \* history: where makeGraph put the points
    results                       \* history: what the calls have given back

options == <<maxTicks, minEnergyThreshold, springs, placed>>
point == <<position, velocity, acceleration>>
vars == <<options, point, step, toVisit, currentTick, results>>

Init ==
    /\ maxTicks \in TickLimits \cup {NoMaximum}
    /\ minEnergyThreshold \in Thresholds
    /\ springs \in Springs
    /\ position \in [Node -> Placements]
    /\ velocity = [n \in Node |-> 0]
    /\ acceleration = [n \in Node |-> 0]
    /\ step = "idle"
    /\ toVisit = <<>>
    /\ currentTick = 0
    /\ placed = position
    /\ results = <<>>

-----------------------------------------------------------------------------
(* Vectors on the line. *)

Magnitude(v) == IF v < 0 THEN -v ELSE v

\* divide answers (0, 0) when it is asked to divide by zero.
Normalise(v) == IF v = 0 THEN 0 ELSE IF v < 0 THEN -1 ELSE 1

\* c * numerator / denominator for the two constants of a force.
Scaled(v, numerator, denominator) ==
    Normalise(v) * ((Magnitude(v) * numerator) \div denominator)

PointOf(n) == <<position[n], velocity[n], acceleration[n]>>

\* applyForce on both ends of a pair, the first before the second.
ApplyForces(pair, onFirst, onSecond) ==
    [[acceleration EXCEPT ![pair[1]] = @ + onFirst]
                   EXCEPT ![pair[2]] = @ + onSecond]

\* Twice the energy: the sum of the squares of the speeds.
EnergyOf(speeds) == MapThenSumSet(LAMBDA n : speeds[n] * speeds[n], Node)

TotalEnergy == EnergyOf(velocity)

-----------------------------------------------------------------------------
(* One tick. *)

\* mutatePointPairs: every ordered pair, a point with itself included.
AllPairs ==
    [k \in 1 .. N * N |-> <<((k - 1) \div N) + 1, ((k - 1) % N) + 1>>]

\* repulsion over half the square of the distance, which is longer by 0.1
\* than it is, in tenths.
Repulse(d) ==
    Normalise(d) * ((200 * Repulsion)
                        \div ((10 * Magnitude(d) + 1) * (10 * Magnitude(d) + 1)))

\* Points of which everything is equal are left as they are.
ApplyCoulombsLaw ==
    /\ step = "coulomb" /\ toVisit # <<>>
    /\ LET pair == Head(toVisit)
           force == Repulse(position[pair[1]] - position[pair[2]])
       IN IF PointOf(pair[1]) # PointOf(pair[2])
          THEN acceleration' = ApplyForces(pair, force, -force)
          ELSE UNCHANGED acceleration
    /\ toVisit' = Tail(toVisit)
    /\ UNCHANGED <<options, position, velocity, step, currentTick, results>>

CoulombsLawApplied ==
    /\ step = "coulomb" /\ toVisit = <<>>
    /\ step' = "hooke"
    /\ toVisit' = springs
    /\ UNCHANGED <<options, point, currentTick, results>>

\* A spring of length 1 pulls when it is longer and pushes when it is shorter.
SpringForce(pair) ==
    LET d == position[pair[2]] - position[pair[1]]
    IN Normalise(d) * Scaled(1 - Magnitude(d), Stiffness, 2)

\* Mutant: both ends are pushed the same way.
ApplyHookesLawOneWay ==
    /\ step = "hooke" /\ toVisit # <<>>
    /\ LET force == SpringForce(Head(toVisit))
       IN acceleration' = ApplyForces(Head(toVisit), force, force)
    /\ toVisit' = Tail(toVisit)
    /\ UNCHANGED <<options, position, velocity, step, currentTick, results>>

ApplyHookesLaw ==
    /\ step = "hooke" /\ toVisit # <<>>
    /\ LET force == SpringForce(Head(toVisit))
       IN acceleration' = ApplyForces(Head(toVisit), -force, force)
    /\ toVisit' = Tail(toVisit)
    /\ UNCHANGED <<options, position, velocity, step, currentTick, results>>

HookesLawApplied ==
    /\ step = "hooke" /\ toVisit = <<>>
    /\ step' = "center"
    /\ UNCHANGED <<options, point, toVisit, currentTick, results>>

AttractToCenter ==
    /\ step = "center"
    /\ acceleration' = [n \in Node |->
            acceleration[n] + Scaled(-position[n], Repulsion, 50)]
    /\ step' = "velocity"
    /\ UNCHANGED <<options, position, velocity, toVisit, currentTick, results>>

Capped(v) == IF Magnitude(v) > MaxSpeed THEN Normalise(v) * MaxSpeed ELSE v

\* Mutant: ticks are counted from one.
TickFromOne == currentTick + 1

\* tick(currentTick): the number of a tick is its length.  The first has none.
TickLength == currentTick

Accelerated(n) ==
    Capped(Scaled(velocity[n] + acceleration[n] * TickLength,
                  DampingNumerator, DampingDenominator))

\* Mutant: forces add up from tick to tick.
UpdateVelocityOnly ==
    /\ step = "velocity"
    /\ velocity' = [n \in Node |-> Accelerated(n)]
    /\ step' = "position"
    /\ UNCHANGED <<options, position, acceleration, toVisit, currentTick,
                   results>>

UpdateVelocity ==
    /\ step = "velocity"
    /\ velocity' = [n \in Node |-> Accelerated(n)]
    /\ acceleration' = [n \in Node |-> 0]
    /\ step' = "position"
    /\ UNCHANGED <<options, position, toVisit, currentTick, results>>

\* Mutant: the maximum is compared with a copy of the count.
UpdatePositionUncounted ==
    /\ step = "position"
    /\ position' = [n \in Node |-> position[n] + velocity[n] * TickLength]
    /\ step' = "condition"
    /\ UNCHANGED <<options, velocity, acceleration, toVisit, currentTick, results>>

\* Mutant: the count goes the wrong way.
UpdatePositionCountDown ==
    /\ step = "position"
    /\ position' = [n \in Node |-> position[n] + velocity[n] * TickLength]
    /\ step' = "condition"
    /\ currentTick' = currentTick - 1
    /\ UNCHANGED <<options, velocity, acceleration, toVisit, results>>

UpdatePosition ==
    /\ step = "position"
    /\ position' = [n \in Node |-> position[n] + velocity[n] * TickLength]
    /\ step' = "condition"
    /\ currentTick' = currentTick + 1
    /\ UNCHANGED <<options, velocity, acceleration, toVisit, results>>

-----------------------------------------------------------------------------
(* runSimulation and calculateLayout. *)

EnergyIsLow == TotalEnergy < minEnergyThreshold

\* Mutant: one of the two conditions is enough.
EitherCondition ==
    EnergyIsLow \/ (maxTicks # NoMaximum /\ currentTick < maxTicks)

\* The loop goes on while there is little energy, and ends when there is much.
Condition ==
    EnergyIsLow /\ (maxTicks # NoMaximum => currentTick < maxTicks)

\* Nothing remembers that the layout has been calculated before.
CalculateLayout ==
    /\ step = "idle" /\ Len(results) < MaxCalls
    /\ step' = "condition"
    /\ currentTick' = 0
    /\ UNCHANGED <<options, point, toVisit, results>>

Tick ==
    /\ step = "condition" /\ Condition
    /\ maxTicks = NoMaximum => currentTick < TickBound
    /\ step' = "coulomb"
    /\ toVisit' = AllPairs
    /\ UNCHANGED <<options, point, currentTick, results>>

\* getBoundingBox: at least from -2 to 2.
BoxAround(p) ==
    LET places == {p[n] : n \in Node} IN
    <<Min(places \cup {-2}), Max(places \cup {2})>>

Return ==
    /\ step = "condition" /\ ~Condition
    /\ step' = "idle"
    /\ results' = Append(results,
                         [position |-> position, box |-> BoxAround(position),
                          endedBy |-> IF EnergyIsLow THEN "ticks" ELSE "energy"])
    /\ UNCHANGED <<options, point, toVisit, currentTick>>

Running ==
    \/ Tick
    \/ ApplyCoulombsLaw \/ CoulombsLawApplied
    \/ ApplyHookesLaw \/ HookesLawApplied
    \/ AttractToCenter \/ UpdateVelocity \/ UpdatePosition
    \/ Return

Next == CalculateLayout \/ Running

\* A call that has begun is run by its thread; whether there is another call
\* is the caller's business.
Spec == Init /\ [][Next]_vars /\ WF_vars(Running)

-----------------------------------------------------------------------------
(* Properties *)

TypeOK ==
    /\ maxTicks \in TickLimits \cup {NoMaximum}
    /\ minEnergyThreshold \in Thresholds
    /\ springs \in Springs
    /\ placed \in [Node -> Int]
    /\ position \in [Node -> Int]
    /\ velocity \in [Node -> Int]
    /\ acceleration \in [Node -> Int]
    /\ step \in {"idle", "condition", "coulomb", "hooke", "center", "velocity",
                 "position"}
    /\ toVisit \in Seq(Node \X Node)
    /\ currentTick \in Nat
    /\ \A k \in DOMAIN results :
            /\ results[k].position \in [Node -> Int]
            /\ results[k].endedBy \in {"ticks", "energy"}

\* Repulsion and springs only push people about among themselves: after every
\* single visit of a pair or a spring the forces add up to none.  What is left
\* over from an earlier tick or an earlier call would show here.
ForcesCancel ==
    step \in {"coulomb", "hooke", "center"} =>
        SumFunctionOnSet(acceleration, Node) = 0

\* The first tick of every call has no length.  A layout that is limited to
\* one tick gives back the random places it began with, whatever the forces
\* are and however often it is asked.
OneTickIsNone ==
    maxTicks \in {0, 1} => position = placed

\* A call that was ended by the energy has ended the layout: nothing moves any
\* more in later calls, and all give back what it did.
StoppedIsFinal ==
    \A k \in DOMAIN results :
        results[k].endedBy = "energy" =>
            /\ position = results[k].position
            /\ \A m \in k .. Len(results) : results[m] = results[k]

\* With a maximum every call returns, whether or not the points come to rest.
LayoutEnds == (step = "condition" /\ maxTicks # NoMaximum) ~> step = "idle"

\* How many steps are left at most of a call with a maximum: so many for each
\* tick, those of the tick that runs, and the return.
PairVisits == N * N

StepsOfATick == PairVisits + Len(springs) + 6

TicksLeft == (maxTicks - currentTick) * StepsOfATick

DoneOfTheTick ==
    CASE step = "condition" -> 0
      [] step = "coulomb"   -> PairVisits + 1 - Len(toVisit)
      [] step = "hooke"     -> PairVisits + 2 + Len(springs) - Len(toVisit)
      [] step = "center"    -> StepsOfATick - 3
      [] step = "velocity"  -> StepsOfATick - 2
      [] OTHER              -> StepsOfATick - 1

StepsLeft == IF step = "idle" THEN 0 ELSE TicksLeft + 1 - DoneOfTheTick

\* No loop of a call goes round without coming to its end: not that over the
\* pairs, not that over the springs, and not that of the ticks.
EveryStepCounts ==
    [][maxTicks # NoMaximum /\ step # "idle" => StepsLeft' < StepsLeft]_vars

\* "calling this multiple times *should* only run the simulation once": what
\* the first call has given back is where the points stay.
CalculatedOnce ==
    results # <<>> => position = results[1].position
=============================================================================

----------------------------- MODULE LayoutProofs -----------------------------
(***************************************************************************)
(* What Layout.tla promises, for every number of people, every graph,      *)
(* every placement and all options.                                        *)
(***************************************************************************)
EXTENDS Layout, FoldProofs

USE LayoutAssumption DEF Node

-----------------------------------------------------------------------------
(* Forces are whole numbers: nothing is divided by zero. *)

LEMMA ScaledInt ==
    ASSUME NEW v \in Int, NEW numerator \in Nat, NEW denominator \in Nat \ {0}
    PROVE  Scaled(v, numerator, denominator) \in Int
  <1>1. Magnitude(v) \in Nat /\ Normalise(v) \in {-1, 0, 1}
    BY DEF Magnitude, Normalise
  <1>2. Magnitude(v) * numerator \in Nat
    BY <1>1
  <1>3. (Magnitude(v) * numerator) \div denominator \in Int
    BY <1>2
  <1>4. QED
    BY <1>1, <1>3 DEF Scaled

LEMMA RepulseInt == ASSUME NEW d \in Int PROVE Repulse(d) \in Int
  <1> DEFINE tenths == 10 * Magnitude(d) + 1
  <1>1. Magnitude(d) \in Nat /\ Normalise(d) \in {-1, 0, 1}
    BY DEF Magnitude, Normalise
  <1>2. tenths \in Nat /\ tenths >= 1
    BY <1>1
  <1> HIDE DEF tenths
  <1>3. tenths * tenths \in Nat /\ tenths * tenths >= 1
    BY <1>2
  <1>4. (200 * Repulsion) \div (tenths * tenths) \in Int
    BY <1>3
  <1>5. Repulse(d) = Normalise(d) * ((200 * Repulsion) \div (tenths * tenths))
    BY DEF Repulse, tenths
  <1>6. QED
    BY <1>1, <1>4, <1>5

LEMMA SpringForceInt ==
    ASSUME NEW pair \in Node \X Node, position \in [Node -> Int]
    PROVE  SpringForce(pair) \in Int
  <1> DEFINE d == position[pair[2]] - position[pair[1]]
  <1>1. d \in Int
    OBVIOUS
  <1> HIDE DEF d
  <1>2. Normalise(d) \in {-1, 0, 1} /\ 1 - Magnitude(d) \in Int
    BY <1>1 DEF Normalise, Magnitude
  <1>3. Scaled(1 - Magnitude(d), Stiffness, 2) \in Int
    BY <1>2, ScaledInt
  <1>4. SpringForce(pair) = Normalise(d) * Scaled(1 - Magnitude(d), Stiffness, 2)
    BY DEF SpringForce, d
  <1>5. QED
    BY <1>2, <1>3, <1>4

LEMMA AcceleratedInt ==
    ASSUME TypeOK, NEW n \in Node
    PROVE  Accelerated(n) \in Int
  <1>1. velocity[n] + acceleration[n] * TickLength \in Int
    BY DEF TypeOK, TickLength
  <1> DEFINE damped == Scaled(velocity[n] + acceleration[n] * TickLength,
                              DampingNumerator, DampingDenominator)
  <1>2. damped \in Int
    BY <1>1, ScaledInt
  <1> HIDE DEF damped
  <1>3. Capped(damped) \in Int
    BY <1>2 DEF Capped, Normalise, Magnitude
  <1>4. QED
    BY <1>3 DEF Accelerated, damped

-----------------------------------------------------------------------------
(***************************************************************************)
(* The inductive invariant.                                                *)
(*                                                                         *)
(* Result: the box in a result is the one around its points.               *)
(* Quiet: with at most one tick the only tick there is has no length, so   *)
(*   nobody gets a speed to be moved by.                                   *)
(* Final: after a call that the energy ended the energy is still too high, *)
(*   so no later call gets past its condition.                             *)
(***************************************************************************)
ResultOf(p, e) == [position |-> p, box |-> BoxAround(p), endedBy |-> e]

Result ==
    {ResultOf(pe[1], pe[2]) : pe \in [Node -> Int] \X {"ticks", "energy"}}

Quiet ==
    maxTicks \in {0, 1} =>
        /\ position = placed
        /\ velocity = [n \in Node |-> 0]
        /\ step \notin {"idle", "condition"} => currentTick = 0

Final ==
    \A k \in DOMAIN results : results[k].endedBy = "energy" =>
        /\ step \in {"idle", "condition"}
        /\ ~EnergyIsLow
        /\ position = results[k].position
        /\ \A m \in k .. Len(results) : results[m] = results[k]

LayoutInv == TypeOK /\ results \in Seq(Result) /\ Quiet /\ Final

LEMMA InitInvariant == Init => LayoutInv
  <1> SUFFICES ASSUME Init PROVE LayoutInv
    OBVIOUS
  <1>1. TypeOK
    <2>1. position \in [Node -> Int] /\ placed \in [Node -> Int]
      BY DEF Init
    <2>2. velocity \in [Node -> Int] /\ acceleration \in [Node -> Int]
      BY DEF Init
    <2>3. results = <<>> /\ DOMAIN results = {}
      BY DEF Init
    <2>4. QED
      BY <2>1, <2>2, <2>3 DEF Init, TypeOK
  <1>2. results \in Seq(Result) /\ Quiet /\ Final
    BY DEF Init, Quiet, Final
  <1>3. QED
    BY <1>1, <1>2 DEF LayoutInv

LEMMA AllPairsType == AllPairs \in Seq(Node \X Node)
  <1>1. N * N \in Nat
    OBVIOUS
  <1>2. ASSUME NEW k \in 1 .. N * N
        PROVE  ((k - 1) \div N) + 1 \in Node /\ ((k - 1) % N) + 1 \in Node
    <2>1. N >= 1 /\ k - 1 \in Nat /\ k - 1 < N * N
      BY <1>1, <1>2
    <2>2. (k - 1) % N \in 0 .. N - 1
      BY <2>1
    <2>3. (k - 1) \div N \in 0 .. N - 1
      <3> DEFINE q == (k - 1) \div N
      <3>1. q \in Int /\ k - 1 = N * q + ((k - 1) % N)
        BY <2>1
      <3>2. q >= 0
        BY <2>1
      <3>3. q < N
        <4> SUFFICES ASSUME q >= N PROVE FALSE
          BY <3>1
        <4> HIDE DEF q
        <4>1. q - N \in Nat /\ N * (q - N) \in Nat /\ N * q = N * N + N * (q - N)
          BY <2>1, <3>1
        <4>2. QED
          BY <1>1, <2>1, <2>2, <3>1, <4>1
      <3>4. QED
        BY <3>1, <3>2, <3>3
    <2>4. QED
      BY <2>2, <2>3
  <1>3. QED
    BY <1>1, <1>2 DEF AllPairs

-----------------------------------------------------------------------------
(* One lemma per action. *)

\* Inside a tick no call has been ended by the energy yet.
LEMMA FinalInsideATick ==
    ASSUME LayoutInv, step \notin {"idle", "condition"}, UNCHANGED results
    PROVE  Final'
  BY DEF LayoutInv, Final

LEMMA CalculateLayoutStep ==
    ASSUME LayoutInv, CalculateLayout PROVE LayoutInv'
  <1>1. TypeOK'
    BY DEF LayoutInv, TypeOK, CalculateLayout, options, point
  <1>2. Quiet'
    BY DEF LayoutInv, Quiet, CalculateLayout, options, point
  <1>3. Final'
    BY DEF LayoutInv, Final, CalculateLayout, options, point, EnergyIsLow,
           TotalEnergy
  <1>4. QED
    BY <1>1, <1>2, <1>3 DEF LayoutInv, CalculateLayout

LEMMA TickStep == ASSUME LayoutInv, Tick PROVE LayoutInv'
  <1>1. TypeOK'
    BY AllPairsType DEF LayoutInv, TypeOK, Tick, options, point
  <1>2. Quiet'
    <2>1. maxTicks \in {0, 1} => currentTick = 0
      BY DEF LayoutInv, TypeOK, Tick, Condition
    <2>2. QED
      BY <2>1 DEF LayoutInv, Quiet, Tick, options, point
  <1>3. Final'
    BY DEF LayoutInv, Final, Tick, Condition
  <1>4. QED
    BY <1>1, <1>2, <1>3 DEF LayoutInv, Tick

LEMMA HeadAndTail ==
    ASSUME NEW S, NEW s \in Seq(S), s # <<>>
    PROVE  Head(s) \in S /\ Tail(s) \in Seq(S)
  OBVIOUS

LEMMA ApplyForcesType ==
    ASSUME TypeOK, NEW pair \in Node \X Node,
           NEW onFirst \in Int, NEW onSecond \in Int
    PROVE  ApplyForces(pair, onFirst, onSecond) \in [Node -> Int]
  <1>1. pair[1] \in Node /\ pair[2] \in Node
    OBVIOUS
  <1>2. acceleration \in [Node -> Int]
    BY DEF TypeOK
  <1> DEFINE first == [acceleration EXCEPT ![pair[1]] = @ + onFirst]
             second == [first EXCEPT ![pair[2]] = @ + onSecond]
  <1>3. first \in [Node -> Int]
    BY <1>1, <1>2
  <1> HIDE DEF first
  <1>4. second \in [Node -> Int]
    BY <1>1, <1>3
  <1>5. QED
    BY <1>4 DEF ApplyForces, first

LEMMA CoulombStep == ASSUME LayoutInv, ApplyCoulombsLaw PROVE LayoutInv'
  <1>1. Head(toVisit) \in Node \X Node /\ Tail(toVisit) \in Seq(Node \X Node)
    BY HeadAndTail DEF LayoutInv, TypeOK, ApplyCoulombsLaw
  <1>2. acceleration' \in [Node -> Int]
    <2> DEFINE pair == Head(toVisit)
               force == Repulse(position[pair[1]] - position[pair[2]])
    <2>1. pair \in Node \X Node
      BY <1>1
    <2>2. force \in Int
      <3> HIDE DEF pair
      <3>1. pair[1] \in Node /\ pair[2] \in Node
        BY <2>1
      <3>2. position[pair[1]] \in Int /\ position[pair[2]] \in Int
        BY <3>1 DEF LayoutInv, TypeOK
      <3>3. position[pair[1]] - position[pair[2]] \in Int
        BY <3>2
      <3>4. QED
        BY <3>3, RepulseInt
    <2>3. acceleration' = ApplyForces(pair, force, -force)
          \/ acceleration' = acceleration
      BY DEF ApplyCoulombsLaw
    <2> HIDE DEF pair, force
    <2>4. ApplyForces(pair, force, -force) \in [Node -> Int]
      BY <2>1, <2>2, ApplyForcesType DEF LayoutInv
    <2>5. QED
      BY <2>3, <2>4 DEF LayoutInv, TypeOK
  <1>3. TypeOK'
    BY <1>1, <1>2 DEF LayoutInv, TypeOK, ApplyCoulombsLaw, options
  <1>4. Quiet'
    BY DEF LayoutInv, Quiet, ApplyCoulombsLaw, options
  <1>5. Final'
    BY FinalInsideATick DEF ApplyCoulombsLaw
  <1>6. QED
    BY <1>3, <1>4, <1>5 DEF LayoutInv, ApplyCoulombsLaw

LEMMA CoulombAppliedStep ==
    ASSUME LayoutInv, CoulombsLawApplied PROVE LayoutInv'
  <1>1. TypeOK'
    BY DEF LayoutInv, TypeOK, CoulombsLawApplied, options, point
  <1>2. Quiet'
    BY DEF LayoutInv, Quiet, CoulombsLawApplied, options, point
  <1>3. Final'
    BY FinalInsideATick DEF CoulombsLawApplied
  <1>4. QED
    BY <1>1, <1>2, <1>3 DEF LayoutInv, CoulombsLawApplied

LEMMA HookeStep == ASSUME LayoutInv, ApplyHookesLaw PROVE LayoutInv'
  <1>1. Head(toVisit) \in Node \X Node /\ Tail(toVisit) \in Seq(Node \X Node)
    BY HeadAndTail DEF LayoutInv, TypeOK, ApplyHookesLaw
  <1>2. acceleration' \in [Node -> Int]
    <2> DEFINE force == SpringForce(Head(toVisit))
    <2>1. force \in Int
      BY <1>1, SpringForceInt DEF LayoutInv, TypeOK
    <2>2. acceleration' = ApplyForces(Head(toVisit), -force, force)
      BY DEF ApplyHookesLaw
    <2> HIDE DEF force
    <2>3. -force \in Int
      BY <2>1
    <2>4. QED
      BY <1>1, <2>1, <2>2, <2>3, ApplyForcesType DEF LayoutInv
  <1>3. TypeOK'
    BY <1>1, <1>2 DEF LayoutInv, TypeOK, ApplyHookesLaw, options
  <1>4. Quiet'
    BY DEF LayoutInv, Quiet, ApplyHookesLaw, options
  <1>5. Final'
    BY FinalInsideATick DEF ApplyHookesLaw
  <1>6. QED
    BY <1>3, <1>4, <1>5 DEF LayoutInv, ApplyHookesLaw

LEMMA HookeAppliedStep ==
    ASSUME LayoutInv, HookesLawApplied PROVE LayoutInv'
  <1>1. TypeOK'
    BY DEF LayoutInv, TypeOK, HookesLawApplied, options, point
  <1>2. Quiet'
    BY DEF LayoutInv, Quiet, HookesLawApplied, options, point
  <1>3. Final'
    BY FinalInsideATick DEF HookesLawApplied
  <1>4. QED
    BY <1>1, <1>2, <1>3 DEF LayoutInv, HookesLawApplied

LEMMA CenterStep == ASSUME LayoutInv, AttractToCenter PROVE LayoutInv'
  <1>1. acceleration' \in [Node -> Int]
    <2>1. ASSUME NEW n \in Node
          PROVE  acceleration[n] + Scaled(-position[n], Repulsion, 50) \in Int
      <3>1. acceleration[n] \in Int /\ -position[n] \in Int
        BY DEF LayoutInv, TypeOK
      <3>2. Scaled(-position[n], Repulsion, 50) \in Int
        <4>1. Repulsion \in Nat /\ 50 \in Nat \ {0}
          OBVIOUS
        <4>2. QED
          BY ONLY <3>1, <4>1, ScaledInt
      <3>3. QED
        BY <3>1, <3>2
    <2>2. QED
      BY <2>1 DEF AttractToCenter
  <1>2. TypeOK'
    BY <1>1 DEF LayoutInv, TypeOK, AttractToCenter, options
  <1>3. Quiet'
    BY DEF LayoutInv, Quiet, AttractToCenter, options
  <1>4. Final'
    BY FinalInsideATick DEF AttractToCenter
  <1>5. QED
    BY <1>2, <1>3, <1>4 DEF LayoutInv, AttractToCenter

\* Whoever is at rest in a tick without length stays at rest.
LEMMA AtRestStaysAtRest ==
    ASSUME TypeOK, currentTick = 0, NEW n \in Node, velocity[n] = 0
    PROVE  Accelerated(n) = 0
  <1>1. velocity[n] + acceleration[n] * TickLength = 0
    BY DEF TypeOK, TickLength
  <1>2. Scaled(0, DampingNumerator, DampingDenominator) = 0
    <2>1. (Magnitude(0) * DampingNumerator) \div DampingDenominator \in Int
      BY DEF Magnitude
    <2>2. QED
      BY <2>1 DEF Scaled, Normalise
  <1>3. Capped(0) = 0
    BY DEF Capped, Magnitude
  <1>4. QED
    BY <1>1, <1>2, <1>3 DEF Accelerated

LEMMA VelocityStep == ASSUME LayoutInv, UpdateVelocity PROVE LayoutInv'
  <1>1. velocity' \in [Node -> Int] /\ acceleration' \in [Node -> Int]
    BY AcceleratedInt DEF LayoutInv, UpdateVelocity
  <1>2. TypeOK'
    BY <1>1 DEF LayoutInv, TypeOK, UpdateVelocity, options
  <1>3. Quiet'
    <2> SUFFICES ASSUME maxTicks \in {0, 1}
                 PROVE  velocity' = [n \in Node |-> 0]
      BY DEF LayoutInv, Quiet, UpdateVelocity, options
    <2>1. currentTick = 0 /\ \A n \in Node : velocity[n] = 0
      BY DEF LayoutInv, Quiet, UpdateVelocity
    <2>2. \A n \in Node : Accelerated(n) = 0
      BY <2>1, AtRestStaysAtRest DEF LayoutInv
    <2>3. QED
      BY <2>2 DEF UpdateVelocity
  <1>4. Final'
    BY FinalInsideATick DEF UpdateVelocity
  <1>5. QED
    BY <1>2, <1>3, <1>4 DEF LayoutInv, UpdateVelocity

LEMMA PositionStep == ASSUME LayoutInv, UpdatePosition PROVE LayoutInv'
  <1>1. position' \in [Node -> Int]
    BY DEF LayoutInv, TypeOK, UpdatePosition, TickLength
  <1>2. TypeOK'
    BY <1>1 DEF LayoutInv, TypeOK, UpdatePosition, options
  <1>3. Quiet'
    <2> SUFFICES ASSUME maxTicks \in {0, 1} PROVE position' = position
      BY DEF LayoutInv, Quiet, UpdatePosition, options
    <2>1. \A n \in Node : position[n] \in Int /\ velocity[n] = 0
      BY DEF LayoutInv, TypeOK, Quiet
    <2>2. \A n \in Node : position[n] + velocity[n] * TickLength = position[n]
      BY <2>1 DEF LayoutInv, TypeOK, TickLength
    <2>3. QED
      BY <2>2 DEF LayoutInv, TypeOK, UpdatePosition
  <1>4. Final'
    BY FinalInsideATick DEF UpdatePosition
  <1>5. QED
    BY <1>2, <1>3, <1>4 DEF LayoutInv, UpdatePosition

LEMMA ReturnStep == ASSUME LayoutInv, Return PROVE LayoutInv'
  <1> DEFINE how == IF EnergyIsLow THEN "ticks" ELSE "energy"
             new == [position |-> position, box |-> BoxAround(position),
                     endedBy |-> how]
  <1>1. results' = Append(results, new)
    BY DEF Return
  <1>2. position \in [Node -> Int] /\ how \in {"ticks", "energy"}
    BY DEF LayoutInv, TypeOK
  <1>3. new \in Result
    <2> HIDE DEF how
    <2> DEFINE pe == <<position, how>>
    <2>1. pe \in [Node -> Int] \X {"ticks", "energy"}
          /\ pe[1] = position /\ pe[2] = how
      BY <1>2
    <2>2. new = ResultOf(pe[1], pe[2])
      BY <2>1 DEF ResultOf
    <2> HIDE DEF pe, new
    <2>3. QED
      BY <2>1, <2>2 DEF Result
  <1>4. results \in Seq(Result)
    BY DEF LayoutInv
  <1>5. /\ new.position = position
        /\ new.box = BoxAround(position)
        /\ new.endedBy = how
    OBVIOUS
  <1> HIDE DEF new
  <1>6. /\ results' \in Seq(Result)
        /\ Len(results') = Len(results) + 1
        /\ \A k \in 1 .. Len(results) : results'[k] = results[k]
        /\ results'[Len(results) + 1] = new
        /\ DOMAIN results = 1 .. Len(results)
        /\ DOMAIN results' = 1 .. Len(results) + 1
        /\ Len(results) \in Nat
    BY <1>1, <1>3, <1>4
  <1>7. TypeOK'
    <2>1. \A k \in DOMAIN results' :
                /\ results'[k].position \in [Node -> Int]
                /\ results'[k].endedBy \in {"ticks", "energy"}
      BY <1>6 DEF Result, ResultOf
    <2>2. QED
      BY <2>1 DEF LayoutInv, TypeOK, Return, options, point
  <1>8. Quiet'
    BY DEF LayoutInv, Quiet, Return, options, point
  <1>9. Final'
    <2> SUFFICES ASSUME NEW k \in DOMAIN results', results'[k].endedBy = "energy"
                 PROVE  /\ ~EnergyIsLow
                        /\ position = results'[k].position
                        /\ \A m \in k .. Len(results') : results'[m] = results'[k]
      BY DEF Final, Return, options, point, EnergyIsLow, TotalEnergy
    <2>1. CASE k = Len(results) + 1
      BY <1>5, <1>6, <2>1
    <2>2. CASE k # Len(results) + 1
      <3>1. k \in 1 .. Len(results) /\ results'[k] = results[k]
        BY <1>6, <2>2
      <3>2. /\ ~EnergyIsLow
            /\ position = results[k].position
            /\ \A m \in k .. Len(results) : results[m] = results[k]
        BY <1>6, <3>1 DEF LayoutInv, Final
      <3>3. new = results[k]
        <4>1. results[k] \in Result /\ results[k].endedBy = "energy"
          BY <1>4, <3>1
        <4>2. results[k] = [position |-> position, box |-> BoxAround(position),
                            endedBy |-> "energy"]
          BY <4>1, <3>2 DEF Result, ResultOf
        <4>3. QED
          BY <3>2, <4>2 DEF new
      <3>4. QED
        BY <1>6, <3>1, <3>2, <3>3
    <2>3. QED
      BY <2>1, <2>2
  <1>10. QED
    BY <1>6, <1>7, <1>8, <1>9 DEF LayoutInv

LEMMA LayoutStep == ASSUME LayoutInv, [Next]_vars PROVE LayoutInv'
  <1>1. CASE UNCHANGED vars
    BY <1>1 DEF LayoutInv, TypeOK, Quiet, Final, vars, options, point,
                EnergyIsLow, TotalEnergy
  <1>2. QED
    BY <1>1, CalculateLayoutStep, TickStep, CoulombStep, CoulombAppliedStep,
       HookeStep, HookeAppliedStep, CenterStep, VelocityStep, PositionStep,
       ReturnStep
    DEF Next, Running

-----------------------------------------------------------------------------
(***************************************************************************)
(* Forces cancel.  Outside the loops of the forces nobody is accelerated;  *)
(* from there on every visit of a pair adds a force and its opposite.      *)
(***************************************************************************)
Unforced ==
    step \in {"idle", "condition", "position"} =>
        \A n \in Node : acceleration[n] = 0

Balanced == Unforced /\ ForcesCancel

LEMMA NodesAreFinite == IsFiniteSet(Node)
  BY FS_Interval

\* What one of the ends of a pair gets, the forces together get.
LEMMA ForceAdds ==
    ASSUME NEW f \in [Node -> Int], NEW n \in Node, NEW force \in Int
    PROVE  /\ [f EXCEPT ![n] = @ + force] \in [Node -> Int]
           /\ SumFunctionOnSet([f EXCEPT ![n] = @ + force], Node) =
                    SumFunctionOnSet(f, Node) + force
  <1> DEFINE g == [f EXCEPT ![n] = @ + force]
  <1>1. g \in [Node -> Int] /\ g[n] = f[n] + force /\ f[n] \in Int
    OBVIOUS
  <1>2. \A x \in Node \ {n} : g[x] = f[x]
    OBVIOUS
  <1> HIDE DEF g
  <1>3. \A x \in Node : f[x] \in Int /\ g[x] \in Int
    BY <1>1
  <1>4. SumFunctionOnSet(g, Node) = SumFunctionOnSet(f, Node) + (g[n] - f[n])
    BY ONLY <1>2, <1>3, NodesAreFinite, SumOfChanged, n \in Node
  <1>5. g[n] - f[n] = force
    BY <1>1
  <1>6. QED
    BY <1>1, <1>4, <1>5 DEF g

LEMMA OppositesCancel ==
    ASSUME TypeOK, NEW pair \in Node \X Node, NEW force \in Int,
           NEW against \in Int, force + against = 0
    PROVE  SumFunctionOnSet(ApplyForces(pair, force, against), Node) =
                SumFunctionOnSet(acceleration, Node)
  <1> DEFINE first == [acceleration EXCEPT ![pair[1]] = @ + force]
             second == [first EXCEPT ![pair[2]] = @ + against]
  <1>1. pair[1] \in Node /\ pair[2] \in Node /\ acceleration \in [Node -> Int]
    BY DEF TypeOK
  <1>2. /\ first \in [Node -> Int]
        /\ SumFunctionOnSet(first, Node) =
                SumFunctionOnSet(acceleration, Node) + force
    BY ONLY <1>1, ForceAdds, force \in Int
  <1> HIDE DEF first
  <1>3. SumFunctionOnSet(second, Node) = SumFunctionOnSet(first, Node) + against
    BY ONLY <1>1, <1>2, ForceAdds, against \in Int
  <1>4. SumFunctionOnSet(acceleration, Node) \in Int
    BY <1>1, NodesAreFinite, SumIsInteger
  <1>5. QED
    BY <1>2, <1>3, <1>4 DEF ApplyForces, first

LEMMA BalancedInit == Init => Balanced
  <1> SUFFICES ASSUME Init PROVE Balanced
    OBVIOUS
  <1>1. \A n \in Node : acceleration[n] = 0
    BY DEF Init
  <1>2. QED
    BY <1>1 DEF Init, Balanced, Unforced, ForcesCancel

LEMMA BalancedStep == ASSUME LayoutInv, Balanced, [Next]_vars PROVE Balanced'
  <1>1. CASE Tick
    <2>1. \A n \in Node : acceleration[n] = 0
      BY <1>1 DEF Tick, Balanced, Unforced
    <2>2. SumFunctionOnSet(acceleration, Node) = 0
      BY <2>1, NodesAreFinite, SumOfNothing
    <2>3. step' = "coulomb" /\ acceleration' = acceleration
      BY <1>1 DEF Tick, point
    <2>4. QED
      BY <2>2, <2>3 DEF Balanced, Unforced, ForcesCancel
  <1>2. CASE ApplyCoulombsLaw
    <2> DEFINE pair == Head(toVisit)
               force == Repulse(position[pair[1]] - position[pair[2]])
    <2>1. pair \in Node \X Node
      BY <1>2, HeadAndTail DEF LayoutInv, TypeOK, ApplyCoulombsLaw
    <2>2. acceleration' = ApplyForces(pair, force, -force)
            \/ acceleration' = acceleration
      BY <1>2 DEF ApplyCoulombsLaw
    <2> HIDE DEF pair
    <2>3. position[pair[1]] - position[pair[2]] \in Int
      <3>1. pair[1] \in Node /\ pair[2] \in Node
        BY <2>1
      <3>2. position[pair[1]] \in Int /\ position[pair[2]] \in Int
        BY <3>1 DEF LayoutInv, TypeOK
      <3>3. QED
        BY <3>2
    <2>4. force \in Int
      BY <2>3, RepulseInt
    <2> HIDE DEF force
    <2>5. -force \in Int /\ force + (-force) = 0
      BY <2>4
    <2>6. SumFunctionOnSet(acceleration', Node)
            = SumFunctionOnSet(acceleration, Node)
      <3>1. TypeOK
        BY DEF LayoutInv
      <3>2. SumFunctionOnSet(ApplyForces(pair, force, -force), Node)
                = SumFunctionOnSet(acceleration, Node)
        BY ONLY <2>1, <2>4, <2>5, <3>1, OppositesCancel
      <3>3. QED
        BY <2>2, <3>2
    <2>7. QED
      BY <1>2, <2>6 DEF ApplyCoulombsLaw, Balanced, Unforced, ForcesCancel
  <1>3. CASE ApplyHookesLaw
    <2> DEFINE force == SpringForce(Head(toVisit))
    <2>1. Head(toVisit) \in Node \X Node
      BY <1>3, HeadAndTail DEF LayoutInv, TypeOK, ApplyHookesLaw
    <2>2. acceleration' = ApplyForces(Head(toVisit), -force, force)
      BY <1>3 DEF ApplyHookesLaw
    <2>3. force \in Int
      BY <2>1, SpringForceInt DEF LayoutInv, TypeOK
    <2> HIDE DEF force
    <2>4. -force \in Int /\ (-force) + force = 0
      BY <2>3
    <2>5. SumFunctionOnSet(acceleration', Node)
            = SumFunctionOnSet(acceleration, Node)
      <3>1. TypeOK
        BY DEF LayoutInv
      <3>2. SumFunctionOnSet(ApplyForces(Head(toVisit), -force, force), Node)
                = SumFunctionOnSet(acceleration, Node)
        BY ONLY <2>1, <2>3, <2>4, <3>1, OppositesCancel
      <3>3. QED
        BY <2>2, <3>2
    <2>6. QED
      BY <1>3, <2>5 DEF ApplyHookesLaw, Balanced, Unforced, ForcesCancel
  <1>4. CASE UpdateVelocity
    <2>1. step' = "position" /\ \A n \in Node : acceleration'[n] = 0
      BY <1>4 DEF UpdateVelocity
    <2>2. QED
      BY <2>1 DEF Balanced, Unforced, ForcesCancel
  <1>5. CASE UNCHANGED vars
    BY <1>5 DEF Balanced, Unforced, ForcesCancel, vars, point
  <1>6. CASE \/ CalculateLayout \/ CoulombsLawApplied \/ HookesLawApplied
             \/ AttractToCenter \/ UpdatePosition \/ Return
    BY <1>6 DEF Balanced, Unforced, ForcesCancel, CalculateLayout,
        CoulombsLawApplied, HookesLawApplied, AttractToCenter, UpdatePosition,
        Return, point
  <1>7. QED
    BY <1>1, <1>2, <1>3, <1>4, <1>5, <1>6 DEF Next, Running

-----------------------------------------------------------------------------
(***************************************************************************)
(* The steps that are left of a call with a maximum.                       *)
(***************************************************************************)
Ticking == {"coulomb", "hooke", "center", "velocity", "position"}

WithinTheMaximum ==
    maxTicks # NoMaximum =>
        /\ currentTick <= maxTicks
        /\ step \in Ticking => currentTick < maxTicks
        /\ step = "coulomb" => Len(toVisit) <= PairVisits
        /\ step = "hooke" => Len(toVisit) <= Len(springs)

LEMMA EveryPairIsCounted == PairVisits \in Nat /\ Len(AllPairs) = PairVisits
  <1>1. N * N \in Nat
    BY OneFactorLess
  <1> DEFINE n == N * N
  <1> HIDE DEF n
  <1>2. n \in Nat => Len([k \in 1 .. n |-> <<((k - 1) \div N) + 1, ((k - 1) % N) + 1>>]) = n
    OBVIOUS
  <1>3. QED
    BY <1>1, <1>2 DEF AllPairs, PairVisits, n

LEMMA MaximumIsANumber ==
    ASSUME LayoutInv, maxTicks # NoMaximum
    PROVE  maxTicks \in Nat /\ currentTick \in Nat
  BY DEF LayoutInv, TypeOK

LEMMA ListsHaveLengths ==
    ASSUME LayoutInv
    PROVE  /\ Len(springs) \in Nat /\ Len(toVisit) \in Nat
           /\ toVisit # <<>> => Len(Tail(toVisit)) = Len(toVisit) - 1
           /\ toVisit = <<>> => Len(toVisit) = 0
  <1>1. springs \in Seq(Node \X Node) /\ toVisit \in Seq(Node \X Node)
    BY DEF LayoutInv, TypeOK
  <1>2. QED
    BY <1>1

LEMMA WithinTheMaximumInit == Init => WithinTheMaximum
  BY DEF Init, WithinTheMaximum, Ticking

LEMMA WithinTheMaximumStep ==
    ASSUME LayoutInv, WithinTheMaximum, [Next]_vars PROVE WithinTheMaximum'
  <1> SUFFICES ASSUME maxTicks' # NoMaximum
               PROVE  /\ currentTick' <= maxTicks'
                      /\ step' \in Ticking => currentTick' < maxTicks'
                      /\ step' = "coulomb" => Len(toVisit') <= PairVisits
                      /\ step' = "hooke" => Len(toVisit') <= Len(springs')
    BY DEF WithinTheMaximum
  <1>1. maxTicks' = maxTicks /\ springs' = springs
    BY DEF Next, Running, vars, options, CalculateLayout, Tick, ApplyCoulombsLaw,
        CoulombsLawApplied, ApplyHookesLaw, HookesLawApplied, AttractToCenter,
        UpdateVelocity, UpdatePosition, Return
  <1>2. /\ maxTicks \in Nat /\ currentTick \in Nat /\ PairVisits \in Nat
        /\ Len(springs) \in Nat /\ Len(toVisit) \in Nat
    BY <1>1, MaximumIsANumber, EveryPairIsCounted, ListsHaveLengths
  <1>3. /\ currentTick <= maxTicks
        /\ step \in Ticking => currentTick < maxTicks
        /\ step = "coulomb" => Len(toVisit) <= PairVisits
        /\ step = "hooke" => Len(toVisit) <= Len(springs)
    BY <1>1 DEF WithinTheMaximum
  <1>4. CASE UNCHANGED vars
    BY <1>1, <1>3, <1>4 DEF vars
  <1>5. CASE CalculateLayout
    BY <1>1, <1>2, <1>5 DEF CalculateLayout, Ticking
  <1>6. CASE Tick
    <2>1. step' = "coulomb" /\ toVisit' = AllPairs /\ currentTick' = currentTick
          /\ currentTick < maxTicks
      BY <1>1, <1>6 DEF Tick, Condition
    <2>2. Len(toVisit') <= PairVisits
      BY <1>2, <2>1, EveryPairIsCounted
    <2>3. QED
      BY <1>1, <1>3, <2>1, <2>2
  <1>7. CASE ApplyCoulombsLaw \/ ApplyHookesLaw
    <2>1. /\ step \in {"coulomb", "hooke"} /\ step' = step /\ toVisit # <<>>
          /\ toVisit' = Tail(toVisit) /\ currentTick' = currentTick
      BY <1>7 DEF ApplyCoulombsLaw, ApplyHookesLaw
    <2>2. Len(toVisit') = Len(toVisit) - 1
      BY <2>1, ListsHaveLengths
    <2>3. QED
      BY <1>1, <1>2, <1>3, <2>1, <2>2 DEF Ticking
  <1>8. CASE CoulombsLawApplied
    BY <1>1, <1>2, <1>3, <1>8 DEF CoulombsLawApplied, Ticking
  <1>9. CASE HookesLawApplied \/ AttractToCenter \/ UpdateVelocity
    BY <1>1, <1>3, <1>9 DEF HookesLawApplied, AttractToCenter, UpdateVelocity, Ticking
  <1>10. CASE UpdatePosition
    <2>1. step = "position" /\ step' = "condition" /\ currentTick' = currentTick + 1
      BY <1>10 DEF UpdatePosition
    <2>2. QED
      BY <1>1, <1>2, <1>3, <2>1 DEF Ticking
  <1>11. CASE Return
    BY <1>1, <1>3, <1>11 DEF Return, Ticking
  <1>12. QED
    BY <1>4, <1>5, <1>6, <1>7, <1>8, <1>9, <1>10, <1>11 DEF Next, Running

LEMMA StepsInNumbers ==
    ASSUME LayoutInv, WithinTheMaximum, maxTicks # NoMaximum, step # "idle"
    PROVE  /\ StepsOfATick = PairVisits + Len(springs) + 6 /\ PairVisits \in Nat
           /\ Len(springs) \in Nat /\ Len(toVisit) \in Nat
           /\ TicksLeft \in Nat
           /\ StepsLeft = TicksLeft + 1 - DoneOfTheTick
           /\ DoneOfTheTick \in 0 .. TicksLeft
  <1>1. /\ maxTicks \in Nat /\ currentTick \in Nat /\ PairVisits \in Nat
        /\ Len(springs) \in Nat /\ Len(toVisit) \in Nat
        /\ step \in Ticking \cup {"condition"}
    BY MaximumIsANumber, EveryPairIsCounted, ListsHaveLengths
    DEF LayoutInv, TypeOK, Ticking
  <1>2. /\ currentTick <= maxTicks
        /\ step \in Ticking => currentTick < maxTicks
        /\ step = "coulomb" => Len(toVisit) <= PairVisits
        /\ step = "hooke" => Len(toVisit) <= Len(springs)
    BY DEF WithinTheMaximum
  <1>3. StepsOfATick = PairVisits + Len(springs) + 6
    BY DEF StepsOfATick
  <1>4. TicksLeft \in Nat /\ (step \in Ticking => TicksLeft >= StepsOfATick)
    <2> DEFINE ticks == maxTicks - currentTick
    <2>1. ticks \in Nat /\ (step \in Ticking => ticks > 0) /\ StepsOfATick \in Nat
      BY <1>1, <1>2, <1>3
    <2>2. TicksLeft = ticks * StepsOfATick
      BY DEF TicksLeft
    <2> HIDE DEF ticks
    <2>3. QED
      BY <2>1, <2>2, OneFactorLess
  <1>5. StepsLeft = TicksLeft + 1 - DoneOfTheTick
    BY DEF StepsLeft
  <1>6. DoneOfTheTick \in 0 .. TicksLeft
    <2>1. CASE step = "condition"
      <3>1. DoneOfTheTick = 0
        BY <2>1 DEF DoneOfTheTick
      <3>2. QED
        BY <1>4, <3>1
    <2>2. CASE step = "coulomb"
      <3>1. DoneOfTheTick = PairVisits + 1 - Len(toVisit)
        BY <2>2 DEF DoneOfTheTick
      <3>2. step \in Ticking
        BY <2>2 DEF Ticking
      <3>3. QED
        BY <1>1, <1>2, <1>3, <1>4, <2>2, <3>1, <3>2
    <2>3. CASE step = "hooke"
      <3>1. DoneOfTheTick = PairVisits + 2 + Len(springs) - Len(toVisit)
        BY <2>3 DEF DoneOfTheTick
      <3>2. step \in Ticking
        BY <2>3 DEF Ticking
      <3>3. QED
        BY <1>1, <1>2, <1>3, <1>4, <2>3, <3>1, <3>2
    <2>4. CASE step \in {"center", "velocity", "position"}
      <3>1. DoneOfTheTick \in {StepsOfATick - 3, StepsOfATick - 2, StepsOfATick - 1}
        BY <2>4 DEF DoneOfTheTick
      <3>2. step \in Ticking
        BY <2>4 DEF Ticking
      <3>3. QED
        BY <1>1, <1>3, <1>4, <3>1, <3>2
    <2>5. QED
      BY <1>1, <2>1, <2>2, <2>3, <2>4 DEF Ticking
  <1>7. QED
    BY <1>1, <1>3, <1>4, <1>5, <1>6

LEMMA StepCounts ==
    ASSUME LayoutInv, LayoutInv', WithinTheMaximum, WithinTheMaximum', Next,
           maxTicks # NoMaximum, step # "idle"
    PROVE  StepsLeft' < StepsLeft
  <1>1. UNCHANGED <<maxTicks, springs>> /\ Running
    BY DEF Next, Running, options, CalculateLayout, Tick, ApplyCoulombsLaw,
        CoulombsLawApplied, ApplyHookesLaw, HookesLawApplied, AttractToCenter,
        UpdateVelocity, UpdatePosition, Return
  <1>2. /\ StepsOfATick = PairVisits + Len(springs) + 6 /\ PairVisits \in Nat
        /\ Len(springs) \in Nat /\ Len(toVisit) \in Nat
        /\ TicksLeft \in Nat /\ StepsLeft = TicksLeft + 1 - DoneOfTheTick
        /\ DoneOfTheTick \in 0 .. TicksLeft
    BY StepsInNumbers
  <1>3. ASSUME step' # "idle"
        PROVE  StepsLeft' = TicksLeft' + 1 - DoneOfTheTick'
    BY <1>3 DEF StepsLeft
  <1>4. StepsOfATick' = StepsOfATick
    BY <1>1 DEF StepsOfATick
  <1>5. ASSUME UNCHANGED currentTick, step' # "idle", DoneOfTheTick' = DoneOfTheTick + 1
        PROVE  StepsLeft' < StepsLeft
    <2>1. TicksLeft' = TicksLeft
      BY <1>1, <1>4, <1>5 DEF TicksLeft
    <2>2. QED
      BY <1>2, <1>3, <1>5, <2>1
  <1>6. CASE Tick
    <2>1. step = "condition" /\ step' = "coulomb" /\ Len(toVisit') = PairVisits
          /\ UNCHANGED currentTick
      BY <1>6, EveryPairIsCounted DEF Tick
    <2>2. DoneOfTheTick = 0 /\ DoneOfTheTick' = PairVisits + 1 - PairVisits
      BY <2>1 DEF DoneOfTheTick
    <2>3. DoneOfTheTick' = DoneOfTheTick + 1
      BY <1>2, <2>2
    <2>4. QED
      BY <1>5, <2>1, <2>3
  <1>7. CASE ApplyCoulombsLaw \/ ApplyHookesLaw
    <2>1. /\ step \in {"coulomb", "hooke"} /\ step' = step /\ toVisit # <<>>
          /\ toVisit' = Tail(toVisit) /\ UNCHANGED currentTick
      BY <1>7 DEF ApplyCoulombsLaw, ApplyHookesLaw
    <2>2. Len(toVisit') = Len(toVisit) - 1
      BY <2>1, ListsHaveLengths
    <2>3. CASE step = "coulomb"
      <3>1. /\ DoneOfTheTick = PairVisits + 1 - Len(toVisit)
            /\ DoneOfTheTick' = PairVisits + 1 - (Len(toVisit) - 1)
        BY <2>1, <2>2, <2>3 DEF DoneOfTheTick
      <3>2. DoneOfTheTick' = DoneOfTheTick + 1
        BY <1>2, <3>1
      <3>3. QED
        BY <1>5, <2>1, <3>2
    <2>4. CASE step = "hooke"
      <3>1. /\ DoneOfTheTick = PairVisits + 2 + Len(springs) - Len(toVisit)
            /\ DoneOfTheTick' = PairVisits + 2 + Len(springs) - (Len(toVisit) - 1)
        BY <1>1, <2>1, <2>2, <2>4 DEF DoneOfTheTick
      <3>2. DoneOfTheTick' = DoneOfTheTick + 1
        BY <1>2, <3>1
      <3>3. QED
        BY <1>5, <2>1, <3>2
    <2>5. QED
      BY <2>1, <2>3, <2>4
  <1>8. CASE CoulombsLawApplied
    <2>1. /\ step = "coulomb" /\ step' = "hooke" /\ toVisit = <<>>
          /\ Len(toVisit') = Len(springs) /\ UNCHANGED currentTick
      BY <1>8 DEF CoulombsLawApplied
    <2>2. Len(toVisit) = 0
      BY <2>1, ListsHaveLengths
    <2>3. /\ DoneOfTheTick = PairVisits + 1 - 0
          /\ DoneOfTheTick' = PairVisits + 2 + Len(springs) - Len(springs)
      BY <1>1, <2>1, <2>2 DEF DoneOfTheTick
    <2>4. DoneOfTheTick' = DoneOfTheTick + 1
      BY <1>2, <2>3
    <2>5. QED
      BY <1>5, <2>1, <2>4
  <1>9. CASE HookesLawApplied
    <2>1. /\ step = "hooke" /\ step' = "center" /\ toVisit = <<>>
          /\ UNCHANGED currentTick
      BY <1>9 DEF HookesLawApplied
    <2>2. Len(toVisit) = 0
      BY <2>1, ListsHaveLengths
    <2>3. /\ DoneOfTheTick = PairVisits + 2 + Len(springs) - 0
          /\ DoneOfTheTick' = StepsOfATick - 3
      BY <1>4, <2>1, <2>2 DEF DoneOfTheTick
    <2>4. DoneOfTheTick' = DoneOfTheTick + 1
      BY <1>2, <2>3
    <2>5. QED
      BY <1>5, <2>1, <2>4
  <1>10. CASE AttractToCenter \/ UpdateVelocity
    <2>1. /\ \/ step = "center" /\ step' = "velocity"
             \/ step = "velocity" /\ step' = "position"
          /\ UNCHANGED currentTick
      BY <1>10 DEF AttractToCenter, UpdateVelocity
    <2>2. \/ /\ DoneOfTheTick = StepsOfATick - 3
             /\ DoneOfTheTick' = StepsOfATick - 2
          \/ /\ DoneOfTheTick = StepsOfATick - 2
             /\ DoneOfTheTick' = StepsOfATick - 1
      BY <1>4, <2>1 DEF DoneOfTheTick
    <2>3. StepsOfATick \in Nat
      BY <1>2
    <2>4. DoneOfTheTick' = DoneOfTheTick + 1
      BY <2>2, <2>3
    <2>5. QED
      BY <1>5, <2>1, <2>4
  <1>11. CASE UpdatePosition
    <2>1. step = "position" /\ step' = "condition" /\ currentTick' = currentTick + 1
      BY <1>11 DEF UpdatePosition
    <2>2. DoneOfTheTick' = 0 /\ DoneOfTheTick = StepsOfATick - 1
      BY <2>1 DEF DoneOfTheTick
    <2>3. TicksLeft' = TicksLeft - StepsOfATick
      <3> DEFINE ticks == maxTicks - currentTick
      <3>1. ticks \in Nat /\ StepsOfATick \in Nat
            /\ maxTicks - (currentTick + 1) = ticks - 1
        BY <1>2, MaximumIsANumber DEF WithinTheMaximum
      <3>2. TicksLeft = ticks * StepsOfATick
            /\ TicksLeft' = (maxTicks - (currentTick + 1)) * StepsOfATick
        BY <1>1, <1>4, <2>1 DEF TicksLeft
      <3> HIDE DEF ticks
      <3>3. QED
        BY <3>1, <3>2, OneFactorLess
    <2>4. QED
      BY <1>2, <1>3, <2>1, <2>2, <2>3
  <1>12. CASE Return
    <2>1. step = "condition" /\ step' = "idle"
      BY <1>12 DEF Return
    <2>2. StepsLeft' = 0 /\ DoneOfTheTick = 0
      BY <2>1 DEF StepsLeft, DoneOfTheTick
    <2>3. QED
      BY <1>2, <2>2
  <1>13. QED
    BY <1>1, <1>6, <1>7, <1>8, <1>9, <1>10, <1>11, <1>12 DEF Running

-----------------------------------------------------------------------------
(* The theorems. *)

\* Whatever graph is laid out with whatever options, the points stay a
\* placement of everybody, and the forces loops visit only pairs of people.
THEOREM LayoutInvariant == Spec => []LayoutInv
  BY InitInvariant, LayoutStep, PTL DEF Spec

\* TypeOK in every state of every layout.
THEOREM LayoutTypeCorrect == Spec => []TypeOK
  <1>1. LayoutInv => TypeOK
    BY DEF LayoutInv
  <1>2. QED
    BY <1>1, LayoutInvariant, PTL

\* A maximum of one tick gives back the placement at random, for every number
\* of people, every graph and every strength of the forces.
THEOREM OneTickMovesNobody == Spec => []OneTickIsNone
  <1>1. LayoutInv => OneTickIsNone
    BY DEF LayoutInv, Quiet, OneTickIsNone
  <1>2. QED
    BY <1>1, LayoutInvariant, PTL

\* A layout that was ended by its energy is never calculated again, however
\* often it is asked for.
THEOREM EndedByEnergyIsFinal == Spec => []StoppedIsFinal
  <1>1. LayoutInv => StoppedIsFinal
    BY DEF LayoutInv, Final, StoppedIsFinal
  <1>2. QED
    BY <1>1, LayoutInvariant, PTL

\* After every single visit of a pair or of a spring the forces add up to none,
\* for any number of people: nothing is left over from an earlier tick or call.
THEOREM NothingPushesTheWhole == Spec => []ForcesCancel
  <1>1. Balanced => ForcesCancel
    BY DEF Balanced
  <1>2. LayoutInv /\ Balanced /\ [Next]_vars => Balanced'
    BY BalancedStep
  <1>3. QED
    BY <1>1, <1>2, LayoutInvariant, BalancedInit, PTL DEF Spec

\* A call with a maximum takes no more steps than StepsLeft counts when it
\* begins, whatever the points do: what is left of it is a natural number,
\* and every step makes it smaller.
THEOREM CallsAreFinite ==
    Spec => /\ [](maxTicks # NoMaximum => StepsLeft \in Nat)
            /\ EveryStepCounts
  <1>1. LayoutInv /\ WithinTheMaximum /\ [Next]_vars => WithinTheMaximum'
    BY WithinTheMaximumStep
  <1>2. LayoutInv /\ WithinTheMaximum => (maxTicks # NoMaximum => StepsLeft \in Nat)
    <2> SUFFICES ASSUME LayoutInv, WithinTheMaximum, maxTicks # NoMaximum
                 PROVE  StepsLeft \in Nat
      OBVIOUS
    <2>1. CASE step = "idle"
      BY <2>1 DEF StepsLeft
    <2>2. CASE step # "idle"
      <3>1. /\ TicksLeft \in Nat /\ DoneOfTheTick \in 0 .. TicksLeft
            /\ StepsLeft = TicksLeft + 1 - DoneOfTheTick
        BY <2>2, StepsInNumbers
      <3>2. QED
        BY <3>1
    <2>3. QED
      BY <2>1, <2>2
  <1>3. LayoutInv /\ LayoutInv' /\ WithinTheMaximum /\ WithinTheMaximum' /\ [Next]_vars
          => [maxTicks # NoMaximum /\ step # "idle" => StepsLeft' < StepsLeft]_vars
    BY StepCounts
  <1>4. QED
    BY <1>1, <1>2, <1>3, LayoutInvariant, WithinTheMaximumInit, PTL
    DEF Spec, EveryStepCounts
=============================================================================

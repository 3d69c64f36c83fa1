------------------------------ MODULE FoldProofs ------------------------------
(***************************************************************************)
(* Induction over a finite set and over the numbers up to n, and what they *)
(* say of sums over sets, of left folds over sequences, and of the folds   *)
(* of TransactionRecords.tla.  The theorems of the library that take a     *)
(* predicate cannot be used; that the subsets of a finite set are well     *)
(* founded can, with a set in place of the predicate.                      *)
(***************************************************************************)
EXTENDS TransactionRecords, FiniteSetTheorems, TLAPS

LEMMA SmallestSubset ==
    ASSUME NEW S, IsFiniteSet(S), NEW Bad, Bad \subseteq SUBSET S, Bad # {}
    PROVE  \E T \in Bad : \A U \in SUBSET T : U # T => U \notin Bad
  <1>1. IsWellFoundedOn(StrictSubsetOrdering(S), SUBSET S)
    BY FS_StrictSubsetOrderingWellFounded, FS_FiniteSubsetsOfFinite, Zenon
  <1>2. \E T \in Bad : \A U \in Bad : <<U, T>> \notin StrictSubsetOrdering(S)
    BY <1>1, WFMin, Zenon
  <1>3. QED
    BY <1>2 DEF StrictSubsetOrdering

LEMMA SubsetInduction ==
    ASSUME NEW S, IsFiniteSet(S), NEW Good,
           \A T \in SUBSET S :
                (\A U \in SUBSET T : U # T => U \in Good) => T \in Good
    PROVE  SUBSET S \subseteq Good
  <1> DEFINE Bad == {T \in SUBSET S : T \notin Good}
  <1> SUFFICES ASSUME Bad # {} PROVE FALSE
    OBVIOUS
  <1>1. Bad \subseteq SUBSET S
    OBVIOUS
  <1> HIDE DEF Bad
  <1>2. PICK T \in Bad : \A U \in SUBSET T : U # T => U \notin Bad
    BY <1>1, SmallestSubset
  <1>3. QED
    BY <1>1, <1>2 DEF Bad

-----------------------------------------------------------------------------
(* The recursive function behind SumFunctionOnSet exists. *)

Chosen(S) == CHOOSE x \in S : TRUE

Rest(S) == S \ {Chosen(S)}

Step(g, f, s) == IF s = {} THEN 0 ELSE f[Chosen(s)] + g[Rest(s)]

Solves(g, f, S) == g = [s \in SUBSET S |-> Step(g, f, s)]

Sums(f, S) == CHOOSE g : Solves(g, f, S)

LEMMA SumIsRecursive == \A f, S : SumFunctionOnSet(f, S) = Sums(f, S)[S]
  BY DEF SumFunctionOnSet, FoldFunctionOnSet, MapThenFoldSet, Sums, Solves,
      Step, Rest, Chosen

LEMMA RestIsSmaller ==
    ASSUME NEW S, S # {}
    PROVE  Chosen(S) \in S /\ Rest(S) \in SUBSET S /\ Rest(S) # S
  BY DEF Chosen, Rest

(* Two solutions agree where both are defined. *)
LEMMA SolutionsAgree ==
    ASSUME NEW f, NEW S, IsFiniteSet(S), NEW T \in SUBSET S, NEW g, NEW h,
           Solves(g, f, S), Solves(h, f, T)
    PROVE  \A s \in SUBSET T : g[s] = h[s]
  <1> DEFINE Good == {s \in SUBSET T : g[s] = h[s]}
  <1>1. ASSUME NEW s \in SUBSET T, \A U \in SUBSET s : U # s => U \in Good
        PROVE  s \in Good
    <2>1. g[s] = Step(g, f, s) /\ h[s] = Step(h, f, s)
      <3>1. s \in SUBSET S
        OBVIOUS
      <3>2. QED
        BY <3>1, Zenon DEF Solves
    <2>2. s # {} => g[Rest(s)] = h[Rest(s)]
      BY <1>1, RestIsSmaller
    <2>3. QED
      BY <2>1, <2>2 DEF Step
  <1>2. IsFiniteSet(T)
    BY FS_Subset
  <1> HIDE DEF Good
  <1>3. SUBSET T \subseteq Good
    BY <1>1, <1>2, SubsetInduction
  <1>4. QED
    BY <1>3 DEF Good

LEMMA SumsExist ==
    ASSUME NEW f, NEW S, IsFiniteSet(S)
    PROVE  \A T \in SUBSET S : Solves(Sums(f, T), f, T)
  <1> DEFINE Good == {T \in SUBSET S : Solves(Sums(f, T), f, T)}
  <1>1. ASSUME NEW T \in SUBSET S, \A U \in SUBSET T : U # T => U \in Good
        PROVE  T \in Good
    <2> DEFINE g == [s \in SUBSET T |-> IF s = {} THEN 0
                        ELSE f[Chosen(s)] + Sums(f, Rest(s))[Rest(s)]]
    <2>1. \A U \in SUBSET T : IsFiniteSet(U)
      BY FS_Subset
    <2>2. ASSUME NEW s \in SUBSET T, s # {}
          PROVE  g[Rest(s)] = Sums(f, Rest(s))[Rest(s)]
      <3> DEFINE r == Rest(s)
                 q == Rest(r)
      <3>1. r \in SUBSET T /\ r # T
        BY <2>2, RestIsSmaller
      <3>2. Solves(Sums(f, r), f, r)
        BY <1>1, <3>1
      <3>3. Sums(f, r)[r] = Step(Sums(f, r), f, r)
        BY <3>2, Zenon DEF Solves
      <3>4. ASSUME r # {} PROVE Sums(f, r)[q] = Sums(f, q)[q]
        <4>1. q \in SUBSET r /\ q \in SUBSET T /\ q # T
          BY <3>1, <3>4, RestIsSmaller
        <4>2. Solves(Sums(f, q), f, q) /\ IsFiniteSet(r) /\ q \in SUBSET q
          BY <1>1, <2>1, <3>1, <4>1
        <4> HIDE DEF r, q
        <4>3. QED
          BY <3>2, <4>1, <4>2, SolutionsAgree
      <3>5. QED
        BY <3>1, <3>3, <3>4 DEF Step
    <2>3. Solves(g, f, T)
      <3>1. \A s \in SUBSET T : g[s] = Step(g, f, s)
        BY <2>2 DEF Step
      <3>2. QED
        BY <3>1 DEF Solves
    <2> HIDE DEF g
    <2>4. QED
      BY <2>3 DEF Sums
  <1> HIDE DEF Good
  <1>2. SUBSET S \subseteq Good
    BY <1>1, SubsetInduction
  <1>3. QED
    BY <1>2 DEF Good

-----------------------------------------------------------------------------
(* What a sum is: nothing for nobody, and one member and the rest. *)

LEMMA SumOfNobody == \A f : SumFunctionOnSet(f, {}) = 0
  <1> SUFFICES ASSUME NEW f PROVE SumFunctionOnSet(f, {}) = 0
    OBVIOUS
  <1>1. Solves(Sums(f, {}), f, {})
    BY SumsExist, FS_EmptySet
  <1>2. Sums(f, {})[{}] = Step(Sums(f, {}), f, {})
    BY <1>1, Zenon DEF Solves
  <1>3. QED
    BY <1>2, SumIsRecursive DEF Step

LEMMA SumOfChosen ==
    ASSUME NEW f, NEW S, IsFiniteSet(S), S # {}
    PROVE  SumFunctionOnSet(f, S) = f[Chosen(S)] + SumFunctionOnSet(f, Rest(S))
  <1> DEFINE r == Rest(S)
  <1>1. r \in SUBSET S /\ r \in SUBSET r
    BY RestIsSmaller
  <1>2. Solves(Sums(f, S), f, S) /\ Solves(Sums(f, r), f, r)
    BY <1>1, SumsExist
  <1>3. Sums(f, S)[S] = Step(Sums(f, S), f, S)
    BY <1>2, Zenon DEF Solves
  <1>4. Sums(f, S)[r] = Sums(f, r)[r]
    <2> HIDE DEF r
    <2>1. QED
      BY <1>1, <1>2, SolutionsAgree
  <1>5. QED
    BY <1>3, <1>4, SumIsRecursive DEF Step

LEMMA SumIsInteger ==
    ASSUME NEW f, NEW S, IsFiniteSet(S), \A x \in S : f[x] \in Int
    PROVE  SumFunctionOnSet(f, S) \in Int
  <1> DEFINE Good == {T \in SUBSET S : SumFunctionOnSet(f, T) \in Int}
  <1>1. ASSUME NEW T \in SUBSET S, \A U \in SUBSET T : U # T => U \in Good
        PROVE  T \in Good
    <2>1. CASE T = {}
      <3>1. SumFunctionOnSet(f, T) = 0
        BY <2>1, SumOfNobody
      <3>2. QED
        BY <3>1
    <2>2. CASE T # {}
      <3>1. /\ f[Chosen(T)] \in Int
            /\ SumFunctionOnSet(f, Rest(T)) \in Int
        BY <1>1, <2>2, RestIsSmaller
      <3>2. SumFunctionOnSet(f, T) =
                f[Chosen(T)] + SumFunctionOnSet(f, Rest(T))
        BY <2>2, FS_Subset, SumOfChosen
      <3>3. QED
        BY <3>1, <3>2
    <2>3. QED
      BY <2>1, <2>2
  <1> HIDE DEF Good
  <1>2. SUBSET S \subseteq Good
    BY <1>1, SubsetInduction
  <1>3. QED
    BY <1>2 DEF Good

LEMMA SumOfEquals ==
    ASSUME NEW f, NEW g, NEW S, IsFiniteSet(S), \A x \in S : f[x] = g[x]
    PROVE  SumFunctionOnSet(f, S) = SumFunctionOnSet(g, S)
  <1> DEFINE Good == {T \in SUBSET S :
                        SumFunctionOnSet(f, T) = SumFunctionOnSet(g, T)}
  <1>1. ASSUME NEW T \in SUBSET S, \A U \in SUBSET T : U # T => U \in Good
        PROVE  T \in Good
    <2>1. CASE T = {}
      BY <2>1, SumOfNobody
    <2>2. CASE T # {}
      <3>1. /\ f[Chosen(T)] = g[Chosen(T)]
            /\ SumFunctionOnSet(f, Rest(T)) = SumFunctionOnSet(g, Rest(T))
        BY <1>1, <2>2, RestIsSmaller
      <3>2. /\ SumFunctionOnSet(f, T) =
                    f[Chosen(T)] + SumFunctionOnSet(f, Rest(T))
            /\ SumFunctionOnSet(g, T) =
                    g[Chosen(T)] + SumFunctionOnSet(g, Rest(T))
        BY <2>2, FS_Subset, SumOfChosen
      <3>3. QED
        BY <3>1, <3>2
    <2>3. QED
      BY <2>1, <2>2
  <1> HIDE DEF Good
  <1>2. SUBSET S \subseteq Good
    BY <1>1, SubsetInduction
  <1>3. QED
    BY <1>2 DEF Good

(* Any member can be taken out, not only the one that CHOOSE finds. *)
LEMMA SumOfMember ==
    ASSUME NEW f, NEW S, IsFiniteSet(S), \A x \in S : f[x] \in Int
    PROVE  \A a \in S : SumFunctionOnSet(f, S) =
                            f[a] + SumFunctionOnSet(f, S \ {a})
  <1> DEFINE TakesOut(T, a) ==
                SumFunctionOnSet(f, T) = f[a] + SumFunctionOnSet(f, T \ {a})
             Good == {T \in SUBSET S : \A a \in T : TakesOut(T, a)}
  <1>1. ASSUME NEW T \in SUBSET S, \A U \in SUBSET T : U # T => U \in Good
        PROVE  T \in Good
    <2> SUFFICES ASSUME NEW a \in T PROVE TakesOut(T, a)
      OBVIOUS
    <2> DEFINE c == Chosen(T)
               both == T \ {a, c}
    <2>1. c \in T /\ Rest(T) = T \ {c}
      BY RestIsSmaller DEF Rest
    <2>2. TakesOut(T, c)
      BY <2>1, FS_Subset, SumOfChosen
    <2>3. CASE a = c
      BY <2>2, <2>3
    <2>4. CASE a # c
      <3>1. T \ {a} \in Good /\ T \ {c} \in Good
        BY <1>1, <2>1
      <3>2. TakesOut(T \ {a}, c) /\ TakesOut(T \ {c}, a)
        BY <2>1, <2>4, <3>1
      <3>3. (T \ {a}) \ {c} = both /\ (T \ {c}) \ {a} = both
        OBVIOUS
      <3>4. /\ SumFunctionOnSet(f, T \ {a}) = f[c] + SumFunctionOnSet(f, both)
            /\ SumFunctionOnSet(f, T \ {c}) = f[a] + SumFunctionOnSet(f, both)
        BY <3>2, <3>3
      <3>5. SumFunctionOnSet(f, both) \in Int /\ f[a] \in Int /\ f[c] \in Int
        BY <2>1, FS_Subset, SumIsInteger
      <3>6. SumFunctionOnSet(f, T) = f[c] + SumFunctionOnSet(f, T \ {c})
        BY <2>2
      <3>7. QED
        BY <3>4, <3>5, <3>6
    <2>5. QED
      BY <2>3, <2>4
  <1> HIDE DEF Good
  <1>2. SUBSET S \subseteq Good
    BY <1>1, SubsetInduction
  <1>3. QED
    BY <1>2 DEF Good

(* Who is given something makes the sum richer by as much. *)
LEMMA SumOfChanged ==
    ASSUME NEW f, NEW g, NEW S, IsFiniteSet(S), NEW a \in S,
           \A x \in S : f[x] \in Int /\ g[x] \in Int,
           \A x \in S \ {a} : g[x] = f[x]
    PROVE  SumFunctionOnSet(g, S) = SumFunctionOnSet(f, S) + (g[a] - f[a])
  <1>1. IsFiniteSet(S \ {a})
    BY FS_Subset
  <1>2. SumFunctionOnSet(g, S \ {a}) = SumFunctionOnSet(f, S \ {a})
    BY <1>1, SumOfEquals
  <1>3. /\ SumFunctionOnSet(f, S) = f[a] + SumFunctionOnSet(f, S \ {a})
        /\ SumFunctionOnSet(g, S) = g[a] + SumFunctionOnSet(g, S \ {a})
    BY SumOfMember
  <1>4. SumFunctionOnSet(f, S \ {a}) \in Int
    BY <1>1, SumIsInteger
  <1>5. QED
    BY <1>2, <1>3, <1>4

LEMMA SumOfNothing ==
    ASSUME NEW f, NEW S, IsFiniteSet(S), \A x \in S : f[x] = 0
    PROVE  SumFunctionOnSet(f, S) = 0
  <1> DEFINE Good == {T \in SUBSET S : SumFunctionOnSet(f, T) = 0}
  <1>1. ASSUME NEW T \in SUBSET S, \A U \in SUBSET T : U # T => U \in Good
        PROVE  T \in Good
    <2>1. CASE T = {}
      BY <2>1, SumOfNobody
    <2>2. CASE T # {}
      <3>1. f[Chosen(T)] = 0 /\ SumFunctionOnSet(f, Rest(T)) = 0
        BY <1>1, <2>2, RestIsSmaller
      <3>2. SumFunctionOnSet(f, T) =
                f[Chosen(T)] + SumFunctionOnSet(f, Rest(T))
        BY <2>2, FS_Subset, SumOfChosen
      <3>3. QED
        BY <3>1, <3>2
    <2>3. QED
      BY <2>1, <2>2
  <1> HIDE DEF Good
  <1>2. SUBSET S \subseteq Good
    BY <1>1, SubsetInduction
  <1>3. QED
    BY <1>2 DEF Good

-----------------------------------------------------------------------------
(***************************************************************************)
(* Left folds.  SequencesExt!FoldLeft is a function on the subsets of the  *)
(* indices that takes the greatest index last.  What a turn of it computes *)
(* is given as a function here, whose values are all in one set.           *)
(***************************************************************************)
LEMMA LeastNatural ==
    ASSUME NEW Bad, Bad \subseteq Nat, Bad # {}
    PROVE  \E n \in Bad : \A m \in Bad : n <= m
  <1> DEFINE Upto(m) == 0 .. m
             Family(b) == {Upto(m) : m \in {m \in Bad : m <= b}}
  <1>1. PICK b \in Bad : TRUE
    OBVIOUS
  <1>2. Family(b) \subseteq SUBSET Upto(b) /\ Upto(b) \in Family(b)
    BY <1>1
  <1>3. IsFiniteSet(Upto(b))
    BY <1>1, FS_Interval
  <1>4. PICK T \in Family(b) : \A U \in SUBSET T : U # T => U \notin Family(b)
    <2> HIDE DEF Family, Upto
    <2>1. QED
      BY <1>2, <1>3, SmallestSubset
  <1>5. PICK n \in Bad : n <= b /\ T = Upto(n)
    BY <1>4
  <1>6. ASSUME NEW m \in Bad, m < n PROVE FALSE
    <2>1. Upto(m) \in SUBSET T /\ n \in T /\ n \notin Upto(m)
      BY <1>5, <1>6
    <2>2. m <= b
      BY <1>1, <1>5, <1>6
    <2>3. Upto(m) \in Family(b)
      BY <2>2
    <2> HIDE DEF Family, Upto
    <2>4. QED
      BY <1>4, <2>1, <2>3
  <1>7. QED
    BY <1>6

(* Induction up to n, for a set of good numbers. *)
LEMMA UpTo ==
    ASSUME NEW n \in Nat, NEW Good, 0 \in Good,
           \A k \in 0 .. n - 1 : k \in Good => k + 1 \in Good
    PROVE  0 .. n \subseteq Good
  <1> DEFINE Bad == {k \in 0 .. n : k \notin Good}
  <1> SUFFICES ASSUME Bad # {} PROVE FALSE
    OBVIOUS
  <1>1. PICK k \in Bad : \A m \in Bad : k <= m
    <2>1. Bad \subseteq Nat
      OBVIOUS
    <2> HIDE DEF Bad
    <2>2. QED
      BY <2>1, LeastNatural
  <1>2. k \in 1 .. n /\ k \notin Good
    OBVIOUS
  <1>3. k - 1 \in 0 .. n - 1 /\ k - 1 \notin Bad
    BY <1>1, <1>2
  <1>4. k - 1 \in Good /\ (k - 1) + 1 = k
    BY <1>2, <1>3
  <1>5. QED
    BY <1>2, <1>3, <1>4

(* A product with one factor that is smaller by one. *)
LEMMA OneFactorLess ==
    ASSUME NEW n \in Nat, NEW m \in Nat
    PROVE  /\ n * m \in Nat
           /\ (n - 1) * m = n * m - m
           /\ n > 0 => n * m >= m
  <1>1. n * m \in Nat /\ (n - 1) * m = n * m - m
    OBVIOUS
  <1>2. ASSUME n > 0 PROVE n * m >= m
    <2>1. n - 1 \in Nat
      BY <1>2
    <2> DEFINE k == n - 1
    <2>2. k \in Nat /\ k * m \in Nat
      BY <2>1
    <2>3. k * m = n * m - m
      BY <1>1
    <2>4. QED
      BY <1>1, <2>2, <2>3
  <1>3. QED
    BY <1>1, <1>2

LEMMA MaxOfIndices ==
    ASSUME NEW n \in Nat, NEW s \in SUBSET (1 .. n), s # {}
    PROVE  Max(s) \in s /\ \A x \in s : Max(s) >= x
  <1> DEFINE gaps == {n - x : x \in s}
  <1>1. gaps \subseteq Nat /\ gaps # {}
    <2>1. PICK x \in s : TRUE
      OBVIOUS
    <2>2. n - x \in gaps
      OBVIOUS
    <2>3. \A y \in s : n - y \in Nat
      OBVIOUS
    <2>4. QED
      BY <2>2, <2>3
  <1> HIDE DEF gaps
  <1>2. PICK g \in gaps : \A h \in gaps : g <= h
    BY <1>1, LeastNatural
  <1>3. PICK y \in s : g = n - y
    BY DEF gaps
  <1>4. \A x \in s : n - x \in gaps /\ x \in Int
    BY DEF gaps
  <1>5. \A x \in s : y >= x
    BY <1>2, <1>3, <1>4
  <1>6. QED
    BY <1>5 DEF Max

LEMMA MaxOfInterval ==
    ASSUME NEW n \in Nat, n > 0 PROVE Max(1 .. n) = n /\ (1 .. n) \ {n} = 1 .. n - 1
  <1>1. n \in 1 .. n /\ 1 .. n \in SUBSET (1 .. n)
    OBVIOUS
  <1>2. Max(1 .. n) \in 1 .. n /\ Max(1 .. n) >= n
    BY <1>1, MaxOfIndices
  <1>3. QED
    BY <1>2

Below(s) == s \ {Max(s)}

Turn(F, base, seq, g, s) ==
    IF s = {} THEN base ELSE F[g[Below(s)], seq[Max(s)]]

\* Turns from base, each with one of seq[1], ..., seq[n], in V ...
IsFold(V, X, F, base, seq, n) ==
    /\ base \in V
    /\ F \in [V \X X -> V]
    /\ n \in Nat
    /\ \A k \in 1 .. n : seq[k] \in X

\* ... what FoldLeft looks for ...
Solution(V, F, base, seq, n, g) ==
    /\ g \in [SUBSET (1 .. n) -> V]
    /\ \A s \in SUBSET (1 .. n) : g[s] = Turn(F, base, seq, g, s)

\* ... whose value is ...
ValueOf(g, n) == g[1 .. n]

\* ... and the values of the variable of a loop.
LoopValues(V, F, base, seq, n, v) ==
    /\ v \in [0 .. n -> V]
    /\ v[0] = base
    /\ \A k \in 1 .. n : v[k] = F[v[k - 1], seq[k]]

LEMMA BelowIsSmaller ==
    ASSUME NEW n \in Nat, NEW s \in SUBSET (1 .. n), s # {}
    PROVE  Below(s) \in SUBSET (1 .. n) /\ Below(s) # s /\ Max(s) \in 1 .. n
  BY MaxOfIndices DEF Below

(* There is a function that solves the equation of a fold. *)
LEMMA FoldExists ==
    \A V, X, F, base, seq, n :
        IsFold(V, X, F, base, seq, n) => \E g : Solution(V, F, base, seq, n, g)
  <1> SUFFICES ASSUME NEW V, NEW X, NEW base \in V, NEW F \in [V \X X -> V],
                      NEW n \in Nat, NEW seq, \A k \in 1 .. n : seq[k] \in X
               PROVE  \E g : Solution(V, F, base, seq, n, g)
    BY DEF IsFold
  <1> USE DEF Solution
  <1> DEFINE Solved(g, m) == Solution(V, F, base, seq, m, g)
             Good == {m \in 0 .. n : \E g : Solved(g, m)}
  <1>1. 0 \in Good
    <2> DEFINE g == [s \in SUBSET (1 .. 0) |-> base]
    <2>1. \A s \in SUBSET (1 .. 0) : s = {}
      OBVIOUS
    <2>2. Solved(g, 0)
      BY <2>1 DEF Turn
    <2> HIDE DEF g, Solution, Solved
    <2>3. QED
      BY <2>2
  <1>2. ASSUME NEW m \in 0 .. n - 1, m \in Good
        PROVE  m + 1 \in Good
    <2>1. PICK g : Solved(g, m)
      BY <1>2
    <2> DEFINE h == [s \in SUBSET (1 .. m + 1) |->
                        IF s \in SUBSET (1 .. m) THEN g[s]
                        ELSE F[g[Below(s)], seq[m + 1]]]
    <2>2. ASSUME NEW s \in SUBSET (1 .. m + 1), s \notin SUBSET (1 .. m)
          PROVE  /\ Max(s) = m + 1 /\ s # {}
                 /\ Below(s) \in SUBSET (1 .. m)
      <3>1. m + 1 \in s /\ m + 1 \in Nat
        BY <2>2
      <3>2. Max(s) \in s /\ Max(s) >= m + 1
        BY <3>1, MaxOfIndices
      <3>3. Max(s) = m + 1
        <4>1. Max(s) \in 1 .. m + 1
          BY <3>2
        <4>2. QED
          BY <3>1, <3>2, <4>1
      <3>4. QED
        BY <3>1, <3>3 DEF Below
    <2>3. ASSUME NEW s \in SUBSET (1 .. m), s # {}
          PROVE  Below(s) \in SUBSET (1 .. m) /\ Max(s) \in 1 .. m
      BY <2>3, BelowIsSmaller
    <2>4. ASSUME NEW s \in SUBSET (1 .. m)
          PROVE  s \in SUBSET (1 .. m + 1) /\ h[s] = g[s]
      <3>1. 1 .. m \subseteq 1 .. m + 1
        OBVIOUS
      <3>2. s \in SUBSET (1 .. m + 1)
        BY <3>1
      <3>3. QED
        BY <3>2
    <2>5. h \in [SUBSET (1 .. m + 1) -> V]
      <3>1. ASSUME NEW s \in SUBSET (1 .. m + 1) PROVE h[s] \in V
        <4>1. CASE s \in SUBSET (1 .. m)
          BY <2>1, <2>4, <4>1
        <4>2. CASE s \notin SUBSET (1 .. m)
          <5>1. g[Below(s)] \in V /\ seq[m + 1] \in X
            BY <2>1, <2>2, <4>2
          <5>2. h[s] = F[g[Below(s)], seq[m + 1]]
            BY <4>2
          <5>3. QED
            BY <5>1, <5>2
        <4>3. QED
          BY <4>1, <4>2
      <3>2. QED
        BY <3>1
    <2>6. ASSUME NEW s \in SUBSET (1 .. m + 1)
          PROVE  h[s] = Turn(F, base, seq, h, s)
      <3>1. CASE s \in SUBSET (1 .. m)
        <4>1. s # {} => h[Below(s)] = g[Below(s)]
          BY <2>3, <2>4, <3>1
        <4>2. g[s] = Turn(F, base, seq, g, s)
          BY <2>1, <3>1
        <4>3. h[s] = g[s]
          BY <2>4, <3>1
        <4> HIDE DEF h
        <4>4. QED
          BY <4>1, <4>2, <4>3 DEF Turn
      <3>2. CASE s \notin SUBSET (1 .. m)
        <4>1. Max(s) = m + 1 /\ s # {} /\ h[Below(s)] = g[Below(s)]
          BY <2>2, <2>4, <3>2
        <4>2. h[s] = F[g[Below(s)], seq[m + 1]]
          BY <3>2
        <4> HIDE DEF h
        <4>3. QED
          BY <4>1, <4>2 DEF Turn
      <3>3. QED
        BY <3>1, <3>2
    <2> HIDE DEF h
    <2>7. Solved(h, m + 1) /\ m + 1 \in 0 .. n
      BY <2>5, <2>6
    <2> HIDE DEF Solution, Solved
    <2>8. QED
      BY <2>7
  <1>3. 0 .. n \subseteq Good
    <2> HIDE DEF Good
    <2>1. QED
      BY <1>1, <1>2, UpTo
  <1>4. \E g : Solved(g, n)
    <2>1. n \in 0 .. n
      OBVIOUS
    <2> HIDE DEF Solution, Solved
    <2>2. QED
      BY <1>3, <2>1
  <1>5. QED
    BY <1>4

(* It is the only one: whatever agrees with it turn by turn is the same. *)
LEMMA FoldIsUnique ==
    ASSUME NEW n \in Nat, NEW g, NEW h,
           \A s \in SUBSET (1 .. n) :
              (s = {} \/ g[Below(s)] = h[Below(s)]) => g[s] = h[s]
    PROVE  \A s \in SUBSET (1 .. n) : g[s] = h[s]
  <1> DEFINE Good == {s \in SUBSET (1 .. n) : g[s] = h[s]}
  <1>1. ASSUME NEW s \in SUBSET (1 .. n),
               \A U \in SUBSET s : U # s => U \in Good
        PROVE  s \in Good
    <2>1. CASE s = {}
      BY <2>1
    <2>2. CASE s # {}
      <3>1. Below(s) \in SUBSET s /\ Below(s) # s
        BY <2>2, MaxOfIndices DEF Below
      <3>2. g[Below(s)] = h[Below(s)]
        BY <1>1, <3>1
      <3>3. QED
        BY <3>2
    <2>3. QED
      BY <2>1, <2>2
  <1>2. SUBSET (1 .. n) \subseteq Good
    <2> DEFINE S == 1 .. n
    <2>1. IsFiniteSet(S)
      BY FS_Interval
    <2>2. \A s \in SUBSET S : (\A U \in SUBSET s : U # s => U \in Good) => s \in Good
      BY <1>1
    <2> HIDE DEF Good, S
    <2>3. SUBSET S \subseteq Good
      BY <2>1, <2>2, SubsetInduction
    <2>4. QED
      BY <2>3 DEF S
  <1>3. QED
    BY <1>2

(* The values of a solution on the first indices are those of a loop. *)
LEMMA FoldIsALoop ==
    ASSUME NEW V, NEW X, NEW F, NEW base, NEW seq, NEW n, NEW g,
           IsFold(V, X, F, base, seq, n),
           Solution(V, F, base, seq, n, g)
    PROVE  \E v : LoopValues(V, F, base, seq, n, v) /\ v[n] = ValueOf(g, n)
  <1> n \in Nat /\ g \in [SUBSET (1 .. n) -> V]
        /\ \A s \in SUBSET (1 .. n) : g[s] = Turn(F, base, seq, g, s)
    BY DEF IsFold, Solution
  <1>1. g[1 .. 0] = base
    <2>1. 1 .. 0 = {} /\ {} \in SUBSET (1 .. n)
      OBVIOUS
    <2>2. QED
      BY <2>1 DEF Turn
  <1>2. ASSUME NEW k \in 1 .. n
        PROVE  g[1 .. k] = F[g[1 .. k - 1], seq[k]]
    <2>1. 1 .. k \in SUBSET (1 .. n) /\ 1 .. k # {}
      OBVIOUS
    <2>2. Max(1 .. k) = k /\ Below(1 .. k) = 1 .. k - 1
      BY MaxOfInterval DEF Below
    <2>3. QED
      BY <2>1, <2>2 DEF Turn
  <1> DEFINE v == [k \in 0 .. n |-> g[1 .. k]]
  <1>3. \A k \in 0 .. n : 1 .. k \in SUBSET (1 .. n) /\ v[k] = g[1 .. k]
    OBVIOUS
  <1>4. v \in [0 .. n -> V]
    BY <1>3
  <1>5. 0 \in 0 .. n /\ n \in 0 .. n /\ \A k \in 1 .. n : k \in 0 .. n /\ k - 1 \in 0 .. n
    OBVIOUS
  <1> HIDE DEF v
  <1>6. v[0] = base /\ v[n] = g[1 .. n]
    BY <1>1, <1>3, <1>5
  <1>7. \A k \in 1 .. n : v[k] = F[v[k - 1], seq[k]]
    BY <1>2, <1>3, <1>5
  <1>8. LoopValues(V, F, base, seq, n, v)
    BY <1>4, <1>6, <1>7 DEF LoopValues
  <1>9. v[n] = ValueOf(g, n)
    BY <1>6 DEF ValueOf
  <1>10. QED
    BY <1>8, <1>9

(* So the value of a fold, which is that of any solution, is a loop's. *)
LEMMA LoopOfAFold ==
    ASSUME NEW V, NEW X, NEW F, NEW base, NEW seq, NEW n,
           IsFold(V, X, F, base, seq, n), NEW value,
           \A g : Solution(V, F, base, seq, n, g) => value = ValueOf(g, n)
    PROVE  \E v : LoopValues(V, F, base, seq, n, v) /\ value = v[n]
  <1>1. PICK g : Solution(V, F, base, seq, n, g)
    BY FoldExists, Zenon
  <1>2. PICK v : LoopValues(V, F, base, seq, n, v) /\ v[n] = ValueOf(g, n)
    <2>1. IsFold(V, X, F, base, seq, n) /\ Solution(V, F, base, seq, n, g)
      BY <1>1
    <2>2. QED
      BY ONLY <2>1, FoldIsALoop
  <1>3. value = ValueOf(g, n)
    BY <1>1
  <1>4. QED
    BY <1>2, <1>3

-----------------------------------------------------------------------------
(* The folds of TransactionRecords.tla, of lists of at most one record. *)
LEMMA InsertedAt ==
    ASSUME NEW X, NEW list \in Seq(X), NEW p \in 1 .. Len(list) + 1, NEW r \in X
    PROVE  /\ InsertAt(list, p, r) \in Seq(X)
           /\ Len(InsertAt(list, p, r)) = Len(list) + 1
           /\ \A i \in 1 .. Len(list) + 1 :
                InsertAt(list, p, r)[i] = IF i < p THEN list[i]
                                          ELSE IF i = p THEN r ELSE list[i - 1]
  <1> DEFINE front == SubSeq(list, 1, p - 1)
             back == SubSeq(list, p, Len(list))
             new == front \o <<r>> \o back
  <1>1. /\ front \in Seq(X) /\ Len(front) = p - 1
        /\ \A i \in 1 .. p - 1 : front[i] = list[i]
    OBVIOUS
  <1>2. /\ back \in Seq(X) /\ Len(back) = Len(list) - p + 1
        /\ \A i \in 1 .. Len(list) - p + 1 : back[i] = list[p + i - 1]
    OBVIOUS
  <1>3. <<r>> \in Seq(X) /\ Len(<<r>>) = 1 /\ <<r>>[1] = r
    OBVIOUS
  <1>4. p \in Nat /\ Len(list) \in Nat
    OBVIOUS
  <1> HIDE DEF front, back
  <1>5. /\ new \in Seq(X) /\ Len(new) = Len(list) + 1
        /\ \A i \in 1 .. Len(new) :
             new[i] = IF i <= Len(front) THEN front[i]
                      ELSE IF i = Len(front) + 1 THEN r
                      ELSE back[i - Len(front) - 1]
    BY <1>1, <1>2, <1>3, <1>4
  <1> HIDE DEF new
  <1>6. \A i \in 1 .. Len(list) + 1 :
            new[i] = IF i < p THEN list[i] ELSE IF i = p THEN r ELSE list[i - 1]
    <2> SUFFICES ASSUME NEW i \in 1 .. Len(list) + 1
                 PROVE  new[i] = IF i < p THEN list[i]
                                 ELSE IF i = p THEN r ELSE list[i - 1]
      OBVIOUS
    <2>1. CASE i < p
      <3>1. i \in 1 .. p - 1 /\ i \in 1 .. Len(new)
        BY <1>4, <1>5, <2>1
      <3>2. QED
        BY <1>1, <1>5, <2>1, <3>1
    <2>2. CASE i = p
      BY <1>1, <1>4, <1>5, <2>2
    <2>3. CASE i > p
      <3>1. i - p \in 1 .. Len(list) - p + 1 /\ p + (i - p) - 1 = i - 1
        BY <1>4, <2>3
      <3>2. new[i] = back[i - p]
        BY <1>1, <1>4, <1>5, <2>3
      <3>3. QED
        BY <1>2, <2>3, <3>1, <3>2
    <2>4. QED
      BY <2>1, <2>2, <2>3
  <1>7. InsertAt(list, p, r) = new
    BY DEF InsertAt, new, front, back
  <1>8. QED
    BY <1>5, <1>6, <1>7

LEMMA MinOfIndices ==
    ASSUME NEW s, s \subseteq Nat, s # {}
    PROVE  Min(s) \in s /\ \A x \in s : Min(s) <= x
  <1>1. PICK n \in s : \A m \in s : n <= m
    BY LeastNatural
  <1>2. QED
    BY <1>1 DEF Min

LEMMA PlaceIsBehindTheOthers ==
    ASSUME NEW X, NEW list \in Seq(X), NEW r, NEW less
    PROVE  LET p == PlaceFor(less, r, list)
           IN  /\ p \in 1 .. Len(list) + 1
               /\ \A i \in 1 .. Len(list) :
                    i < p => <<r.id, list[i].id>> \notin less
               /\ p <= Len(list) => <<r.id, list[p].id>> \in less
  <1> DEFINE s == {i \in DOMAIN list : <<r.id, list[i].id>> \in less} 
                        \cup {Len(list) + 1}
  <1>1. Len(list) \in Nat /\ DOMAIN list = 1 .. Len(list)
    OBVIOUS
  <1>2. Min(s) \in s /\ \A x \in s : Min(s) <= x
    <2>1. s \subseteq Nat /\ s # {}
      BY <1>1
    <2> HIDE DEF s
    <2>2. QED
      BY <2>1, MinOfIndices
  <1>3. PlaceFor(less, r, list) = Min(s)
    BY DEF PlaceFor
  <1> DEFINE p == PlaceFor(less, r, list)
  <1>4. p \in s /\ \A x \in s : p <= x
    BY <1>2, <1>3
  <1> HIDE DEF p
  <1>5. p \in 1 .. Len(list) + 1
    BY <1>1, <1>4
  <1>6. p <= Len(list) => <<r.id, list[p].id>> \in less
    BY <1>1, <1>4
  <1>7. ASSUME NEW i \in 1 .. Len(list), i < p
        PROVE  <<r.id, list[i].id>> \notin less
    <2>1. i \notin s
      <3> HIDE DEF s
      <3>1. QED
        BY <1>1, <1>4, <1>5, <1>7
    <2>2. QED
      BY <1>1, <2>1
  <1>8. QED
    BY <1>5, <1>6, <1>7 DEF p

ShortLists(X) == {<<>>} \cup {<<r>> : r \in X}

LEMMA MergeType ==
    ASSUME NEW X, NEW less, NEW lhs \in Seq(X), NEW rhs \in ShortLists(X)
    PROVE  MergeListTransactionRecords(less, lhs, rhs) \in Seq(X)
  <1>1. CASE rhs = <<>>
    BY <1>1 DEF MergeListTransactionRecords
  <1>2. CASE rhs # <<>>
    <2>1. PICK r \in X : rhs = <<r>>
      BY <1>2 DEF ShortLists
    <2>2. MergeListTransactionRecords(less, lhs, rhs)
            = InsertAt(lhs, PlaceFor(less, r, lhs), r)
      BY <1>2, <2>1 DEF MergeListTransactionRecords
    <2>3. PlaceFor(less, r, lhs) \in 1 .. Len(lhs) + 1
      BY PlaceIsBehindTheOthers
    <2>4. InsertAt(lhs, PlaceFor(less, r, lhs), r) \in Seq(X)
      BY <2>3, InsertedAt
    <2>5. QED
      BY <2>2, <2>4
  <1>3. QED
    BY <1>1, <1>2

MergeLoop(X, less, start, toMerge, v) ==
    /\ v \in [0 .. Len(toMerge) -> Seq(X)]
    /\ v[0] = start
    /\ \A k \in 1 .. Len(toMerge) :
            v[k] = MergeListTransactionRecords(less, v[k - 1], toMerge[k])

LEMMA LeftFoldIsALoop ==
    ASSUME NEW X, NEW less, NEW start, NEW toMerge,
           start \in Seq(X), toMerge \in Seq(ShortLists(X))
    PROVE  \E v : /\ MergeLoop(X, less, start, toMerge, v)
                  /\ LeftFold(less, start, toMerge) = v[Len(toMerge)]
  <1> DEFINE n == Len(toMerge)
             V == Seq(X)
             S == ShortLists(X)
             Merge(list, short) == MergeListTransactionRecords(less, list, short)
             F == [ls \in V \X S |-> Merge(ls[1], ls[2])]
             Equation(g, s) == IF s = {} THEN start
                               ELSE Merge(g[s \ {Max(s)}], toMerge[Max(s)])
             Answers(g) == g = [s \in SUBSET DOMAIN toMerge |-> Equation(g, s)]
             result == LeftFold(less, start, toMerge)
  <1>1. /\ n \in Nat /\ DOMAIN toMerge = 1 .. n
        /\ \A k \in 1 .. n : toMerge[k] \in S
    OBVIOUS
  <1>2. F \in [V \X S -> V]
        /\ \A list \in V, short \in S : F[list, short] = Merge(list, short)
    BY MergeType
  <1>3. start \in V
    OBVIOUS
  <1>4. result = (CHOOSE g : Answers(g))[DOMAIN toMerge]
    BY DEF LeftFold, FoldLeft, MapThenFoldSet
  <1> HIDE DEF n, F, V, S, Merge, result
  <1>5. ASSUME NEW g, Solution(V, F, start, toMerge, n, g)
        PROVE  result = ValueOf(g, n)
    <2>1. \A s \in SUBSET (1 .. n) : g[s] = Equation(g, s)
      <3> SUFFICES ASSUME NEW s \in SUBSET (1 .. n), s # {}
                   PROVE  F[g[Below(s)], toMerge[Max(s)]]
                              = Merge(g[s \ {Max(s)}], toMerge[Max(s)])
        BY <1>5 DEF Turn, Solution
      <3>1. Below(s) \in SUBSET (1 .. n) /\ Max(s) \in 1 .. n
        BY <1>1, BelowIsSmaller
      <3>2. g[Below(s)] \in V /\ toMerge[Max(s)] \in S
        BY <1>1, <1>5, <3>1 DEF Solution
      <3>3. QED
        BY <1>2, <3>2 DEF Below
    <2>2. Answers(g)
      BY <1>1, <1>5, <2>1 DEF Solution
    <2> DEFINE h == CHOOSE g_1 : Answers(g_1)
    <2>3. Answers(h)
      <3> HIDE DEF Answers
      <3>1. QED
        BY <2>2
    <2>4. \A s \in SUBSET (1 .. n) : h[s] = Equation(h, s)
      <3> HIDE DEF h, Equation
      <3>1. QED
        BY <1>1, <2>3
    <2>5. \A s \in SUBSET (1 .. n) :
              (s = {} \/ h[Below(s)] = g[Below(s)]) => h[s] = g[s]
      <3> HIDE DEF h, Answers
      <3>1. QED
        BY <2>1, <2>4 DEF Below
    <2> HIDE DEF h
    <2>6. \A s \in SUBSET (1 .. n) : h[s] = g[s]
      <3>1. n \in Nat
        BY <1>1
      <3>2. QED
        BY ONLY <2>5, <3>1, FoldIsUnique
    <2>7. result = h[1 .. n]
      BY <1>1, <1>4 DEF h
    <2>8. QED
      BY <2>6, <2>7 DEF ValueOf
  <1>6. IsFold(V, S, F, start, toMerge, n)
    BY <1>1, <1>2, <1>3 DEF IsFold
  <1>7. PICK v : LoopValues(V, F, start, toMerge, n, v) /\ result = v[n]
    <2> HIDE DEF Answers, Equation
    <2>1. \A g : Solution(V, F, start, toMerge, n, g) => result = ValueOf(g, n)
      BY <1>5
    <2>2. QED
      BY ONLY <1>6, <2>1, LoopOfAFold
  <1>8. ASSUME NEW k \in 1 .. n PROVE v[k] = Merge(v[k - 1], toMerge[k])
    <2>1. k - 1 \in 0 .. n
      BY <1>1
    <2>2. v[k - 1] \in V /\ toMerge[k] \in S
      BY <1>1, <1>7, <2>1 DEF LoopValues
    <2>3. QED
      BY <1>2, <1>7, <2>2 DEF LoopValues
  <1>9. MergeLoop(X, less, start, toMerge, v)
    BY <1>7, <1>8 DEF MergeLoop, LoopValues, n, V, Merge
  <1>10. QED
    BY <1>7, <1>9 DEF n, result

MergesUpTo(less, start, toMerge, v, n) ==
    /\ v[0] = start
    /\ \A k \in 1 .. n :
            v[k] = MergeListTransactionRecords(less, v[k - 1], toMerge[k])

LEMMA MergeLoopIsUnique ==
    ASSUME NEW less, NEW start, NEW toMerge, NEW n, NEW v, NEW w, n \in Nat,
           MergesUpTo(less, start, toMerge, v, n),
           MergesUpTo(less, start, toMerge, w, n)
    PROVE  v[n] = w[n]
  <1> USE DEF MergesUpTo
  <1> DEFINE Good == {k \in 0 .. n : v[k] = w[k]}
  <1>1. 0 \in Good
    OBVIOUS
  <1>2. ASSUME NEW k \in 0 .. n - 1, k \in Good PROVE k + 1 \in Good
    <2>1. k + 1 \in 1 .. n /\ (k + 1) - 1 = k /\ v[k] = w[k]
      BY <1>2
    <2>2. v[k + 1] = w[k + 1]
      BY <2>1
    <2>3. QED
      BY <2>1, <2>2
  <1>3. 0 .. n \subseteq Good
    <2> HIDE DEF Good
    <2>1. QED
      BY <1>1, <1>2, UpTo
  <1>4. QED
    BY <1>3

LEMMA LeftFoldOfNothing ==
    ASSUME NEW X, NEW less, NEW start \in Seq(X)
    PROVE  LeftFold(less, start, <<>>) = start
  <1> DEFINE S == ShortLists(X)
             none == <<>>
  <1> HIDE DEF S
  <1>1. none \in Seq(S) /\ Len(none) = 0
    OBVIOUS
  <1> HIDE DEF none
  <1>2. PICK v : /\ MergeLoop(X, less, start, none, v)
                 /\ LeftFold(less, start, none) = v[Len(none)]
    <2>1. none \in Seq(ShortLists(X)) /\ start \in Seq(X)
      BY <1>1 DEF S
    <2>2. QED
      BY ONLY <2>1, LeftFoldIsALoop
  <1>3. QED
    BY <1>1, <1>2 DEF MergeLoop, none

LEMMA LeftFoldType ==
    ASSUME NEW X, NEW less, NEW start \in Seq(X),
           NEW toMerge \in Seq(ShortLists(X))
    PROVE  LeftFold(less, start, toMerge) \in Seq(X)
  <1>1. PICK v : /\ MergeLoop(X, less, start, toMerge, v)
                 /\ LeftFold(less, start, toMerge) = v[Len(toMerge)]
    BY LeftFoldIsALoop
  <1>2. Len(toMerge) \in 0 .. Len(toMerge)
    OBVIOUS
  <1>3. QED
    BY <1>1, <1>2 DEF MergeLoop

(* What is folded last is merged into the fold of the others. *)
LEMMA LeftFoldOfAppended ==
    ASSUME NEW X, NEW less, NEW start \in Seq(X),
           NEW toMerge \in Seq(ShortLists(X)), NEW last \in ShortLists(X)
    PROVE  LeftFold(less, start, Append(toMerge, last)) =
                MergeListTransactionRecords(less, LeftFold(less, start, toMerge), last)
  <1> DEFINE n == Len(toMerge)
             longer == Append(toMerge, last)
  <1>1. /\ longer \in Seq(ShortLists(X)) /\ Len(longer) = n + 1 /\ n \in Nat
        /\ longer[n + 1] = last /\ \A k \in 1 .. n : longer[k] = toMerge[k]
    OBVIOUS
  <1> HIDE DEF longer
  <1>2. PICK v : /\ MergeLoop(X, less, start, longer, v)
                 /\ LeftFold(less, start, longer) = v[n + 1]
    BY <1>1, LeftFoldIsALoop
  <1>3. PICK w : /\ MergeLoop(X, less, start, toMerge, w)
                 /\ LeftFold(less, start, toMerge) = w[n]
    BY LeftFoldIsALoop
  <1> HIDE DEF n
  <1>4. \A k \in 1 .. n : k \in 1 .. Len(longer)
    BY <1>1
  <1>5. MergesUpTo(less, start, toMerge, v, n)
    BY <1>1, <1>2, <1>4 DEF MergeLoop, MergesUpTo
  <1>6. MergesUpTo(less, start, toMerge, w, n)
    BY <1>3 DEF MergeLoop, MergesUpTo, n
  <1>7. v[n] = w[n]
    <2>1. n \in Nat
      BY <1>1
    <2>2. QED
      BY ONLY <1>5, <1>6, <2>1, MergeLoopIsUnique
  <1>8. v[n + 1] = MergeListTransactionRecords(less, v[n], last)
    <2>1. n + 1 \in 1 .. Len(longer) /\ (n + 1) - 1 = n
      BY <1>1
    <2>2. QED
      BY <1>1, <1>2, <2>1 DEF MergeLoop
  <1>9. QED
    BY <1>2, <1>3, <1>7, <1>8 DEF longer

-----------------------------------------------------------------------------
(***************************************************************************)
(* The order of the sales.  A record goes in front of its equal or to the  *)
(* end, so one of those that have no equal goes behind all others of them. *)
(***************************************************************************)
Matches(ids, list, n, merged, place) ==
    LET here == {i \in 1 .. n : list[i].id \in ids}
        there == {k \in DOMAIN merged : merged[k].id \in ids}
    IN /\ place \in [here -> there]
       /\ \A i, j \in here : i < j => place[i] < place[j]
       /\ \A k \in there : \E i \in here : place[i] = k
       /\ \A i \in here : merged[place[i]] = list[i]

LEMMA StandAsMatched ==
    \A ids, list, n, merged :
        StandAsIn(ids, list, n, merged) <=>
            \E place : Matches(ids, list, n, merged, place)
  BY DEF StandAsIn, Matches

\* A record that is not looked at, put anywhere.
LEMMA OrderWithAnother ==
    ASSUME NEW X, NEW ids, NEW list \in Seq(X), NEW n \in 0 .. Len(list) - 1,
           list[n + 1].id \notin ids,
           NEW merged \in Seq(X), NEW place, Matches(ids, list, n, merged, place),
           NEW p \in 1 .. Len(merged) + 1
    PROVE  StandAsIn(ids, list, n + 1, InsertAt(merged, p, list[n + 1]))
  <1> DEFINE here == {i \in 1 .. n : list[i].id \in ids}
             there == {k \in 1 .. Len(merged) : merged[k].id \in ids}
             new == list[n + 1]
             longer == InsertAt(merged, p, new)
             shift(k) == IF k < p THEN k ELSE k + 1
             moved == [i \in here |-> shift(place[i])]
  <1>1. /\ place \in [here -> there]
        /\ \A i, j \in here : i < j => place[i] < place[j]
        /\ \A k \in there : \E i \in here : place[i] = k
        /\ \A i \in here : merged[place[i]] = list[i]
    BY DEF Matches
  <1>2. list[n + 1] \in X /\ Len(merged) \in Nat /\ n \in Nat
    OBVIOUS
  <1>3. /\ longer \in Seq(X) /\ Len(longer) = Len(merged) + 1
        /\ \A i \in 1 .. Len(merged) + 1 :
             longer[i] = IF i < p THEN merged[i]
                         ELSE IF i = p THEN new ELSE merged[i - 1]
    <2>1. merged \in Seq(X) /\ new \in X /\ p \in 1 .. Len(merged) + 1
      BY <1>2
    <2> HIDE DEF new
    <2>2. /\ InsertAt(merged, p, new) \in Seq(X)
          /\ Len(InsertAt(merged, p, new)) = Len(merged) + 1
          /\ \A i \in 1 .. Len(merged) + 1 :
               InsertAt(merged, p, new)[i] =
                    IF i < p THEN merged[i]
                    ELSE IF i = p THEN new ELSE merged[i - 1]
      BY <2>1, InsertedAt
    <2>3. QED
      BY <2>2
  <1>4. here = {i \in 1 .. n + 1 : list[i].id \in ids}
    BY <1>2
  <1> DEFINE after == {k \in 1 .. Len(longer) : longer[k].id \in ids}
  <1>5. \A k \in there : shift(k) \in after /\ longer[shift(k)] = merged[k]
    <2>1. \A k \in 1 .. Len(merged) : /\ shift(k) \in 1 .. Len(longer)
                                     /\ longer[shift(k)] = merged[k]
      <3> SUFFICES ASSUME NEW k \in 1 .. Len(merged)
                   PROVE  shift(k) \in 1 .. Len(longer) /\ longer[shift(k)] = merged[k]
        OBVIOUS
      <3>1. CASE k < p
        BY <1>2, <1>3, <3>1
      <3>2. CASE ~(k < p)
        <4>1. k + 1 \in 1 .. Len(merged) + 1 /\ k + 1 > p /\ (k + 1) - 1 = k
          BY <1>2, <3>2
        <4>2. longer[k + 1] = merged[k]
          BY <1>3, <4>1
        <4>3. QED
          BY <1>3, <3>2, <4>1, <4>2
      <3>3. QED
        BY <3>1, <3>2
    <2> HIDE DEF shift, longer
    <2>2. QED
      BY <2>1
  <1>6. \A k \in after : \E m \in there : shift(m) = k
    <2> SUFFICES ASSUME NEW k \in after PROVE \E m \in there : shift(m) = k
      OBVIOUS
    <2>1. k # p
      BY <1>3
    <2>2. CASE k < p
      <3>1. k \in 1 .. Len(merged) /\ merged[k] = longer[k]
        BY <1>2, <1>3, <2>2
      <3>2. k \in there /\ shift(k) = k
        BY <2>2, <3>1
      <3> HIDE DEF there, shift
      <3>3. QED
        BY <3>2
    <2>3. CASE k > p
      <3>1. k - 1 \in 1 .. Len(merged) /\ merged[k - 1] = longer[k]
        BY <1>2, <1>3, <2>3
      <3>2. k - 1 \in there /\ shift(k - 1) = k
        BY <2>3, <3>1
      <3>3. QED
        BY <3>2
    <2>4. k \in Int /\ p \in Int
      BY <1>3
    <2> HIDE DEF there, shift, after
    <2>5. QED
      BY <2>1, <2>2, <2>3, <2>4
  <1>7. \A k, m \in there : k < m => shift(k) < shift(m)
    OBVIOUS
  <1>8. DOMAIN longer = 1 .. Len(longer)
    BY <1>3
  <1> HIDE DEF here, there, after, shift, longer
  <1>9. moved \in [here -> after]
    BY <1>1, <1>5
  <1>10. Matches(ids, list, n + 1, longer, moved)
    <2>1. \A i, j \in here : i < j => moved[i] < moved[j]
      BY <1>1, <1>7
    <2>2. \A k \in after : \E i \in here : moved[i] = k
      BY <1>1, <1>6
    <2>3. \A i \in here : longer[moved[i]] = list[i]
      BY <1>1, <1>5
    <2> HIDE DEF moved
    <2>4. QED
      BY <1>4, <1>8, <1>9, <2>1, <2>2, <2>3 DEF Matches, after
  <1>11. QED
    BY <1>10, StandAsMatched DEF longer

\* A record that is looked at, put at the end.
LEMMA OrderWithTheNext ==
    ASSUME NEW X, NEW ids, NEW list \in Seq(X), NEW n \in 0 .. Len(list) - 1,
           list[n + 1].id \in ids,
           NEW merged \in Seq(X), NEW place, Matches(ids, list, n, merged, place)
    PROVE  StandAsIn(ids, list, n + 1,
                     InsertAt(merged, Len(merged) + 1, list[n + 1]))
  <1> DEFINE here == {i \in 1 .. n : list[i].id \in ids}
             there == {k \in 1 .. Len(merged) : merged[k].id \in ids}
             end == Len(merged) + 1
             new == list[n + 1]
             longer == InsertAt(merged, end, new)
             after == {k \in 1 .. Len(longer) : longer[k].id \in ids}
             now == {i \in 1 .. n + 1 : list[i].id \in ids}
             more == [i \in now |-> IF i = n + 1 THEN end ELSE place[i]]
  <1>1. /\ place \in [here -> there]
        /\ \A i, j \in here : i < j => place[i] < place[j]
        /\ \A k \in there : \E i \in here : place[i] = k
        /\ \A i \in here : merged[place[i]] = list[i]
    BY DEF Matches
  <1>2. list[n + 1] \in X /\ Len(merged) \in Nat /\ n \in Nat /\ end = Len(merged) + 1
    OBVIOUS
  <1> HIDE DEF end
  <1>3. /\ longer \in Seq(X) /\ Len(longer) = Len(merged) + 1
        /\ \A i \in 1 .. Len(merged) + 1 :
             longer[i] = IF i < end THEN merged[i]
                         ELSE IF i = end THEN new ELSE merged[i - 1]
    <2>1. merged \in Seq(X) /\ new \in X /\ end \in 1 .. Len(merged) + 1
      BY <1>2
    <2> HIDE DEF new
    <2>2. QED
      BY ONLY <2>1, InsertedAt
  <1>4. now = here \cup {n + 1} /\ \A i \in here : i # n + 1 /\ i < n + 1
    BY <1>2
  <1> HIDE DEF longer
  <1>5. after = there \cup {end} /\ \A k \in there : k < end /\ longer[k] = merged[k]
    BY <1>2, <1>3
  <1>6. longer[end] = list[n + 1] /\ DOMAIN longer = 1 .. Len(longer)
    BY <1>2, <1>3
  <1>7. \A i \in here : ~(n + 1 < i)
    BY <1>2
  <1> HIDE DEF here, there, after, now
  <1>8. more \in [now -> after]
    BY <1>1, <1>4, <1>5
  <1>9. \A i \in here : more[i] = place[i] /\ place[i] \in there
    BY <1>1, <1>4
  <1>10. more[n + 1] = end
    BY <1>4
  <1>11. Matches(ids, list, n + 1, longer, more)
    <2> HIDE DEF more
    <2>1. \A i, j \in now : i < j => more[i] < more[j]
      BY <1>1, <1>2, <1>4, <1>5, <1>7, <1>9, <1>10
    <2>2. \A k \in after : \E i \in now : more[i] = k
      BY <1>1, <1>4, <1>5, <1>9, <1>10
    <2>3. \A i \in now : longer[more[i]] = list[i]
      BY <1>1, <1>4, <1>5, <1>6, <1>9, <1>10
    <2>4. QED
      BY <1>6, <1>8, <2>1, <2>2, <2>3 DEF Matches, after, now
  <1>12. QED
    BY <1>11, StandAsMatched DEF longer, end

LEMMA EveryRecordInOrder ==
    ASSUME NEW X, NEW ids, NEW start \in Seq(X), NEW records \in Seq(X),
           OnlyOneOfEach(ids, records),
           \A k \in DOMAIN start : start[k].id \notin ids
    PROVE  /\ ReduceSales(start, records) \in Seq(X)
           /\ StandAsIn(ids, records, Len(records), ReduceSales(start, records))
  <1> DEFINE N == Len(records)
             toMerge == [i \in DOMAIN records |-> <<records[i]>>]
             less == DeepCompareUniquePtrs(IdsOf(start) \cup IdsOf(records))
             result == LeftFold(less, start, toMerge)
  <1>1. /\ N \in Nat /\ DOMAIN records = 1 .. N /\ DOMAIN start = 1 .. Len(start)
        /\ \A k \in 1 .. N : records[k] \in X
    OBVIOUS
  <1>2. /\ toMerge \in Seq(ShortLists(X)) /\ Len(toMerge) = N
        /\ \A k \in 1 .. N : toMerge[k] = <<records[k]>>
    BY <1>1 DEF ShortLists
  <1>3. \A k, m : <<k, m>> \in less => k = m
    BY DEF DeepCompareUniquePtrs
  <1>4. \A k \in 1 .. N : \A id : <<records[k].id, id>> \in less <=> records[k].id = id
    BY <1>1 DEF DeepCompareUniquePtrs, IdsOf
  <1>5. ReduceSales(start, records) = result
    BY DEF ReduceSales
  <1> HIDE DEF N, toMerge, less, result
  <1>6. PICK v : MergeLoop(X, less, start, toMerge, v) /\ result = v[N]
    <2>1. start \in Seq(X) /\ toMerge \in Seq(ShortLists(X))
      BY <1>2
    <2>2. \E v : MergeLoop(X, less, start, toMerge, v)
                /\ LeftFold(less, start, toMerge) = v[Len(toMerge)]
      BY ONLY <2>1, LeftFoldIsALoop
    <2>3. QED
      BY <1>2, <2>2 DEF result
  <1> DEFINE Good == {n \in 0 .. N : StandAsIn(ids, records, n, v[n])}
  <1>7. v[0] = start /\ \A k \in 0 .. N : v[k] \in Seq(X)
    BY <1>2, <1>6 DEF MergeLoop
  <1>8. 0 \in Good
    <2> DEFINE none == [i \in {} |-> i]
    <2>1. {i \in 1 .. 0 : records[i].id \in ids} = {}
          /\ {k \in DOMAIN start : start[k].id \in ids} = {}
      OBVIOUS
    <2>2. none \in [{} -> {}]
      OBVIOUS
    <2> HIDE DEF none
    <2>3. Matches(ids, records, 0, start, none)
      BY <2>1, <2>2 DEF Matches
    <2>4. StandAsIn(ids, records, 0, start)
      BY <2>3, StandAsMatched
    <2>5. QED
      BY <1>1, <1>7, <2>4
  <1>9. ASSUME NEW n \in 0 .. N - 1, n \in Good PROVE n + 1 \in Good
    <2> DEFINE merged == v[n]
               next == records[n + 1]
               p == PlaceFor(less, next, merged)
    <2>1. /\ n + 1 \in 1 .. N /\ (n + 1) - 1 = n /\ n \in 0 .. N /\ n + 1 \in 0 .. N
          /\ n \in Nat
      BY <1>1
    <2>2. merged \in Seq(X) /\ next \in X /\ StandAsIn(ids, records, n, merged)
      BY <1>1, <1>7, <1>9, <2>1
    <2>3. PICK place : Matches(ids, records, n, merged, place)
      BY <2>2, StandAsMatched
    <2>4. v[n + 1] = InsertAt(merged, p, next)
      <3>1. v[n + 1] = MergeListTransactionRecords(less, merged, <<next>>)
        BY <1>2, <1>6, <2>1 DEF MergeLoop
      <3>2. QED
        BY <3>1 DEF MergeListTransactionRecords
    <2>5. /\ p \in 1 .. Len(merged) + 1
          /\ p <= Len(merged) => <<next.id, merged[p].id>> \in less
      BY <2>2, PlaceIsBehindTheOthers
    <2>6. n \in 0 .. Len(records) - 1
      BY DEF N
    <2>7. CASE next.id \notin ids
      <3> HIDE DEF merged, p
      <3>1. StandAsIn(ids, records, n + 1, InsertAt(merged, p, records[n + 1]))
        BY <2>2, <2>3, <2>5, <2>6, <2>7, OrderWithAnother
      <3>2. QED
        BY <2>1, <2>4, <3>1
    <2>8. CASE next.id \in ids
      <3>1. p = Len(merged) + 1
        <4> SUFFICES ASSUME p \in 1 .. Len(merged) PROVE FALSE
          BY <2>2, <2>5
        <4>1. merged[p].id = next.id
          BY <1>3, <2>5
        <4>2. p \in {k \in DOMAIN merged : merged[k].id \in ids}
          BY <2>2, <2>8, <4>1
        <4> HIDE DEF p, merged
        <4>3. PICK i \in {j \in 1 .. n : records[j].id \in ids} :
                    merged[p] = records[i]
          BY <2>3, <4>2 DEF Matches
        <4>4. i \in DOMAIN records /\ n + 1 \in DOMAIN records /\ i # n + 1
          BY <1>1, <2>1
        <4>5. QED
          BY <2>8, <4>1, <4>3, <4>4 DEF OnlyOneOfEach
      <3> HIDE DEF merged, p
      <3>2. StandAsIn(ids, records, n + 1,
                      InsertAt(merged, Len(merged) + 1, records[n + 1]))
        BY <2>2, <2>3, <2>6, <2>8, OrderWithTheNext
      <3>3. QED
        BY <2>1, <2>4, <3>1, <3>2
    <2>9. QED
      BY <2>7, <2>8
  <1>10. 0 .. N \subseteq Good
    <2> HIDE DEF Good
    <2>1. QED
      BY <1>1, <1>8, <1>9, UpTo
  <1>11. N \in 0 .. N
    BY <1>1
  <1>12. QED
    BY <1>5, <1>6, <1>7, <1>10, <1>11 DEF N

LEMMA InOrderTwice ==
    ASSUME NEW ids, NEW list, NEW merged, NEW again, NEW N, NEW M,
           DOMAIN list = 1 .. N, DOMAIN merged = 1 .. M,
           StandAsIn(ids, list, N, merged), StandAsIn(ids, merged, M, again)
    PROVE  StandAsIn(ids, list, N, again)
  <1> DEFINE first == {i \in 1 .. N : list[i].id \in ids}
             second == {k \in 1 .. M : merged[k].id \in ids}
             third == {k \in DOMAIN again : again[k].id \in ids}
  <1>1. PICK f : Matches(ids, list, N, merged, f)
    BY StandAsMatched
  <1>2. PICK g : Matches(ids, merged, M, again, g)
    BY StandAsMatched
  <1> DEFINE h == [i \in first |-> g[f[i]]]
  <1>3. /\ f \in [first -> second] /\ \A k \in second : \E i \in first : f[i] = k
        /\ \A i \in first : merged[f[i]] = list[i]
        /\ \A i, j \in first : i < j => f[i] < f[j]
    BY <1>1 DEF Matches
  <1>4. /\ g \in [second -> third] /\ \A k \in third : \E i \in second : g[i] = k
        /\ \A i \in second : again[g[i]] = merged[i]
        /\ \A i, j \in second : i < j => g[i] < g[j]
    BY <1>2 DEF Matches
  <1> HIDE DEF first, second, third
  <1>5. h \in [first -> third] /\ \A i \in first : h[i] = g[f[i]] /\ f[i] \in second
    BY <1>3, <1>4
  <1> HIDE DEF h
  <1>6. \A k \in third : \E i \in first : h[i] = k
    BY <1>3, <1>4, <1>5
  <1>7. \A i, j \in first : i < j => h[i] < h[j]
    BY <1>3, <1>4, <1>5
  <1>8. \A i \in first : again[h[i]] = list[i]
    BY <1>3, <1>4, <1>5
  <1>9. Matches(ids, list, N, again, h)
    BY <1>5, <1>6, <1>7, <1>8 DEF Matches, first, third
  <1>10. QED
    BY <1>9, StandAsMatched

(* Records of which there is only one each are merged in the order of the  *)
(* list, behind whatever the company gave back.                            *)
THEOREM UniqueRecordsKeepTheirOrder ==
    ASSUME NEW X, NEW ids, NEW refused \in Seq(X), NEW list \in Seq(X),
           OnlyOneOfEach(ids, list),
           \A k \in DOMAIN refused : refused[k].id \notin ids
    PROVE  StandAsIn(ids, list, Len(list), AllSalesRecords(refused, list))
  <1> DEFINE own == ReduceSales(<<>>, refused)
             sales == ReduceSales(<<>>, list)
             all == ReduceSales(own, sales)
             nothing == <<>>
  <1>1. nothing \in Seq(X) /\ DOMAIN nothing = {}
    OBVIOUS
  <1>2. own \in Seq(X) /\ StandAsIn(ids, refused, Len(refused), own)
    <2>1. OnlyOneOfEach(ids, refused)
      BY DEF OnlyOneOfEach
    <2>2. \A k \in DOMAIN nothing : nothing[k].id \notin ids
      BY <1>1
    <2> HIDE DEF nothing
    <2>3. /\ ReduceSales(nothing, refused) \in Seq(X)
          /\ StandAsIn(ids, refused, Len(refused), ReduceSales(nothing, refused))
      BY <1>1, <2>1, <2>2, EveryRecordInOrder
    <2>4. QED
      BY <2>3 DEF nothing
  <1>3. sales \in Seq(X) /\ StandAsIn(ids, list, Len(list), sales)
    <2>1. \A k \in DOMAIN nothing : nothing[k].id \notin ids
      BY <1>1
    <2> HIDE DEF nothing
    <2>2. /\ ReduceSales(nothing, list) \in Seq(X)
          /\ StandAsIn(ids, list, Len(list), ReduceSales(nothing, list))
      BY <1>1, <2>1, EveryRecordInOrder
    <2>3. QED
      BY <2>2 DEF nothing
  <1> HIDE DEF own, sales
  <1>4. \A k \in DOMAIN own : own[k].id \notin ids
    <2>1. PICK place : Matches(ids, refused, Len(refused), own, place)
      BY <1>2, StandAsMatched
    <2>2. DOMAIN refused = 1 .. Len(refused)
      OBVIOUS
    <2>3. QED
      BY <2>1, <2>2 DEF Matches
  <1>5. OnlyOneOfEach(ids, sales)
    <2>1. PICK place : Matches(ids, list, Len(list), sales, place)
      BY <1>3, StandAsMatched
    <2>2. DOMAIN list = 1 .. Len(list)
      OBVIOUS
    <2>3. ASSUME NEW k \in DOMAIN sales, sales[k].id \in ids
          PROVE  \E i \in DOMAIN list : place[i] = k /\ sales[k] = list[i]
      <3> DEFINE here == {i \in 1 .. Len(list) : list[i].id \in ids}
                 there == {x \in DOMAIN sales : sales[x].id \in ids}
      <3>1. /\ \A x \in there : \E i \in here : place[i] = x
            /\ \A i \in here : sales[place[i]] = list[i]
        BY <2>1 DEF Matches
      <3>2. k \in there
        BY <2>3
      <3> HIDE DEF there
      <3>3. PICK i \in here : place[i] = k
        BY <3>1, <3>2
      <3>4. sales[k] = list[i] /\ i \in DOMAIN list
        BY <2>2, <3>1, <3>3
      <3>5. QED
        BY <3>3, <3>4
    <2>4. ASSUME NEW k \in DOMAIN sales, NEW m \in DOMAIN sales,
                 sales[k].id = sales[m].id, sales[k].id \in ids
          PROVE  k = m
      <3>1. PICK i \in DOMAIN list : place[i] = k /\ sales[k] = list[i]
        BY <2>3, <2>4
      <3>2. PICK j \in DOMAIN list : place[j] = m /\ sales[m] = list[j]
        BY <2>3, <2>4
      <3>3. i = j
        BY <2>4, <3>1, <3>2 DEF OnlyOneOfEach
      <3>4. QED
        BY <3>1, <3>2, <3>3
    <2>5. QED
      BY <2>4 DEF OnlyOneOfEach
  <1>6. StandAsIn(ids, sales, Len(sales), all)
    BY <1>2, <1>3, <1>4, <1>5, EveryRecordInOrder
  <1> HIDE DEF all
  <1>7. StandAsIn(ids, list, Len(list), all)
    <2>1. DOMAIN list = 1 .. Len(list) /\ DOMAIN sales = 1 .. Len(sales)
      BY <1>3
    <2>2. QED
      BY <1>3, <1>6, <2>1, InOrderTwice
  <1>8. QED
    BY <1>7 DEF all, own, sales, AllSalesRecords

-----------------------------------------------------------------------------
(* Equal records, which are the refusals for one reason. *)
LEMMA StillTogether ==
    ASSUME NEW X, NEW list \in Seq(X), NEW r \in X, NEW less, StandTogether(list),
           \A i \in DOMAIN list : <<r.id, list[i].id>> \in less <=> r.id = list[i].id
    PROVE  StandTogether(InsertAt(list, PlaceFor(less, r, list), r))
  <1> DEFINE p == PlaceFor(less, r, list)
             longer == InsertAt(list, p, r)
             N == Len(list)
             from(x) == IF x <= p THEN x ELSE x - 1
  <1>1. N \in Nat /\ DOMAIN list = 1 .. N
    OBVIOUS
  <1>2. /\ p \in 1 .. N + 1
        /\ \A i \in 1 .. N : i < p => r.id # list[i].id
        /\ p <= N => r.id = list[p].id
    <2>1. /\ p \in 1 .. N + 1
          /\ \A i \in 1 .. N : i < p => <<r.id, list[i].id>> \notin less
          /\ p <= N => <<r.id, list[p].id>> \in less
      BY PlaceIsBehindTheOthers
    <2> HIDE DEF p, N
    <2>2. p <= N => p \in 1 .. N
      BY <1>1, <2>1
    <2>3. QED
      BY <1>1, <2>1, <2>2
  <1> HIDE DEF p
  <1>3. /\ DOMAIN longer = 1 .. N + 1
        /\ \A i \in 1 .. N + 1 :
             longer[i] = IF i < p THEN list[i]
                         ELSE IF i = p THEN r ELSE list[i - 1]
    <2>1. /\ longer \in Seq(X) /\ Len(longer) = N + 1
          /\ \A i \in 1 .. N + 1 :
               longer[i] = IF i < p THEN list[i]
                           ELSE IF i = p THEN r ELSE list[i - 1]
      BY <1>2, InsertedAt
    <2>2. QED
      BY <2>1
  <1> HIDE DEF N, longer
  <1>4. CASE p <= N
    <2>1. \A x \in 1 .. N + 1 : from(x) \in 1 .. N /\ longer[x].id = list[from(x)].id
      <3> SUFFICES ASSUME NEW x \in 1 .. N + 1
                   PROVE  from(x) \in 1 .. N /\ longer[x].id = list[from(x)].id
        OBVIOUS
      <3>1. x < p \/ x = p \/ x > p
        BY <1>1, <1>2
      <3>2. QED
        BY <1>1, <1>2, <1>3, <1>4, <3>1
    <2>2. \A x, y \in 1 .. N + 1 : x <= y => from(x) <= from(y)
      BY <1>1, <1>2
    <2> HIDE DEF from
    <2>3. StandTogether(longer)
      <3> SUFFICES ASSUME NEW k \in 1 .. N + 1, NEW m \in 1 .. N + 1,
                          NEW n \in 1 .. N + 1, k <= m, m <= n,
                          longer[k].id = longer[n].id
                   PROVE  longer[m].id = longer[k].id
        BY <1>3 DEF StandTogether
      <3>1. from(k) <= from(m) /\ from(m) <= from(n)
        BY <2>2
      <3>2. list[from(k)].id = list[from(n)].id
        BY <2>1
      <3>3. list[from(m)].id = list[from(k)].id
        BY <1>1, <2>1, <3>1, <3>2 DEF StandTogether
      <3>4. QED
        BY <2>1, <3>3
    <2>4. QED
      BY <2>3 DEF longer, p
  <1>5. CASE p = N + 1
    <2>1. longer[N + 1] = r /\ \A i \in 1 .. N : longer[i] = list[i] /\ list[i].id # r.id
      BY <1>1, <1>2, <1>3, <1>5
    <2> SUFFICES ASSUME NEW k \in 1 .. N + 1, NEW m \in 1 .. N + 1,
                        NEW n \in 1 .. N + 1, k <= m, m <= n,
                        longer[k].id = longer[n].id
                 PROVE  longer[m].id = longer[k].id
      BY <1>3 DEF StandTogether, longer, p
    <2>2. CASE n \in 1 .. N
      <3>1. k \in 1 .. N /\ m \in 1 .. N
        BY <1>1, <2>2
      <3>2. QED
        BY <1>1, <2>1, <2>2, <3>1 DEF StandTogether
    <2>3. CASE n = N + 1
      <3>1. k = N + 1
        BY <1>1, <2>1, <2>3
      <3>2. m = N + 1
        BY <1>1, <2>3, <3>1
      <3>3. QED
        BY <3>1, <3>2
    <2>4. QED
      BY <1>1, <2>2, <2>3
  <1>6. QED
    BY <1>1, <1>2, <1>4, <1>5

LEMMA ReducedTogether ==
    ASSUME NEW X, NEW start \in Seq(X), NEW records \in Seq(X), StandTogether(start)
    PROVE  /\ ReduceSales(start, records) \in Seq(X)
           /\ StandTogether(ReduceSales(start, records))
  <1> DEFINE N == Len(records)
             toMerge == [i \in DOMAIN records |-> <<records[i]>>]
             less == DeepCompareUniquePtrs(IdsOf(start) \cup IdsOf(records))
             result == LeftFold(less, start, toMerge)
  <1>1. /\ N \in Nat /\ DOMAIN records = 1 .. N
        /\ \A k \in 1 .. N : records[k] \in X
    OBVIOUS
  <1>2. /\ toMerge \in Seq(ShortLists(X)) /\ Len(toMerge) = N
        /\ \A k \in 1 .. N : toMerge[k] = <<records[k]>>
    BY <1>1 DEF ShortLists
  <1>3. \A k \in 1 .. N : \A id : <<records[k].id, id>> \in less <=> records[k].id = id
    BY <1>1 DEF DeepCompareUniquePtrs, IdsOf
  <1>4. ReduceSales(start, records) = result
    BY DEF ReduceSales
  <1> HIDE DEF N, toMerge, less, result
  <1>5. PICK v : MergeLoop(X, less, start, toMerge, v) /\ result = v[N]
    <2>1. start \in Seq(X) /\ toMerge \in Seq(ShortLists(X))
      BY <1>2
    <2>2. \E v : MergeLoop(X, less, start, toMerge, v)
                /\ LeftFold(less, start, toMerge) = v[Len(toMerge)]
      BY ONLY <2>1, LeftFoldIsALoop
    <2>3. QED
      BY <1>2, <2>2 DEF result
  <1> DEFINE Good == {n \in 0 .. N : StandTogether(v[n])}
  <1>6. v[0] = start /\ \A k \in 0 .. N : v[k] \in Seq(X)
    BY <1>2, <1>5 DEF MergeLoop
  <1>7. 0 \in Good
    BY <1>1, <1>6
  <1>8. ASSUME NEW n \in 0 .. N - 1, n \in Good PROVE n + 1 \in Good
    <2> DEFINE merged == v[n]
               next == records[n + 1]
    <2>1. /\ n + 1 \in 1 .. N /\ (n + 1) - 1 = n /\ n \in 0 .. N /\ n + 1 \in 0 .. N
      BY <1>1
    <2>2. merged \in Seq(X) /\ next \in X /\ StandTogether(merged)
      BY <1>1, <1>6, <1>8, <2>1
    <2>3. v[n + 1] = InsertAt(merged, PlaceFor(less, next, merged), next)
      <3>1. v[n + 1] = MergeListTransactionRecords(less, merged, <<next>>)
        BY <1>2, <1>5, <2>1 DEF MergeLoop
      <3>2. QED
        BY <3>1 DEF MergeListTransactionRecords
    <2>4. \A i \in DOMAIN merged :
              <<next.id, merged[i].id>> \in less <=> next.id = merged[i].id
      BY <1>3, <2>1
    <2> HIDE DEF merged, next
    <2>5. StandTogether(InsertAt(merged, PlaceFor(less, next, merged), next))
      BY <2>2, <2>4, StillTogether
    <2>6. QED
      BY <2>1, <2>3, <2>5
  <1>9. 0 .. N \subseteq Good
    <2> HIDE DEF Good
    <2>1. QED
      BY <1>1, <1>7, <1>8, UpTo
  <1>10. N \in 0 .. N
    BY <1>1
  <1>11. QED
    BY <1>4, <1>5, <1>6, <1>9, <1>10

(* However many records the edges and the company have given, equal ones     *)
(* come to stand together, though the comparator of the merge is no order.   *)
THEOREM EqualRecordsAreNotParted ==
    ASSUME NEW X, NEW restockSales \in Seq(X), NEW sales \in Seq(X)
    PROVE  StandTogether(AllSalesRecords(restockSales, sales))
  <1> DEFINE nothing == <<>>
  <1>1. nothing \in Seq(X) /\ StandTogether(nothing)
    BY DEF StandTogether
  <1> HIDE DEF nothing
  <1>2. /\ ReduceSales(nothing, restockSales) \in Seq(X)
        /\ StandTogether(ReduceSales(nothing, restockSales))
        /\ ReduceSales(nothing, sales) \in Seq(X)
    BY <1>1, ReducedTogether
  <1> DEFINE own == ReduceSales(nothing, restockSales)
             others == ReduceSales(nothing, sales)
  <1> HIDE DEF own, others
  <1>3. own \in Seq(X) /\ StandTogether(own) /\ others \in Seq(X)
    BY <1>2 DEF own, others
  <1>4. StandTogether(ReduceSales(own, others))
    BY <1>3, ReducedTogether
  <1>5. QED
    BY <1>4 DEF AllSalesRecords, own, others, nothing
=============================================================================

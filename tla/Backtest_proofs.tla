-------------------------- MODULE Backtest_proofs --------------------------
(***************************************************************************)
(* Theorems about the historical side. Of BacktestRunner, for any exit     *)
(* policy, plans, candles and pairs: the replay agrees with the            *)
(* simulator, a gross result is what the fills paid, the stop comes first  *)
(* (if the legs differ), and no trade loses more than its risk (if the     *)
(* breakeven offset is at least -1 R). Of ResearchFigures, for any         *)
(* trades, costs, orderings, calendar, plans and reports: out-of-sample    *)
(* trades count once (if windows step on by the out-of-sample months),     *)
(* resampling is coherent, and a better report passes the gate unless a    *)
(* loss out of sample shrinks.                                             *)
(*                                                                         *)
(* The invariant (RunnerInv) says that every trade of the runner is the    *)
(* one its signal would have had alone, over the candles of its pair that  *)
(* followed the signal; so a property of a trade alone (Good: it is        *)
(* Sound, Covered and Pessimist) is one of every trade. The figures need   *)
(* only the types of the data (FiguresTyped): what is to be shown is       *)
(* about what is computed from them. The sums, the recursive functions     *)
(* and the trades met candle by candle are reasoned about by the           *)
(* induction theorem below, which is about sets of numbers.                *)
(***************************************************************************)
EXTENDS BacktestRunner, ResearchFigures, SequenceTheorems, FiniteSetTheorems, TLAPS

-----------------------------------------------------------------------------
(* Induction.  P is a set, so that the theorem can be used of any formula.   *)

\* A set that holds zero and every successor holds every number.  Otherwise the
\* map that moves the members of P one up and leaves the others alone would put
\* the n + 1 numbers up to n into the n numbers from 1 to n.
LEMMA Induction ==
    ASSUME NEW P, 0 \in P, \A k \in Nat : k \in P => k + 1 \in P, NEW n \in Nat
    PROVE  n \in P
  <1>1. SUFFICES ASSUME n \notin P
                 PROVE  FALSE
    OBVIOUS
  <1> DEFINE f == [k \in 0..n |-> IF k \in P THEN k + 1 ELSE k]
  <1>2. f \in [0..n -> 1..n]
    <2>1. ASSUME NEW k \in 0..n
          PROVE  (IF k \in P THEN k + 1 ELSE k) \in 1..n
      <3>1. CASE k \in P
        <4>1. k # n
          BY <1>1, <3>1
        <4> QED
          BY <3>1, <4>1
      <3>2. CASE k \notin P
        <4>1. k # 0
          BY <3>2
        <4> QED
          BY <3>2, <4>1
      <3> QED
        BY <3>1, <3>2
    <2> QED
      BY <2>1
  <1>3. /\ IsFiniteSet(0..n) /\ IsFiniteSet(1..n)
        /\ Cardinality(0..n) = n + 1 /\ Cardinality(1..n) = n
    BY FS_Interval
  <1>4. Cardinality(1..n) < Cardinality(0..n)
    BY <1>3
  <1>5. PICK j \in 0..n, k \in 0..n : j # k /\ f[j] = f[k]
    <2> HIDE DEF f
    <2> QED
      BY <1>2, <1>3, <1>4, FS_PigeonHole
  <1>6. ASSUME NEW a \in 0..n, NEW b \in 0..n, a \in P, b \notin P, f[a] = f[b]
        PROVE  FALSE
    <2>1. b = a + 1
      BY <1>6
    <2> QED
      BY <1>6, <2>1
  <1> QED
    BY <1>5, <1>6

\* A family that holds a subset of T when it holds every smaller one holds all.
LEMMA SizeInduction ==
    ASSUME NEW T, IsFiniteSet(T), NEW P,
           \A s \in SUBSET T : (\A u \in SUBSET T : Cardinality(u) < Cardinality(s) => u \in P) => s \in P
    PROVE  \A s \in SUBSET T : s \in P
  <1> DEFINE Q == {k \in Nat : \A s \in SUBSET T : Cardinality(s) < k => s \in P}
  <1>1. \A s \in SUBSET T : Cardinality(s) \in Nat
    BY FS_Subset, FS_CardinalityType
  <1>2. 0 \in Q
    BY <1>1
  <1>3. ASSUME NEW k \in Nat, k \in Q
        PROVE  k + 1 \in Q
    <2>1. ASSUME NEW s \in SUBSET T, Cardinality(s) < k + 1
          PROVE  s \in P
      <3>1. \A u \in SUBSET T : Cardinality(u) < Cardinality(s) => u \in P
        <4>1. TAKE u \in SUBSET T
        <4>2. HAVE Cardinality(u) < Cardinality(s)
        <4>3. Cardinality(u) < k
          BY <1>1, <2>1, <4>2
        <4> QED
          BY <1>3, <4>3
      <3> QED
        BY <3>1
    <2> QED
      BY <2>1
  <1>4. ASSUME NEW s \in SUBSET T
        PROVE  s \in P
    <2>1. Cardinality(s) + 1 \in Nat
      BY <1>1
    <2> HIDE DEF Q
    <2>2. Cardinality(s) + 1 \in Q
      BY <1>2, <1>3, <2>1, Induction
    <2> USE DEF Q
    <2> QED
      BY <1>1, <2>2
  <1> QED
    BY <1>4

-----------------------------------------------------------------------------
(* Sums *)

Pick(s) == CHOOSE x \in s : TRUE

Scaled(w, v, c, S) == \A x \in S : v[x] \in Int /\ w[x] = c * v[x]
AreInts(w, S) == \A x \in S : w[x] \in Int

\* The function Folds defines a sum with.
IsSum(g, w, S) ==
    g = [s \in SUBSET S |-> IF s = {} THEN 0 ELSE w[Pick(s)] + g[s \ {Pick(s)}]]

SumOf(w, S) == CHOOSE g : IsSum(g, w, S)

LEMMA SumUnfolds ==
    ASSUME NEW w, NEW S
    PROVE  SumFunctionOnSet(w, S) = SumOf(w, S)[S]
  BY DEF SumFunctionOnSet, FoldFunctionOnSet, MapThenFoldSet, SumOf, IsSum, Pick

LEMMA Smaller ==
    ASSUME NEW S, IsFiniteSet(S)
    PROVE  /\ \A s \in SUBSET S : IsFiniteSet(s) /\ Cardinality(s) \in Nat
           /\ \A s \in SUBSET S, x \in S :
                 /\ s \ {x} \in SUBSET S
                 /\ x \in s => Cardinality(s \ {x}) = Cardinality(s) - 1
                 /\ x \in s => Cardinality(s \ {x}) < Cardinality(s)
           /\ \A s \in SUBSET S : s # {} => Pick(s) \in s /\ Pick(s) \in S
  <1>1. \A s \in SUBSET S : IsFiniteSet(s) /\ Cardinality(s) \in Nat
    BY FS_Subset, FS_CardinalityType
  <1>2. ASSUME NEW s \in SUBSET S, NEW x \in S
        PROVE  /\ s \ {x} \in SUBSET S
               /\ x \in s => Cardinality(s \ {x}) = Cardinality(s) - 1
               /\ x \in s => Cardinality(s \ {x}) < Cardinality(s)
    BY <1>1, FS_RemoveElement
  <1>3. ASSUME NEW s \in SUBSET S, s # {}
        PROVE  Pick(s) \in s /\ Pick(s) \in S
    BY <1>3 DEF Pick
  <1> QED
    BY <1>1, <1>2, <1>3

\* There is such a function: build it by the size of its arguments.
LEMMA SumExists ==
    ASSUME NEW w, NEW S, IsFiniteSet(S)
    PROVE  IsSum(SumOf(w, S), w, S)
  <1> DEFINE Upto(g, n) ==
                \A s \in SUBSET S : Cardinality(s) <= n =>
                    g[s] = IF s = {} THEN 0 ELSE w[Pick(s)] + g[s \ {Pick(s)}]
             P == {n \in Nat : \E g : g = [s \in SUBSET S |-> g[s]] /\ Upto(g, n)}
  <1>1. 0 \in P
    <2> DEFINE g == [s \in SUBSET S |-> 0]
    <2>1. ASSUME NEW s \in SUBSET S, Cardinality(s) <= 0
          PROVE  s = {}
      <3>1. Cardinality(s) = 0
        BY <2>1, Smaller
      <3> QED
        BY <3>1, Smaller, FS_EmptySet
    <2>2. Upto(g, 0)
      BY <2>1
    <2>3. g = [s \in SUBSET S |-> g[s]]
      OBVIOUS
    <2> QED
      BY <2>2, <2>3
  <1>2. ASSUME NEW n \in Nat, n \in P
        PROVE  n + 1 \in P
    <2>1. PICK g : g = [s \in SUBSET S |-> g[s]] /\ Upto(g, n)
      BY <1>2
    <2> DEFINE h == [s \in SUBSET S |-> IF s = {} THEN 0 ELSE w[Pick(s)] + g[s \ {Pick(s)}]]
    <2>2. ASSUME NEW s \in SUBSET S, Cardinality(s) <= n
          PROVE  h[s] = g[s]
      BY <2>1, <2>2
    <2>3. ASSUME NEW s \in SUBSET S, Cardinality(s) <= n + 1, s # {}
          PROVE  h[s] = w[Pick(s)] + h[s \ {Pick(s)}]
      <3>1. s \ {Pick(s)} \in SUBSET S /\ Cardinality(s \ {Pick(s)}) <= n
        BY <2>3, Smaller
      <3>2. h[s \ {Pick(s)}] = g[s \ {Pick(s)}]
        BY <2>2, <3>1
      <3> QED
        BY <2>3, <3>2
    <2>4. h[{}] = 0
      OBVIOUS
    <2>5. h = [s \in SUBSET S |-> h[s]]
      OBVIOUS
    <2> HIDE DEF h
    <2>6. ASSUME NEW s \in SUBSET S, Cardinality(s) <= n + 1
          PROVE  h[s] = IF s = {} THEN 0 ELSE w[Pick(s)] + h[s \ {Pick(s)}]
      BY <2>3, <2>4, <2>6
    <2>7. Upto(h, n + 1)
      BY <2>6
    <2>8. \E k : k = [s \in SUBSET S |-> k[s]] /\ Upto(k, n + 1)
      <3> HIDE DEF Upto
      <3> QED
        BY <2>5, <2>7
    <2> QED
      <3> HIDE DEF Upto
      <3> QED
        BY <2>8
  <1>3. Cardinality(S) \in Nat /\ \A s \in SUBSET S : Cardinality(s) <= Cardinality(S)
    BY FS_Subset, FS_CardinalityType
  <1>4. Cardinality(S) \in P
    <2> HIDE DEF P
    <2> QED
      BY <1>1, <1>2, <1>3, Induction
  <1>5. PICK g : g = [s \in SUBSET S |-> g[s]] /\ Upto(g, Cardinality(S))
    BY <1>4
  <1>6. g = [s \in SUBSET S |-> IF s = {} THEN 0 ELSE w[Pick(s)] + g[s \ {Pick(s)}]]
    BY <1>3, <1>5
  <1>7. IsSum(g, w, S)
    BY <1>6 DEF IsSum
  <1> QED
    BY <1>7 DEF SumOf

LEMMA SumTakes ==
    ASSUME NEW w, NEW S, NEW g, IsSum(g, w, S)
    PROVE  /\ g[{}] = 0
           /\ \A s \in SUBSET S : s # {} => g[s] = w[Pick(s)] + g[s \ {Pick(s)}]
  BY DEF IsSum

\* A sum over a part of the indices is the same in the whole.
LEMMA SumOfSubset ==
    ASSUME NEW w, NEW T, NEW S \in SUBSET T, IsFiniteSet(S),
           NEW g, IsSum(g, w, S), NEW h, IsSum(h, w, T)
    PROVE  \A s \in SUBSET S : g[s] = h[s]
  <1> DEFINE P == {s \in SUBSET S : g[s] = h[s]}
  <1>1. ASSUME NEW s \in SUBSET S,
               \A u \in SUBSET S : Cardinality(u) < Cardinality(s) => u \in P
        PROVE  s \in P
    <2>1. s \in SUBSET T
      OBVIOUS
    <2>2. CASE s = {}
      <3>1. g[{}] = 0
        BY SumTakes
      <3>2. h[{}] = 0
        BY SumTakes
      <3> QED
        BY <2>2, <3>1, <3>2
    <2>3. CASE s # {}
      <3>1. s \ {Pick(s)} \in P /\ Pick(s) \in S
        BY <1>1, <2>3, Smaller
      <3>2. g[s] = w[Pick(s)] + g[s \ {Pick(s)}]
        BY <2>3, SumTakes
      <3>3. h[s] = w[Pick(s)] + h[s \ {Pick(s)}]
        BY <2>1, <2>3, SumTakes
      <3> QED
        BY <3>1, <3>2, <3>3
    <2> QED
      BY <2>2, <2>3
  <1>2. \A s \in SUBSET S : s \in P
    <2> HIDE DEF P
    <2> QED
      BY <1>1, SizeInduction
  <1> QED
    BY <1>2

LEMMA SumIsInt ==
    ASSUME NEW w, NEW S, IsFiniteSet(S), AreInts(w, S), NEW g, IsSum(g, w, S)
    PROVE  \A s \in SUBSET S : g[s] \in Int
  <1>0. \A s \in SUBSET S : s # {} => g[s] = w[Pick(s)] + g[s \ {Pick(s)}]
    BY DEF IsSum
  <1> DEFINE P == {s \in SUBSET S : g[s] \in Int}
  <1>1. ASSUME NEW s \in SUBSET S,
               \A u \in SUBSET S : Cardinality(u) < Cardinality(s) => u \in P
        PROVE  s \in P
    <2>1. CASE s = {}
      BY <2>1, SumTakes
    <2>2. CASE s # {}
      <3>1. s \ {Pick(s)} \in P /\ Pick(s) \in S
        BY <1>1, <2>2, Smaller
      <3>2. g[s] = w[Pick(s)] + g[s \ {Pick(s)}]
        BY <2>2, <1>0
      <3> QED
        BY <3>1, <3>2 DEF AreInts
    <2> QED
      BY <2>1, <2>2
  <1>2. \A s \in SUBSET S : s \in P
    <2> HIDE DEF P
    <2> QED
      BY <1>1, SizeInduction
  <1> QED
    BY <1>2

\* Whichever index is taken off first, the sum is the same.
LEMMA SumInAnyOrder ==
    ASSUME NEW w, NEW S, IsFiniteSet(S), AreInts(w, S), NEW g, IsSum(g, w, S)
    PROVE  \A s \in SUBSET S, x \in S : x \in s => g[s] = w[x] + g[s \ {x}]
  <1> DEFINE P == {s \in SUBSET S : \A x \in s : g[s] = w[x] + g[s \ {x}]}
  <1>1. ASSUME NEW s \in SUBSET S,
               \A u \in SUBSET S : Cardinality(u) < Cardinality(s) => u \in P, NEW x \in s
        PROVE  g[s] = w[x] + g[s \ {x}]
    <2> DEFINE y == Pick(s)
    <2>1. y \in s /\ y \in S /\ x \in S
      BY Smaller
    <2>2. g[s] = w[y] + g[s \ {y}]
      <3>1. s # {}
        OBVIOUS
      <3> QED
        BY <3>1, SumTakes
    <2> HIDE DEF y
    <2>3. CASE x = y
      BY <2>2, <2>3
    <2>4. CASE x # y
      <3>1. s \ {y} \in P /\ s \ {x} \in P
        <4> HIDE DEF P
        <4> QED
          BY <1>1, <2>1, Smaller
      <3>2. x \in s \ {y} /\ y \in s \ {x}
        BY <2>1, <2>4
      <3> DEFINE rest == (s \ {y}) \ {x}
      <3>3. rest = (s \ {x}) \ {y} /\ rest \in SUBSET S
        OBVIOUS
      <3>4. g[s \ {y}] = w[x] + g[rest]
        BY <3>1, <3>2
      <3>5. g[s \ {x}] = w[y] + g[rest]
        BY <3>1, <3>2, <3>3
      <3> HIDE DEF rest
      <3>6. g[rest] \in Int /\ w[x] \in Int /\ w[y] \in Int
        BY <2>1, <3>3, SumIsInt DEF AreInts
      <3> QED
        BY <2>2, <3>4, <3>5, <3>6
    <2> QED
      BY <2>3, <2>4
  <1>2. \A s \in SUBSET S : s \in P
    <2>1. ASSUME NEW s \in SUBSET S,
                 \A u \in SUBSET S : Cardinality(u) < Cardinality(s) => u \in P
          PROVE  s \in P
      BY <1>1, <2>1
    <2> HIDE DEF P
    <2> QED
      BY <2>1, SizeInduction
  <1> QED
    BY <1>2

\* A sum takes its indices off in any order, down to nothing.
LEMMA SumRule ==
    ASSUME NEW w, NEW S, IsFiniteSet(S), AreInts(w, S)
    PROVE  /\ SumFunctionOnSet(w, {}) = 0
           /\ \A s \in SUBSET S : SumFunctionOnSet(w, s) \in Int
           /\ \A s \in SUBSET S, x \in S :
                 x \in s => SumFunctionOnSet(w, s) = w[x] + SumFunctionOnSet(w, s \ {x})
  <1>1. PICK g : IsSum(g, w, S)
    BY SumExists
  <1>2. ASSUME NEW s \in SUBSET S
        PROVE  SumFunctionOnSet(w, s) = g[s]
    <2>1. IsFiniteSet(s)
      BY FS_Subset
    <2>2. PICK h : IsSum(h, w, s) /\ h = SumOf(w, s)
      BY <2>1, SumExists
    <2>3. SumFunctionOnSet(w, s) = h[s]
      BY <2>2, SumUnfolds
    <2>4. \A u \in SUBSET s : h[u] = g[u]
      BY <1>1, <2>1, <2>2, SumOfSubset
    <2> QED
      BY <2>3, <2>4
  <1>3. g[{}] = 0
    BY <1>1 DEF IsSum
  <1>4. \A s \in SUBSET S : g[s] \in Int
    BY <1>1, SumIsInt
  <1>5. \A s \in SUBSET S, x \in S : x \in s => g[s] = w[x] + g[s \ {x}]
    BY <1>1, SumInAnyOrder
  <1>6. SumFunctionOnSet(w, {}) = 0
    BY <1>2, <1>3
  <1>7. \A s \in SUBSET S : SumFunctionOnSet(w, s) \in Int
    BY <1>2, <1>4
  <1>8. ASSUME NEW s \in SUBSET S, NEW x \in s
        PROVE  SumFunctionOnSet(w, s) = w[x] + SumFunctionOnSet(w, s \ {x})
    <2>1. s \ {x} \in SUBSET S
      OBVIOUS
    <2>2. SumFunctionOnSet(w, s) = g[s] /\ SumFunctionOnSet(w, s \ {x}) = g[s \ {x}]
      BY <1>2, <2>1
    <2>3. g[s] = w[x] + g[s \ {x}]
      BY <1>5
    <2> QED
      BY <2>2, <2>3
  <1> QED
    BY <1>6, <1>7, <1>8

LEMMA SumOfDisjoint ==
    ASSUME NEW w, NEW S, IsFiniteSet(S), AreInts(w, S),
           NEW a \in SUBSET S, NEW b \in SUBSET S, a \cap b = {}
    PROVE  SumFunctionOnSet(w, a \cup b) = SumFunctionOnSet(w, a) + SumFunctionOnSet(w, b)
  <1> DEFINE P == {s \in SUBSET b : SumFunctionOnSet(w, a \cup s)
                                      = SumFunctionOnSet(w, a) + SumFunctionOnSet(w, s)}
  <1>0. IsFiniteSet(b) /\ b \in SUBSET b
    BY FS_Subset
  <1>1. ASSUME NEW s \in SUBSET b,
               \A u \in SUBSET b : Cardinality(u) < Cardinality(s) => u \in P
        PROVE  s \in P
    <2>1. SumFunctionOnSet(w, a) \in Int
      BY SumRule
    <2>2. CASE s = {}
      <3>1. SumFunctionOnSet(w, s) = 0
        BY <2>2, SumRule
      <3>2. a \cup s = a
        BY <2>2
      <3>3. SumFunctionOnSet(w, a) = SumFunctionOnSet(w, a) + 0
        BY <2>1
      <3>4. SumFunctionOnSet(w, a \cup s) = SumFunctionOnSet(w, a) + SumFunctionOnSet(w, s)
        BY <3>1, <3>2, <3>3
      <3> QED
        BY <3>4
    <2>3. CASE s # {}
      <3>1. PICK x : x \in s
        BY <2>3
      <3> DEFINE r == s \ {x}
      <3>2. r \in SUBSET b /\ Cardinality(r) < Cardinality(s)
        BY <1>0, <3>1, Smaller
      <3>3. r \in P
        BY <1>1, <3>2
      <3>4. SumFunctionOnSet(w, a \cup r) = SumFunctionOnSet(w, a) + SumFunctionOnSet(w, r)
        BY <3>3
      <3>5. SumFunctionOnSet(w, s) = w[x] + SumFunctionOnSet(w, r)
        BY <3>1, SumRule
      <3>6. SumFunctionOnSet(w, a \cup s) = w[x] + SumFunctionOnSet(w, a \cup r)
        <4>1. (a \cup s) \ {x} = a \cup r /\ x \in a \cup s /\ a \cup s \in SUBSET S
          BY <3>1
        <4>2. SumFunctionOnSet(w, a \cup s) = w[x] + SumFunctionOnSet(w, (a \cup s) \ {x})
          BY <4>1, SumRule
        <4> QED
          BY <4>1, <4>2
      <3>7. SumFunctionOnSet(w, r) \in Int /\ w[x] \in Int
        BY <3>1, SumRule DEF AreInts
      <3> HIDE DEF r
      <3>8. SumFunctionOnSet(w, a \cup s) = SumFunctionOnSet(w, a) + SumFunctionOnSet(w, s)
        BY <2>1, <3>4, <3>5, <3>6, <3>7
      <3> QED
        BY <3>8
    <2> QED
      BY <2>2, <2>3
  <1>2. \A s \in SUBSET b : s \in P
    <2> HIDE DEF P
    <2> QED
      BY <1>0, <1>1, SizeInduction
  <1> QED
    BY <1>0, <1>2

LEMMA SumIsNatural ==
    ASSUME NEW w, NEW S, IsFiniteSet(S), \A x \in S : w[x] \in Nat
    PROVE  SumFunctionOnSet(w, S) \in Nat
  <1> DEFINE P == {s \in SUBSET S : SumFunctionOnSet(w, s) \in Nat}
  <1>0. AreInts(w, S)
    BY DEF AreInts
  <1>1. ASSUME NEW s \in SUBSET S,
               \A u \in SUBSET S : Cardinality(u) < Cardinality(s) => u \in P
        PROVE  s \in P
    <2>2. CASE s = {}
      BY <1>0, <2>2, SumRule
    <2>3. CASE s # {}
      <3>1. PICK x : x \in s
        BY <2>3
      <3> DEFINE r == s \ {x}
      <3>2. r \in SUBSET S /\ Cardinality(r) < Cardinality(s)
        BY <3>1, Smaller
      <3>3. SumFunctionOnSet(w, r) \in Nat
        BY <1>1, <3>2
      <3>4. SumFunctionOnSet(w, s) = w[x] + SumFunctionOnSet(w, r)
        BY <1>0, <3>1, SumRule
      <3>5. w[x] \in Nat
        BY <3>1
      <3> HIDE DEF r
      <3>6. SumFunctionOnSet(w, s) \in Nat
        BY <3>3, <3>4, <3>5
      <3> QED
        BY <3>6
    <2> QED
      BY <2>2, <2>3
  <1>2. \A s \in SUBSET S : s \in P
    <2> HIDE DEF P
    <2> QED
      BY <1>1, SizeInduction
  <1>3. S \in SUBSET S
    OBVIOUS
  <1> QED
    BY <1>2, <1>3

LEMMA SumScales ==
    ASSUME NEW w, NEW v, NEW c \in Int, NEW S, IsFiniteSet(S), Scaled(w, v, c, S)
    PROVE  SumFunctionOnSet(w, S) = c * SumFunctionOnSet(v, S)
  <1> DEFINE P == {s \in SUBSET S : SumFunctionOnSet(w, s) = c * SumFunctionOnSet(v, s)}
  <1>0. AreInts(w, S) /\ AreInts(v, S)
    BY DEF AreInts, Scaled
  <1>1. ASSUME NEW s \in SUBSET S,
               \A u \in SUBSET S : Cardinality(u) < Cardinality(s) => u \in P
        PROVE  s \in P
    <2>2. CASE s = {}
      <3>1. SumFunctionOnSet(w, s) = 0
        BY <1>0, <2>2, SumRule
      <3>2. SumFunctionOnSet(v, s) = 0
        BY <1>0, <2>2, SumRule
      <3> QED
        BY <3>1, <3>2
    <2>3. CASE s # {}
      <3>1. PICK x : x \in s
        BY <2>3
      <3> DEFINE r == s \ {x}
      <3>2. r \in SUBSET S /\ Cardinality(r) < Cardinality(s)
        BY <3>1, Smaller
      <3>3. SumFunctionOnSet(w, r) = c * SumFunctionOnSet(v, r)
        BY <1>1, <3>2
      <3>4. SumFunctionOnSet(w, s) = w[x] + SumFunctionOnSet(w, r)
        BY <1>0, <3>1, SumRule
      <3>5. SumFunctionOnSet(v, s) = v[x] + SumFunctionOnSet(v, r)
        BY <1>0, <3>1, SumRule
      <3>9. SumFunctionOnSet(v, r) \in Int
        BY <1>0, <3>2, SumRule
      <3>6. v[x] \in Int /\ w[x] = c * v[x]
        BY <3>1 DEF Scaled
      <3> HIDE DEF r
      <3>7. \A p, q \in Int : c * p + c * q = c * (p + q)
        OBVIOUS
      <3>8. SumFunctionOnSet(w, s) = c * SumFunctionOnSet(v, s)
        BY <3>3, <3>4, <3>5, <3>6, <3>7, <3>9
      <3> QED
        BY <3>8
    <2> QED
      BY <2>2, <2>3
  <1>2. \A s \in SUBSET S : s \in P
    <2> HIDE DEF P
    <2> QED
      BY <1>1, SizeInduction
  <1>3. S \in SUBSET S
    OBVIOUS
  <1> QED
    BY <1>2, <1>3

-----------------------------------------------------------------------------
(* Recursive functions of the model *)

\* Advanced.
IsAdvance(g, s, cs) ==
    g = [n \in 0..Len(cs) |-> IF n = 0 THEN OpenTrade(s) ELSE Advance(g[n - 1], cs[n])]

LEMMA AdvanceExists ==
    ASSUME NEW s, NEW cs, Len(cs) \in Nat
    PROVE  \E g : IsAdvance(g, s, cs)
  <1> DEFINE Upto(g, m) == g[0] = OpenTrade(s) /\ \A n \in 1..m : g[n] = Advance(g[n - 1], cs[n])
             P == {m \in Nat : \E g : Upto(g, m)}
  <1>1. 0 \in P
    <2> DEFINE g == [n \in {0} |-> OpenTrade(s)]
    <2>1. Upto(g, 0)
      OBVIOUS
    <2>2. \E h : Upto(h, 0)
      <3> HIDE DEF Upto
      <3> QED
        BY <2>1
    <2> QED
      BY <2>2
  <1>2. ASSUME NEW m \in Nat, m \in P
        PROVE  m + 1 \in P
    <2>1. PICK g : Upto(g, m)
      BY <1>2
    <2> DEFINE h == [n \in 0..(m + 1) |-> IF n <= m THEN g[n] ELSE Advance(g[m], cs[m + 1])]
    <2>2. h[0] = g[0] /\ \A n \in 1..m : h[n] = g[n] /\ h[n - 1] = g[n - 1]
      OBVIOUS
    <2>3. h[m + 1] = Advance(h[m], cs[m + 1]) /\ (m + 1) - 1 = m
      OBVIOUS
    <2> HIDE DEF h
    <2>4. ASSUME NEW n \in 1..(m + 1)
          PROVE  h[n] = Advance(h[n - 1], cs[n])
      <3>1. CASE n = m + 1
        BY <2>3, <3>1
      <3>2. CASE n # m + 1
        <4>1. n \in 1..m
          BY <3>2
        <4>2. g[n] = Advance(g[n - 1], cs[n])
          BY <2>1, <4>1
        <4> QED
          BY <2>2, <4>1, <4>2
      <3> QED
        BY <3>1, <3>2
    <2>5. Upto(h, m + 1)
      BY <2>1, <2>2, <2>4
    <2>6. \E k : Upto(k, m + 1)
      <3> HIDE DEF Upto
      <3> QED
        BY <2>5
    <2> QED
      BY <2>6
  <1>3. Len(cs) \in P
    <2> HIDE DEF P
    <2> QED
      BY <1>1, <1>2, Induction
  <1>4. PICK g : Upto(g, Len(cs))
    BY <1>3
  <1> DEFINE h == [n \in 0..Len(cs) |-> g[n]]
  <1>5. ASSUME NEW n \in 0..Len(cs)
        PROVE  h[n] = IF n = 0 THEN OpenTrade(s) ELSE Advance(h[n - 1], cs[n])
    <2>1. CASE n = 0
      BY <1>4, <2>1
    <2>2. CASE n # 0
      <3>1. n \in 1..Len(cs) /\ n - 1 \in 0..Len(cs)
        BY <2>2
      <3>2. g[n] = Advance(g[n - 1], cs[n])
        BY <1>4, <3>1
      <3>3. h[n] = g[n] /\ h[n - 1] = g[n - 1]
        BY <3>1
      <3> QED
        BY <2>2, <3>2, <3>3
    <2> QED
      BY <2>1, <2>2
  <1>6. h = [n \in 0..Len(cs) |-> h[n]]
    OBVIOUS
  <1> HIDE DEF h
  <1>7. IsAdvance(h, s, cs)
    BY <1>5, <1>6 DEF IsAdvance
  <1> QED
    BY <1>7

LEMMA AdvanceUnfolds ==
    ASSUME NEW s, NEW cs, Len(cs) \in Nat
    PROVE  \E g : IsAdvance(g, s, cs) /\ Advanced(s, cs) = g[Len(cs)]
  <1> DEFINE g == CHOOSE h : IsAdvance(h, s, cs)
  <1>1. IsAdvance(g, s, cs)
    BY AdvanceExists
  <1>2. Advanced(s, cs) = g[Len(cs)]
    BY DEF Advanced, IsAdvance
  <1> HIDE DEF g
  <1> QED
    BY <1>1, <1>2

LEMMA AdvanceUses ==
    ASSUME NEW s, NEW cs, Len(cs) \in Nat, NEW g, IsAdvance(g, s, cs)
    PROVE  g[0] = OpenTrade(s) /\ \A n \in 1..Len(cs) : g[n] = Advance(g[n - 1], cs[n])
  <1>1. g[0] = OpenTrade(s)
    BY DEF IsAdvance
  <1>2. ASSUME NEW n \in 1..Len(cs)
        PROVE  g[n] = Advance(g[n - 1], cs[n])
    <2>1. n \in 0..Len(cs) /\ n # 0
      OBVIOUS
    <2> QED
      BY <2>1 DEF IsAdvance
  <1> QED
    BY <1>1, <1>2

\* A trade alone meets the candles one by one.
LEMMA AdvancedRule ==
    ASSUME NEW C, NEW s, NEW cs \in Seq(C), NEW c \in C
    PROVE  /\ Advanced(s, <<>>) = OpenTrade(s)
           /\ Advanced(s, Append(cs, c)) = Advance(Advanced(s, cs), c)
  <1>1. Advanced(s, <<>>) = OpenTrade(s)
    <2>1. PICK g : IsAdvance(g, s, <<>>) /\ Advanced(s, <<>>) = g[Len(<<>>)]
      BY AdvanceUnfolds
    <2>2. g[0] = OpenTrade(s)
      BY <2>1, AdvanceUses
    <2> QED
      BY <2>1, <2>2
  <1> DEFINE ds == Append(cs, c)
             L == Len(cs)
  <1>2. L \in Nat /\ Len(ds) = L + 1 /\ ds[L + 1] = c /\ \A n \in 1..L : ds[n] = cs[n]
    OBVIOUS
  <1> HIDE DEF ds
  <1>3. PICK g : IsAdvance(g, s, cs) /\ Advanced(s, cs) = g[L]
    BY <1>2, AdvanceUnfolds
  <1>4. PICK h : IsAdvance(h, s, ds) /\ Advanced(s, ds) = h[Len(ds)]
    BY <1>2, AdvanceUnfolds
  <1>5. g[0] = OpenTrade(s) /\ \A n \in 1..L : g[n] = Advance(g[n - 1], cs[n])
    BY <1>2, <1>3, AdvanceUses
  <1>6. h[0] = OpenTrade(s) /\ \A n \in 1..(L + 1) : h[n] = Advance(h[n - 1], ds[n])
    <2>1. Len(ds) \in Nat
      BY <1>2
    <2>2. h[0] = OpenTrade(s) /\ \A n \in 1..Len(ds) : h[n] = Advance(h[n - 1], ds[n])
      BY <1>4, <2>1, AdvanceUses
    <2> QED
      BY <1>2, <2>2
  <1> DEFINE P == {n \in Nat : n <= L => g[n] = h[n]}
  <1> HIDE DEF L
  <1>7. 0 \in P
    BY <1>5, <1>6
  <1>8. ASSUME NEW n \in Nat, n \in P
        PROVE  n + 1 \in P
    <2>1. CASE n + 1 <= L
      <3>1. n + 1 \in 1..L /\ n + 1 \in 1..(L + 1) /\ (n + 1) - 1 = n
        BY <1>2, <2>1
      <3>2. g[n + 1] = Advance(g[n], cs[n + 1]) /\ h[n + 1] = Advance(h[n], ds[n + 1])
        BY <1>5, <1>6, <3>1
      <3>3. g[n] = h[n] /\ ds[n + 1] = cs[n + 1]
        BY <1>2, <1>8, <2>1, <3>1
      <3> QED
        BY <3>2, <3>3
    <2>2. CASE ~(n + 1 <= L)
      BY <2>2
    <2> QED
      BY <2>1, <2>2
  <1>9. L \in P
    <2> HIDE DEF P
    <2> QED
      BY <1>2, <1>7, <1>8, Induction
  <1>10. g[L] = h[L]
    BY <1>2, <1>9
  <1>11. h[L + 1] = Advance(h[L], c)
    <2>1. L + 1 \in 1..(L + 1) /\ (L + 1) - 1 = L
      BY <1>2
    <2> QED
      BY <1>2, <1>6, <2>1
  <1>12. Advanced(s, ds) = Advance(Advanced(s, cs), c)
    BY <1>2, <1>3, <1>4, <1>10, <1>11
  <1> QED
    BY <1>1, <1>12 DEF ds

\* Following: the candles of a pair and timeframe after an index.
After(candles, s) ==
    LET upto[n \in s.index..Len(candles)] ==
            IF n = s.index THEN <<>>
            ELSE IF candles[n].key = s.key THEN Append(upto[n - 1], candles[n].candle)
            ELSE upto[n - 1]
    IN  upto[Len(candles)]

Grown(candles, s, n, met) ==
    IF candles[n].key = s.key THEN Append(met, candles[n].candle) ELSE met

IsAfter(g, candles, s) ==
    g = [n \in s.index..Len(candles) |-> IF n = s.index THEN <<>>
                                         ELSE Grown(candles, s, n, g[n - 1])]

LEMMA AfterExists ==
    ASSUME NEW s, NEW cs, Len(cs) \in Nat, s.index \in Nat, s.index <= Len(cs)
    PROVE  \E g : IsAfter(g, cs, s)
  <1> DEFINE lo == s.index
             Upto(g, m) == g[lo] = <<>> /\ \A n \in (lo + 1)..(lo + m) : g[n] = Grown(cs, s, n, g[n - 1])
             P == {m \in Nat : \E g : Upto(g, m)}
  <1>0. lo \in Nat
    OBVIOUS
  <1> HIDE DEF lo
  <1>1. 0 \in P
    <2> DEFINE g == [n \in {lo} |-> <<>>]
    <2>1. Upto(g, 0)
      BY <1>0
    <2>2. \E h : Upto(h, 0)
      <3> HIDE DEF Upto
      <3> QED
        BY <2>1
    <2> QED
      BY <2>2
  <1>2. ASSUME NEW m \in Nat, m \in P
        PROVE  m + 1 \in P
    <2>1. PICK g : Upto(g, m)
      BY <1>2
    <2> DEFINE h == [n \in lo..(lo + (m + 1)) |-> IF n <= lo + m THEN g[n]
                                                  ELSE Grown(cs, s, n, g[lo + m])]
    <2>2. h[lo] = g[lo] /\ \A n \in (lo + 1)..(lo + m) : h[n] = g[n] /\ h[n - 1] = g[n - 1]
      BY <1>0
    <2>3. h[lo + (m + 1)] = Grown(cs, s, lo + (m + 1), h[lo + m]) /\ (lo + (m + 1)) - 1 = lo + m
      BY <1>0
    <2> HIDE DEF h
    <2>4. ASSUME NEW n \in (lo + 1)..(lo + (m + 1))
          PROVE  h[n] = Grown(cs, s, n, h[n - 1])
      <3>1. CASE n = lo + (m + 1)
        BY <2>3, <3>1
      <3>2. CASE n # lo + (m + 1)
        <4>1. n \in (lo + 1)..(lo + m)
          BY <1>0, <3>2
        <4>2. g[n] = Grown(cs, s, n, g[n - 1])
          BY <2>1, <4>1
        <4> QED
          BY <2>2, <4>1, <4>2
      <3> QED
        BY <3>1, <3>2
    <2>5. Upto(h, m + 1)
      BY <2>1, <2>2, <2>4
    <2>6. \E k : Upto(k, m + 1)
      <3> HIDE DEF Upto
      <3> QED
        BY <2>5
    <2> QED
      BY <2>6
  <1>a. Len(cs) - lo \in Nat /\ lo + (Len(cs) - lo) = Len(cs)
    BY DEF lo
  <1>3. Len(cs) - lo \in P
    <2> HIDE DEF P
    <2> QED
      BY <1>1, <1>2, <1>a, Induction
  <1>4. PICK g : Upto(g, Len(cs) - lo)
    BY <1>3
  <1> DEFINE h == [n \in lo..Len(cs) |-> g[n]]
  <1>5. ASSUME NEW n \in lo..Len(cs)
        PROVE  h[n] = IF n = lo THEN <<>> ELSE Grown(cs, s, n, h[n - 1])
    <2>1. CASE n = lo
      BY <1>4, <2>1
    <2>2. CASE n # lo
      <3>1. n \in (lo + 1)..Len(cs) /\ n - 1 \in lo..Len(cs)
        BY <1>0, <2>2
      <3>2. g[n] = Grown(cs, s, n, g[n - 1])
        BY <1>4, <1>a, <3>1
      <3>3. h[n] = g[n] /\ h[n - 1] = g[n - 1]
        BY <3>1
      <3> QED
        BY <2>2, <3>2, <3>3
    <2> QED
      BY <2>1, <2>2
  <1>6. h = [n \in lo..Len(cs) |-> h[n]]
    OBVIOUS
  <1> HIDE DEF h
  <1>7. IsAfter(h, cs, s)
    BY <1>5, <1>6 DEF IsAfter, lo
  <1> QED
    BY <1>7

LEMMA AfterUnfolds ==
    ASSUME NEW s, NEW cs, Len(cs) \in Nat, s.index \in Nat, s.index <= Len(cs)
    PROVE  \E g : IsAfter(g, cs, s) /\ After(cs, s) = g[Len(cs)]
  <1> DEFINE g == CHOOSE h : IsAfter(h, cs, s)
  <1>1. IsAfter(g, cs, s)
    BY AfterExists
  <1>2. After(cs, s) = g[Len(cs)]
    BY DEF After, IsAfter, Grown
  <1> HIDE DEF g
  <1> QED
    BY <1>1, <1>2

LEMMA AfterUses ==
    ASSUME NEW s, NEW cs, Len(cs) \in Nat, s.index \in Nat, s.index <= Len(cs),
           NEW g, IsAfter(g, cs, s)
    PROVE  /\ g[s.index] = <<>>
           /\ \A n \in (s.index + 1)..Len(cs) : g[n] = Grown(cs, s, n, g[n - 1])
  <1>1. g[s.index] = <<>>
    BY DEF IsAfter
  <1>2. ASSUME NEW n \in (s.index + 1)..Len(cs)
        PROVE  g[n] = Grown(cs, s, n, g[n - 1])
    <2>1. n \in s.index..Len(cs) /\ n # s.index
      OBVIOUS
    <2> QED
      BY <2>1 DEF IsAfter
  <1> QED
    BY <1>1, <1>2

LEMMA AfterRule ==
    ASSUME NEW C, NEW s, NEW cs \in Seq(C), NEW e \in C,
           s.index \in Nat, s.index <= Len(cs)
    PROVE  /\ s.index = Len(cs) => After(cs, s) = <<>>
           /\ After(Append(cs, e), s)
                = IF e.key = s.key THEN Append(After(cs, s), e.candle) ELSE After(cs, s)
  <1> DEFINE lo == s.index
             L == Len(cs)
             ds == Append(cs, e)
  <1>1. /\ L \in Nat /\ lo \in Nat /\ lo <= L
        /\ Len(ds) = L + 1 /\ ds[L + 1] = e /\ \A n \in 1..L : ds[n] = cs[n]
    OBVIOUS
  <1> HIDE DEF ds
  <1>2. PICK g : IsAfter(g, cs, s) /\ After(cs, s) = g[L]
    BY <1>1, AfterUnfolds
  <1>3. PICK h : IsAfter(h, ds, s) /\ After(ds, s) = h[L + 1]
    <2>1. Len(ds) \in Nat /\ s.index <= Len(ds)
      BY <1>1
    <2>2. \E h : IsAfter(h, ds, s) /\ After(ds, s) = h[Len(ds)]
      BY <2>1, AfterUnfolds
    <2> QED
      BY <1>1, <2>2
  <1>4. g[lo] = <<>> /\ \A n \in (lo + 1)..L : g[n] = Grown(cs, s, n, g[n - 1])
    BY <1>1, <1>2, AfterUses
  <1>5. h[lo] = <<>> /\ \A n \in (lo + 1)..(L + 1) : h[n] = Grown(ds, s, n, h[n - 1])
    <2>1. Len(ds) \in Nat /\ s.index <= Len(ds)
      BY <1>1
    <2>2. h[lo] = <<>> /\ \A n \in (lo + 1)..Len(ds) : h[n] = Grown(ds, s, n, h[n - 1])
      BY <1>3, <2>1, AfterUses
    <2> QED
      BY <1>1, <2>2
  <1> HIDE DEF L, lo
  <1> DEFINE P == {n \in Nat : lo + n <= L => g[lo + n] = h[lo + n]}
  <1>6. 0 \in P
    BY <1>1, <1>4, <1>5
  <1>7. ASSUME NEW n \in Nat, n \in P
        PROVE  n + 1 \in P
    <2> DEFINE k == lo + (n + 1)
    <2>1. CASE k <= L
      <3>1. k \in (lo + 1)..L /\ k \in (lo + 1)..(L + 1) /\ k - 1 = lo + n /\ k \in 1..L
        BY <1>1, <2>1
      <3> HIDE DEF k
      <3>2. g[k] = Grown(cs, s, k, g[lo + n]) /\ h[k] = Grown(ds, s, k, h[lo + n])
        BY <1>4, <1>5, <3>1
      <3>3. g[lo + n] = h[lo + n]
        BY <1>1, <1>7, <3>1
      <3>4. ds[k] = cs[k]
        BY <1>1, <3>1
      <3>5. g[k] = h[k]
        BY <3>2, <3>3, <3>4 DEF Grown
      <3> QED
        BY <3>5 DEF k
    <2>2. CASE ~(k <= L)
      BY <2>2
    <2> QED
      BY <2>1, <2>2
  <1>8. L - lo \in P
    <2>1. L - lo \in Nat
      BY <1>1
    <2> HIDE DEF P
    <2> QED
      BY <1>6, <1>7, <2>1, Induction
  <1>9. g[L] = h[L]
    <2>1. lo + (L - lo) = L
      BY <1>1
    <2> QED
      BY <1>1, <1>8, <2>1
  <1>10. h[L + 1] = Grown(ds, s, L + 1, h[L])
    <2>1. L + 1 \in (lo + 1)..(L + 1) /\ (L + 1) - 1 = L
      BY <1>1
    <2> QED
      BY <1>5, <2>1
  <1>11. After(ds, s) = IF e.key = s.key THEN Append(After(cs, s), e.candle) ELSE After(cs, s)
    BY <1>1, <1>2, <1>3, <1>9, <1>10 DEF Grown
  <1>12. lo = L => After(cs, s) = <<>>
    BY <1>2, <1>4
  <1> QED
    BY <1>11, <1>12 DEF ds, lo, L

\* InState: a subsequence.
Kept(trades, states, n, first) ==
    IF trades[n].state \in states THEN Append(first, trades[n]) ELSE first

IsFilter(g, trades, states) ==
    g = [n \in 0..Len(trades) |-> IF n = 0 THEN <<>> ELSE Kept(trades, states, n, g[n - 1])]

LEMMA FilterExists ==
    ASSUME NEW cs, NEW states, Len(cs) \in Nat
    PROVE  \E g : IsFilter(g, cs, states)
  <1> DEFINE Upto(g, m) == g[0] = <<>> /\ \A n \in 1..m : g[n] = Kept(cs, states, n, g[n - 1])
             P == {m \in Nat : \E g : Upto(g, m)}
  <1>1. 0 \in P
    <2> DEFINE g == [n \in {0} |-> <<>>]
    <2>1. Upto(g, 0)
      OBVIOUS
    <2>2. \E h : Upto(h, 0)
      <3> HIDE DEF Upto
      <3> QED
        BY <2>1
    <2> QED
      BY <2>2
  <1>2. ASSUME NEW m \in Nat, m \in P
        PROVE  m + 1 \in P
    <2>1. PICK g : Upto(g, m)
      BY <1>2
    <2> DEFINE h == [n \in 0..(m + 1) |-> IF n <= m THEN g[n] ELSE Kept(cs, states, m + 1, g[m])]
    <2>2. h[0] = g[0] /\ \A n \in 1..m : h[n] = g[n] /\ h[n - 1] = g[n - 1]
      OBVIOUS
    <2>3. h[m + 1] = Kept(cs, states, m + 1, h[m]) /\ (m + 1) - 1 = m
      OBVIOUS
    <2> HIDE DEF h
    <2>4. ASSUME NEW n \in 1..(m + 1)
          PROVE  h[n] = Kept(cs, states, n, h[n - 1])
      <3>1. CASE n = m + 1
        BY <2>3, <3>1
      <3>2. CASE n # m + 1
        <4>1. n \in 1..m
          BY <3>2
        <4>2. g[n] = Kept(cs, states, n, g[n - 1])
          BY <2>1, <4>1
        <4> QED
          BY <2>2, <4>1, <4>2
      <3> QED
        BY <3>1, <3>2
    <2>5. Upto(h, m + 1)
      BY <2>1, <2>2, <2>4
    <2>6. \E k : Upto(k, m + 1)
      <3> HIDE DEF Upto
      <3> QED
        BY <2>5
    <2> QED
      BY <2>6
  <1>3. Len(cs) \in P
    <2> HIDE DEF P
    <2> QED
      BY <1>1, <1>2, Induction
  <1>4. PICK g : Upto(g, Len(cs))
    BY <1>3
  <1> DEFINE h == [n \in 0..Len(cs) |-> g[n]]
  <1>5. ASSUME NEW n \in 0..Len(cs)
        PROVE  h[n] = IF n = 0 THEN <<>> ELSE Kept(cs, states, n, h[n - 1])
    <2>1. CASE n = 0
      BY <1>4, <2>1
    <2>2. CASE n # 0
      <3>1. n \in 1..Len(cs) /\ n - 1 \in 0..Len(cs)
        BY <2>2
      <3>2. g[n] = Kept(cs, states, n, g[n - 1])
        BY <1>4, <3>1
      <3>3. h[n] = g[n] /\ h[n - 1] = g[n - 1]
        BY <3>1
      <3> QED
        BY <2>2, <3>2, <3>3
    <2> QED
      BY <2>1, <2>2
  <1>6. h = [n \in 0..Len(cs) |-> h[n]]
    OBVIOUS
  <1> HIDE DEF h
  <1>7. IsFilter(h, cs, states)
    BY <1>5, <1>6 DEF IsFilter
  <1> QED
    BY <1>7

LEMMA FilterUnfolds ==
    ASSUME NEW cs, NEW states, Len(cs) \in Nat
    PROVE  \E g : IsFilter(g, cs, states) /\ InState(cs, states) = g[Len(cs)]
  <1> DEFINE g == CHOOSE h : IsFilter(h, cs, states)
  <1>1. IsFilter(g, cs, states)
    BY FilterExists
  <1>2. InState(cs, states) = g[Len(cs)]
    BY DEF InState, IsFilter, Kept
  <1> HIDE DEF g
  <1> QED
    BY <1>1, <1>2

\* from tells where each element of r comes from among the first n of some trades.
Comes(from, r, trades, n, states) ==
    /\ from \in [1..Len(r) -> 1..n]
    /\ \A m \in 1..Len(r) : r[m] = trades[from[m]] /\ trades[from[m]].state \in states
    /\ \A m, l \in 1..Len(r) : from[m] = from[l] => m = l
    /\ \A k \in 1..n : trades[k].state \in states => \E m \in 1..Len(r) : from[m] = k

LEMMA ComesOneMore ==
    ASSUME NEW T, NEW trades \in Seq(T), NEW states, NEW n \in Nat, n + 1 <= Len(trades),
           NEW r \in Seq(T), NEW from, Comes(from, r, trades, n, states)
    PROVE  LET q == Kept(trades, states, n + 1, r)
           IN  q \in Seq(T) /\ \E to : Comes(to, q, trades, n + 1, states)
  <1> DEFINE x == trades[n + 1]
             L == Len(r)
  <1>0. L \in Nat /\ x \in T
    <2>1. n + 1 \in 1..Len(trades)
      OBVIOUS
    <2> QED
      BY <2>1, ElementOfSeq
  <1>1. CASE x.state \notin states
    <2>1. Kept(trades, states, n + 1, r) = r
      BY <1>1 DEF Kept
    <2>2. from \in [1..L -> 1..(n + 1)]
      BY DEF Comes
    <2>3. ASSUME NEW k \in 1..(n + 1), trades[k].state \in states
          PROVE  \E m \in 1..L : from[m] = k
      <3>1. k # n + 1
        BY <1>1, <2>3
      <3>2. k \in 1..n
        BY <3>1
      <3> QED
        BY <2>3, <3>2 DEF Comes
    <2>4. Comes(from, r, trades, n + 1, states)
      BY <2>2, <2>3 DEF Comes
    <2> QED
      BY <2>1, <2>4
  <1>2. CASE x.state \in states
    <2> DEFINE q == Append(r, x)
               to == [m \in 1..(L + 1) |-> IF m <= L THEN from[m] ELSE n + 1]
    <2>1. Kept(trades, states, n + 1, r) = q
      BY <1>2 DEF Kept
    <2>2. q \in Seq(T) /\ Len(q) = L + 1 /\ q[L + 1] = x /\ \A m \in 1..L : q[m] = r[m]
      BY <1>0
    <2>3. to \in [1..(L + 1) -> 1..(n + 1)]
      <3>1. ASSUME NEW m \in 1..(L + 1)
            PROVE  (IF m <= L THEN from[m] ELSE n + 1) \in 1..(n + 1)
        <4>1. CASE m <= L
          <5>1. m \in 1..L
            BY <1>0, <4>1
          <5>2. from[m] \in 1..n
            BY <5>1 DEF Comes
          <5> QED
            BY <4>1, <5>2
        <4>2. CASE ~(m <= L)
          BY <4>2
        <4> QED
          BY <4>1, <4>2
      <3> QED
        BY <3>1
    <2>4. to[L + 1] = n + 1 /\ \A m \in 1..L : to[m] = from[m] /\ to[m] \in 1..n
      <3>1. \A m \in 1..L : from[m] \in 1..n
        BY DEF Comes
      <3> QED
        BY <1>0, <3>1
    <2>5. \A m \in 1..(L + 1) : m = L + 1 \/ m \in 1..L
      BY <1>0
    <2> HIDE DEF to, q, L
    <2>6. ASSUME NEW m \in 1..(L + 1)
          PROVE  q[m] = trades[to[m]] /\ trades[to[m]].state \in states
      <3>1. CASE m = L + 1
        BY <1>2, <2>2, <2>4, <3>1
      <3>2. CASE m \in 1..L
        BY <2>2, <2>4, <3>2 DEF Comes, L
      <3> QED
        BY <2>5, <3>1, <3>2
    <2>7. ASSUME NEW m \in 1..(L + 1), NEW l \in 1..(L + 1), to[m] = to[l]
          PROVE  m = l
      <3>1. n + 1 \notin 1..n
        OBVIOUS
      <3>2. CASE m \in 1..L /\ l \in 1..L
        <4>1. from[m] = from[l]
          BY <2>4, <2>7, <3>2
        <4> QED
          BY <3>2, <4>1 DEF Comes, L
      <3>3. CASE m = L + 1 /\ l \in 1..L
        BY <2>4, <2>7, <3>1, <3>3
      <3>4. CASE m \in 1..L /\ l = L + 1
        BY <2>4, <2>7, <3>1, <3>4
      <3> QED
        BY <2>5, <3>2, <3>3, <3>4
    <2>8. ASSUME NEW k \in 1..(n + 1), trades[k].state \in states
          PROVE  \E m \in 1..(L + 1) : to[m] = k
      <3>1. CASE k = n + 1
        <4>1. L + 1 \in 1..(L + 1)
          BY <1>0
        <4> QED
          BY <2>4, <3>1, <4>1
      <3>2. CASE k # n + 1
        <4>1. k \in 1..n
          BY <3>2
        <4>2. PICK m \in 1..L : from[m] = k
          BY <2>8, <4>1 DEF Comes, L
        <4>3. m \in 1..(L + 1)
          BY <1>0
        <4> QED
          BY <2>4, <4>2, <4>3
      <3> QED
        BY <3>1, <3>2
    <2>9. Comes(to, q, trades, n + 1, states)
      BY <2>2, <2>3, <2>6, <2>7, <2>8 DEF Comes
    <2> QED
      BY <2>1, <2>2, <2>9
  <1> QED
    BY <1>1, <1>2

LEMMA InStateRule ==
    ASSUME NEW T, NEW trades \in Seq(T), NEW states
    PROVE  /\ InState(trades, states) \in Seq(T)
           /\ \E from : Comes(from, InState(trades, states), trades, Len(trades), states)
  <1> DEFINE L == Len(trades)
  <1>0. L \in Nat
    OBVIOUS
  <1>1. PICK g : IsFilter(g, trades, states) /\ InState(trades, states) = g[L]
    BY FilterUnfolds
  <1>2. g[0] = <<>>
    BY <1>0, <1>1 DEF IsFilter
  <1>3. ASSUME NEW n \in Nat, n + 1 <= L
        PROVE  g[n + 1] = Kept(trades, states, n + 1, g[n])
    <2>1. n + 1 \in 0..L /\ n + 1 # 0 /\ (n + 1) - 1 = n
      BY <1>0, <1>3
    <2> HIDE DEF L
    <2>2. g[n + 1] = IF n + 1 = 0 THEN <<>> ELSE Kept(trades, states, n + 1, g[(n + 1) - 1])
      BY <1>1, <2>1 DEF IsFilter, L
    <2> QED
      BY <2>1, <2>2
  <1> DEFINE P == {n \in Nat : n <= L =>
                      g[n] \in Seq(T) /\ \E from : Comes(from, g[n], trades, n, states)}
  <1>4. 0 \in P
    <2> DEFINE from == [m \in {} |-> 0]
    <2>1. <<>> \in Seq(T) /\ Len(<<>>) = 0 /\ 1..0 = {}
      OBVIOUS
    <2>2. Comes(from, <<>>, trades, 0, states)
      BY <2>1 DEF Comes
    <2> QED
      BY <1>2, <2>1, <2>2
  <1>5. ASSUME NEW n \in Nat, n \in P
        PROVE  n + 1 \in P
    <2>1. CASE n + 1 <= L
      <3>1. n <= L
        BY <1>0, <2>1
      <3>2. g[n] \in Seq(T) /\ \E from : Comes(from, g[n], trades, n, states)
        BY <1>5, <3>1
      <3>3. PICK from : Comes(from, g[n], trades, n, states)
        BY <3>2
      <3>4. g[n + 1] = Kept(trades, states, n + 1, g[n])
        BY <1>3, <2>1
      <3>5. g[n + 1] \in Seq(T) /\ \E to : Comes(to, g[n + 1], trades, n + 1, states)
        BY <2>1, <3>2, <3>3, <3>4, ComesOneMore
      <3> QED
        BY <3>5
    <2>2. CASE ~(n + 1 <= L)
      BY <2>2
    <2> QED
      BY <2>1, <2>2
  <1>6. L \in P
    <2> HIDE DEF P
    <2> QED
      BY <1>0, <1>4, <1>5, Induction
  <1> QED
    BY <1>0, <1>1, <1>6

-----------------------------------------------------------------------------
(* One trade *)

TradeStates == {"AWAITING_ENTRY", "OPEN", "CLOSED", "EXPIRED_UNFILLED"}
Stopped == {"SL", "STOP_AFTER_PARTIAL_TP"}
Reasons == Stopped \cup {"none", "LAST_LEG", "TIME_STOP", "END_OF_DATA"}
Methods == {"none", "SAME_CANDLE", "SL_ONLY", "TP_ONLY", "TIME_STOP", "END_OF_DATA"}

SignalSet ==
    [direction : {"BULLISH", "BEARISH"}, low : Int, high : Int, reference : Int, stop : Int,
     key : Keys, index : Nat, id : Nat]

\* The signals of a replay, and those of a random entry.
Proper(s) == s \in SignalSet /\ Risk(s) > 0 /\ Risk(s) % RUnit = 0

TradeSet ==
    [signal : SignalSet, state : TradeStates, stop : Int, since_signal : Nat,
     since_entry : Nat, fills : [LegNumbers -> Nat], remaining : Int, reason : Reasons,
     method : Methods, exit : Int]

\* Advance by parts.
Waiting(t) == [t EXCEPT !.since_signal = @ + 1]
Entered(t) == [Waiting(t) EXCEPT !.state = "OPEN", !.since_entry = @ + 1]
Enters(t, c) == t.state = "OPEN" \/ (t.state = "AWAITING_ENTRY" /\ Touches(t.signal, c))

LEMMA AdvanceCases ==
    ASSUME NEW t \in TradeSet, NEW c
    PROVE  /\ t.state \in {"CLOSED", "EXPIRED_UNFILLED"} => Advance(t, c) = t
           /\ (t.state = "AWAITING_ENTRY" /\ ~Enters(t, c)) => Advance(t, c) = Unfilled(Waiting(t))
           /\ Enters(t, c) => Advance(t, c) = OnMarket(Entered(t), c)
           /\ t.state \in {"CLOSED", "EXPIRED_UNFILLED"}
              \/ (t.state = "AWAITING_ENTRY" /\ ~Enters(t, c)) \/ Enters(t, c)
  <1>1. t.state \in TradeStates
    BY DEF TradeSet
  <1> QED
    BY <1>1 DEF Advance, Enters, Waiting, Entered, TradeStates

LEMMA PolicyFacts ==
    /\ Len(Legs) \in Nat /\ LegNumbers = 1..Len(Legs) /\ Len(Legs) \in LegNumbers
    /\ IsFiniteSet(LegNumbers)
    /\ \A l \in LegNumbers : Legs[l].target \in Nat \ {0} /\ Legs[l].size \in Nat \ {0}
    /\ \A l \in LegNumbers : Sizes[l] \in Nat
    /\ AreInts(Sizes, LegNumbers)
    /\ RUnit \in Nat /\ RUnit > 0 /\ BreakevenOffset \in Int
    /\ BreakevenAfter \in Nat /\ TimeStop \in Nat
  <1>1. Len(Legs) \in Nat
    BY PolicyAssumption
  <1>2. Len(Legs) \in LegNumbers
    BY <1>1, PolicyAssumption DEF LegNumbers
  <1>3. IsFiniteSet(LegNumbers)
    BY <1>1, FS_Interval DEF LegNumbers
  <1>4. ASSUME NEW l \in LegNumbers
        PROVE  Legs[l].target \in Nat \ {0} /\ Legs[l].size \in Nat \ {0}
    <2>1. l \in 1..Len(Legs)
      BY DEF LegNumbers
    <2>2. Legs[l] \in [target : Nat \ {0}, size : Nat \ {0}]
      <3>1. Legs \in Seq([target : Nat \ {0}, size : Nat \ {0}])
        BY PolicyAssumption
      <3> QED
        BY <2>1, <3>1, ElementOfSeq
    <2> QED
      BY <2>2
  <1>5. \A l \in LegNumbers : Sizes[l] \in Nat
    BY <1>4 DEF Sizes
  <1>6. AreInts(Sizes, LegNumbers)
    BY <1>5 DEF AreInts
  <1>7. /\ RUnit \in Nat /\ RUnit > 0 /\ BreakevenOffset \in Int
        /\ BreakevenAfter \in Nat /\ TimeStop \in Nat
    BY <1>1, PolicyAssumption
  <1>8. LegNumbers = 1..Len(Legs)
    BY DEF LegNumbers
  <1> QED
    BY <1>1, <1>2, <1>3, <1>4, <1>5, <1>6, <1>7, <1>8

Directed(s) == s.direction \in {"BULLISH", "BEARISH"}

LEMMA SignFacts ==
    ASSUME NEW s, Directed(s)
    PROVE  /\ Sign(s) \in {1, -1}
           /\ Sign(s) \in Int
           /\ \A x \in Int : Sign(s) * x \in Int
           /\ \A x \in Int : Sign(s) * (Sign(s) * x) = x
           /\ \A x, y \in Int : Sign(s) * (x + y) = Sign(s) * x + Sign(s) * y
           /\ \A x, y \in Int : Sign(s) * (x - y) = Sign(s) * x - Sign(s) * y
  <1>1. CASE s.direction = "BULLISH"
    <2>1. Sign(s) = 1
      BY <1>1 DEF Sign
    <2> QED
      BY <2>1
  <1>2. CASE s.direction = "BEARISH"
    <2>1. Sign(s) = -1
      BY <1>2 DEF Sign
    <2> QED
      BY <2>1
  <1> QED
    BY <1>1, <1>2 DEF Directed

\* With R a whole number of parts, a price counted in parts is exact.
LEMMA ExactParts ==
    ASSUME NEW r \in Int, NEW u \in Nat, u > 0, r > 0, r % u = 0, NEW p \in Int
    PROVE  /\ (r * p) \div u \in Int
           /\ ((r * p) \div u) * u = r * p
           /\ p > 0 => (r * p) \div u > 0
           /\ p >= -u => (r * p) \div u >= -r
  <1> DEFINE q == r \div u
  <1>1. q \in Int /\ r = q * u
    BY Z3
  <1>2. q > 0
    BY <1>1, Z3
  <1> HIDE DEF q
  <1>3. r * p = (q * p) * u /\ q * p \in Int
    BY <1>1, Z3
  <1>4. \A x \in Int : (x * u) \div u = x
    BY Z3
  <1>5. (r * p) \div u = q * p
    BY <1>3, <1>4
  <1>6. p > 0 => q * p > 0
    BY <1>1, <1>2, Z3
  <1>7. p >= -u => q * p >= -r
    <2>1. ASSUME p >= -u
          PROVE  q * p >= q * (-u)
      BY <1>1, <1>2, <2>1, Z3
    <2>2. q * (-u) = -r
      BY <1>1, Z3
    <2> QED
      BY <2>1, <2>2
  <1> QED
    BY <1>1, <1>3, <1>5, <1>6, <1>7

LEMMA PriceFacts ==
    ASSUME NEW s, Proper(s)
    PROVE  /\ Risk(s) \in Int /\ Risk(s) > 0
           /\ Risk(s) = Sign(s) * s.reference - Sign(s) * s.stop
           /\ \A p \in Int : /\ InR(s, p) \in Int
                             /\ (Sign(s) * (InR(s, p) - s.reference)) * RUnit = Risk(s) * p
                             /\ p >= -RUnit => Sign(s) * InR(s, p) >= Sign(s) * s.stop
           /\ \A l \in LegNumbers : /\ TargetPrice(s, l) \in Int
                                    /\ Sign(s) * TargetPrice(s, l) >= Sign(s) * s.stop
                                    /\ (Sign(s) * (TargetPrice(s, l) - s.reference)) * RUnit
                                         = Risk(s) * Legs[l].target
  <1>1. s.direction \in {"BULLISH", "BEARISH"} /\ s.reference \in Int /\ s.stop \in Int
    BY DEF Proper, SignalSet
  <1>2. /\ Sign(s) \in Int /\ \A x \in Int : Sign(s) * x \in Int
        /\ \A x \in Int : Sign(s) * (Sign(s) * x) = x
        /\ \A x, y \in Int : Sign(s) * (x + y) = Sign(s) * x + Sign(s) * y
        /\ \A x, y \in Int : Sign(s) * (x - y) = Sign(s) * x - Sign(s) * y
    <2>1. Directed(s)
      BY <1>1 DEF Directed
    <2> QED
      BY <2>1, SignFacts
  <1>3. Risk(s) = Sign(s) * s.reference - Sign(s) * s.stop
    BY <1>1, <1>2 DEF Risk
  <1>4. Risk(s) \in Int /\ Risk(s) > 0 /\ Risk(s) % RUnit = 0
    <2>1. Sign(s) * s.reference \in Int /\ Sign(s) * s.stop \in Int
      BY <1>1, <1>2
    <2>2. Risk(s) \in Int
      BY <1>3, <2>1
    <2> QED
      BY <2>2 DEF Proper
  <1>5. RUnit \in Nat /\ RUnit > 0
    BY PolicyFacts
  <1>6. ASSUME NEW p \in Int
        PROVE  /\ InR(s, p) \in Int
               /\ (Sign(s) * (InR(s, p) - s.reference)) * RUnit = Risk(s) * p
               /\ p >= -RUnit => Sign(s) * InR(s, p) >= Sign(s) * s.stop
    <2> DEFINE d == (Risk(s) * p) \div RUnit
    <2>1. /\ d \in Int /\ d * RUnit = Risk(s) * p /\ (p >= -RUnit => d >= -Risk(s))
      BY <1>4, <1>5, ExactParts
    <2>2. InR(s, p) = s.reference + Sign(s) * d
      BY DEF InR
    <2> HIDE DEF d
    <2>3. Sign(s) * d \in Int /\ Sign(s) * (Sign(s) * d) = d
      BY <1>2, <2>1
    <2>4. InR(s, p) \in Int /\ InR(s, p) - s.reference = Sign(s) * d
      BY <1>1, <2>2, <2>3
    <2>5. (Sign(s) * (InR(s, p) - s.reference)) * RUnit = Risk(s) * p
      BY <2>1, <2>3, <2>4
    <2>6. Sign(s) * InR(s, p) = Sign(s) * s.reference + d
      <3> DEFINE e == Sign(s) * d
      <3>1. e \in Int /\ Sign(s) * e = d
        BY <2>3
      <3> HIDE DEF e
      <3>2. Sign(s) * (s.reference + e) = Sign(s) * s.reference + Sign(s) * e
        BY <1>1, <1>2, <3>1
      <3> QED
        BY <2>2, <3>1, <3>2 DEF e
    <2>7. Sign(s) * s.reference \in Int /\ Sign(s) * s.stop \in Int
      BY <1>1, <1>2
    <2>8. p >= -RUnit => Sign(s) * InR(s, p) >= Sign(s) * s.stop
      BY <1>3, <1>4, <2>1, <2>6, <2>7
    <2> QED
      BY <2>4, <2>5, <2>8
  <1>7. ASSUME NEW l \in LegNumbers
        PROVE  /\ TargetPrice(s, l) \in Int
               /\ Sign(s) * TargetPrice(s, l) >= Sign(s) * s.stop
               /\ (Sign(s) * (TargetPrice(s, l) - s.reference)) * RUnit
                    = Risk(s) * Legs[l].target
    <2>1. Legs[l].target \in Int /\ Legs[l].target >= -RUnit
      BY <1>5, PolicyFacts
    <2>2. TargetPrice(s, l) = InR(s, Legs[l].target)
      BY DEF TargetPrice
    <2> QED
      BY <1>6, <2>1, <2>2
  <1> QED
    BY <1>3, <1>4, <1>6, <1>7

LEMMA CandleFacts ==
    ASSUME NEW s, Proper(s), NEW c \in Candles
    PROVE  /\ c.low \in Int /\ c.high \in Int /\ c.close \in Int /\ Worst(s, c) \in Int
           /\ Sign(s) * Worst(s, c) \in Int /\ Sign(s) * c.close \in Int
           /\ Sign(s) * c.close >= Sign(s) * Worst(s, c)
  <1>1. /\ c.low \in Int /\ c.high \in Int /\ c.close \in Int
        /\ c.low <= c.close /\ c.close <= c.high
    BY DataAssumption
  <1>2. s.direction \in {"BULLISH", "BEARISH"}
    BY DEF Proper, SignalSet
  <1>3. CASE s.direction = "BULLISH"
    <2>1. Sign(s) = 1 /\ Worst(s, c) = c.low
      BY <1>3 DEF Sign, Worst
    <2> QED
      BY <1>1, <2>1
  <1>4. CASE s.direction = "BEARISH"
    <2>1. Sign(s) = -1 /\ Worst(s, c) = c.high
      BY <1>4 DEF Sign, Worst
    <2> QED
      BY <1>1, <2>1
  <1> QED
    BY <1>2, <1>3, <1>4

\* What FillLegs changes.
NewFills(t, hit) == [l \in LegNumbers |-> IF l \in hit THEN t.since_entry ELSE t.fills[l]]
Moves(t, hit) ==
    BreakevenAfter # 0 /\ \E l \in hit : LegIndex(NewFills(t, hit), l) >= BreakevenAfter

LEMMA FillLegsFields ==
    ASSUME NEW t \in TradeSet, Proper(t.signal), NEW hit \in SUBSET LegNumbers
    PROVE  LET f == FillLegs(t, hit)
           IN  /\ f \in TradeSet
               /\ f.signal = t.signal /\ f.state = t.state /\ f.since_signal = t.since_signal
               /\ f.since_entry = t.since_entry /\ f.reason = t.reason
               /\ f.fills = NewFills(t, hit)
               /\ f.remaining = t.remaining - SumFunctionOnSet(Sizes, hit)
               /\ f.stop = IF Moves(t, hit) THEN InR(t.signal, BreakevenOffset) ELSE t.stop
  <1> DEFINE stop == IF Moves(t, hit) THEN InR(t.signal, BreakevenOffset) ELSE t.stop
             rest == t.remaining - SumFunctionOnSet(Sizes, hit)
             g == [t EXCEPT !.fills = NewFills(t, hit), !.remaining = rest, !.stop = stop]
  <1>1. FillLegs(t, hit) = g
    BY DEF FillLegs, NewFills, Moves, TradeSet
  <1>2. /\ t.stop \in Int /\ t.remaining \in Int /\ t.since_entry \in Nat
        /\ t.fills \in [LegNumbers -> Nat]
    BY DEF TradeSet
  <1>3. InR(t.signal, BreakevenOffset) \in Int
    BY PriceFacts, PolicyFacts
  <1>4. stop \in Int
    BY <1>2, <1>3
  <1>5. SumFunctionOnSet(Sizes, hit) \in Int
    BY PolicyFacts, SumRule
  <1>6. rest \in Int
    BY <1>2, <1>5
  <1>7. NewFills(t, hit) \in [LegNumbers -> Nat]
    BY <1>2 DEF NewFills
  <1> HIDE DEF stop, rest
  <1>8. g \in TradeSet
    BY <1>4, <1>6, <1>7 DEF TradeSet
  <1>9. /\ g.signal = t.signal /\ g.state = t.state /\ g.since_signal = t.since_signal
        /\ g.since_entry = t.since_entry /\ g.reason = t.reason
        /\ g.fills = NewFills(t, hit) /\ g.remaining = rest /\ g.stop = stop
    BY DEF TradeSet
  <1> HIDE DEF g
  <1> QED
    BY <1>1, <1>8, <1>9 DEF stop, rest

IsClosed(t, z, reason, price) ==
    /\ z \in TradeSet
    /\ z.signal = t.signal /\ z.state = "CLOSED" /\ z.since_signal = t.since_signal
    /\ z.since_entry = t.since_entry /\ z.reason = reason /\ z.exit = price
    /\ z.fills = t.fills /\ z.remaining = t.remaining /\ z.stop = t.stop

LEMMA CloseFields ==
    ASSUME NEW t \in TradeSet, NEW reason \in Reasons, NEW method \in Methods, NEW price \in Int
    PROVE  IsClosed(t, CloseAt(t, reason, method, price), reason, price)
  <1>1. CloseAt(t, reason, method, price) \in TradeSet
    BY DEF CloseAt, TradeSet, TradeStates
  <1> QED
    BY <1>1 DEF CloseAt, TradeSet, IsClosed

\* The states m in which an open trade t can leave a candle.
Leaves(t, c, m) ==
    LET hit == TargetsHit(t, c)
    IN  /\ m \in TradeSet
        /\ m.signal = t.signal /\ m.since_signal = t.since_signal
        /\ m.since_entry = t.since_entry
        /\ StopHit(t, c) =>
              /\ m.state = "CLOSED" /\ m.reason \in Stopped /\ m.exit = t.stop
              /\ m.fills = t.fills /\ m.remaining = t.remaining /\ m.stop = t.stop
        /\ ~StopHit(t, c) =>
              /\ m.fills = NewFills(t, hit)
              /\ m.remaining = t.remaining - SumFunctionOnSet(Sizes, hit)
              /\ m.stop = IF Moves(t, hit) THEN InR(t.signal, BreakevenOffset) ELSE t.stop
              /\ \/ m.state = "OPEN" /\ m.reason = "none"
                 \/ m.state = "CLOSED" /\ m.reason = "LAST_LEG"
                    /\ m.exit = TargetPrice(t.signal, Len(Legs))
                 \/ m.state = "CLOSED" /\ m.reason = "TIME_STOP" /\ m.exit = c.close

LEMMA MarketOutcome ==
    ASSUME NEW t \in TradeSet, Proper(t.signal), t.state = "OPEN", t.reason = "none", NEW c \in Candles
    PROVE  Leaves(t, c, OnMarket(t, c))
  <1> DEFINE hit == TargetsHit(t, c)
             f == FillLegs(t, hit)
  <1>1. hit \in SUBSET LegNumbers
    BY DEF TargetsHit
  <1>2. CASE StopHit(t, c)
    <2> DEFINE reason == IF \E l \in LegNumbers : t.fills[l] # 0
                         THEN "STOP_AFTER_PARTIAL_TP" ELSE "SL"
               method == IF hit # {} THEN "SAME_CANDLE" ELSE "SL_ONLY"
    <2>1. OnMarket(t, c) = CloseAt(t, reason, method, t.stop)
      BY <1>2 DEF OnMarket, StoppedOut
    <2>2. reason \in Stopped /\ reason \in Reasons /\ method \in Methods
      <3>1. reason = "STOP_AFTER_PARTIAL_TP" \/ reason = "SL"
        OBVIOUS
      <3>2. method = "SAME_CANDLE" \/ method = "SL_ONLY"
        OBVIOUS
      <3> HIDE DEF reason, method
      <3> QED
        BY <3>1, <3>2 DEF Stopped, Reasons, Methods
    <2>3. t.stop \in Int
      BY DEF TradeSet
    <2> HIDE DEF reason, method, hit
    <2> QED
      BY <1>2, <2>1, <2>2, <2>3, CloseFields DEF IsClosed, Leaves
  <1>3. CASE ~StopHit(t, c)
    <2>1. OnMarket(t, c) = LegsDone(f, c)
      BY <1>3 DEF OnMarket
    <2> HIDE DEF hit
    <2>2. /\ f \in TradeSet
          /\ f.signal = t.signal /\ f.state = t.state /\ f.since_signal = t.since_signal
          /\ f.since_entry = t.since_entry /\ f.reason = t.reason
          /\ f.fills = NewFills(t, hit)
          /\ f.remaining = t.remaining - SumFunctionOnSet(Sizes, hit)
          /\ f.stop = IF Moves(t, hit) THEN InR(t.signal, BreakevenOffset) ELSE t.stop
      BY <1>1, FillLegsFields
    <2> HIDE DEF f
    <2>3. TargetPrice(t.signal, Len(Legs)) \in Int /\ c.close \in Int
      BY PriceFacts, PolicyFacts, CandleFacts
    <2>4. \/ LegsDone(f, c) = CloseAt(f, "LAST_LEG", "TP_ONLY", TargetPrice(t.signal, Len(Legs)))
          \/ LegsDone(f, c) = CloseAt(f, "TIME_STOP", "TIME_STOP", c.close)
          \/ LegsDone(f, c) = f
      BY <2>2 DEF LegsDone
    <2>5. CASE LegsDone(f, c) = CloseAt(f, "LAST_LEG", "TP_ONLY", TargetPrice(t.signal, Len(Legs)))
      <3> DEFINE z == CloseAt(f, "LAST_LEG", "TP_ONLY", TargetPrice(t.signal, Len(Legs)))
      <3>1. IsClosed(f, z, "LAST_LEG", TargetPrice(t.signal, Len(Legs)))
        BY <2>2, <2>3, CloseFields DEF Reasons, Methods
      <3>2. OnMarket(t, c) = z
        BY <2>1, <2>5
      <3> HIDE DEF z
      <3> QED
        BY <1>3, <2>2, <3>1, <3>2 DEF hit, IsClosed, Leaves
    <2>6. CASE LegsDone(f, c) = CloseAt(f, "TIME_STOP", "TIME_STOP", c.close)
      <3> DEFINE z == CloseAt(f, "TIME_STOP", "TIME_STOP", c.close)
      <3>1. IsClosed(f, z, "TIME_STOP", c.close)
        BY <2>2, <2>3, CloseFields DEF Reasons, Methods
      <3>2. OnMarket(t, c) = z
        BY <2>1, <2>6
      <3> HIDE DEF z
      <3> QED
        BY <1>3, <2>2, <3>1, <3>2 DEF hit, IsClosed, Leaves
    <2>7. CASE LegsDone(f, c) = f
      BY <1>3, <2>1, <2>2, <2>7 DEF hit, Leaves
    <2> QED
      BY <2>4, <2>5, <2>6, <2>7
  <1> QED
    BY <1>2, <1>3

\* What holds of a trade that met n candles, whatever the policy.
Sound(t, s, n) ==
    /\ t \in TradeSet /\ t.signal = s
    /\ t.since_entry <= t.since_signal /\ t.since_signal <= n
    /\ t.state \in Live => t.since_signal = n
    /\ t.state \in {"AWAITING_ENTRY", "EXPIRED_UNFILLED"} => t.since_entry = 0
    /\ t.state \in {"OPEN", "CLOSED"} => t.since_entry > 0
    /\ \A l \in LegNumbers : t.fills[l] <= t.since_entry
    /\ t.state # "CLOSED" => t.reason = "none"
    /\ t.remaining = 100 - SumFunctionOnSet(Sizes, Filled(t))
    /\ t.stop = s.stop \/ t.stop = InR(s, BreakevenOffset)

LEMMA SoundAtFirst ==
    ASSUME NEW s, Proper(s)
    PROVE  Sound(OpenTrade(s), s, 0)
  <1> DEFINE t == OpenTrade(s)
  <1>1. s \in SignalSet /\ s.stop \in Int
    BY DEF Proper, SignalSet
  <1>2. t \in TradeSet
    BY <1>1 DEF OpenTrade, TradeSet, TradeStates, Reasons, Methods
  <1>3. Filled(t) = {}
    BY DEF OpenTrade, Filled
  <1>4. SumFunctionOnSet(Sizes, {}) = 0
    BY PolicyFacts, SumRule
  <1>5. t.remaining = 100 - SumFunctionOnSet(Sizes, Filled(t))
    BY <1>3, <1>4 DEF OpenTrade
  <1> QED
    BY <1>2, <1>5 DEF OpenTrade, Sound, Live

LEMMA EnteredFields ==
    ASSUME NEW t \in TradeSet
    PROVE  LET o == Entered(t)
           IN  /\ o \in TradeSet
               /\ o.signal = t.signal /\ o.state = "OPEN" /\ o.reason = t.reason
               /\ o.since_signal = t.since_signal + 1 /\ o.since_entry = t.since_entry + 1
               /\ o.fills = t.fills /\ o.remaining = t.remaining /\ o.stop = t.stop
  <1>1. t.since_signal + 1 \in Nat /\ t.since_entry + 1 \in Nat
    BY DEF TradeSet
  <1> DEFINE w == Waiting(t)
  <1>2. /\ w \in TradeSet /\ w.signal = t.signal /\ w.reason = t.reason
        /\ w.since_signal = t.since_signal + 1 /\ w.since_entry = t.since_entry
        /\ w.fills = t.fills /\ w.remaining = t.remaining /\ w.stop = t.stop
    BY <1>1 DEF Waiting, TradeSet
  <1> HIDE DEF w
  <1>3. Entered(t) = [w EXCEPT !.state = "OPEN", !.since_entry = @ + 1]
    BY DEF Entered, w
  <1>4. [w EXCEPT !.state = "OPEN", !.since_entry = @ + 1] \in TradeSet
    BY <1>1, <1>2 DEF TradeSet, TradeStates
  <1> QED
    BY <1>2, <1>3, <1>4 DEF TradeSet

LEMMA UnfilledFields ==
    ASSUME NEW t \in TradeSet, t.state = "AWAITING_ENTRY"
    PROVE  LET w == Unfilled(Waiting(t))
           IN  /\ w \in TradeSet
               /\ w.signal = t.signal /\ w.state \in {"AWAITING_ENTRY", "EXPIRED_UNFILLED"}
               /\ w.reason = t.reason /\ w.since_signal = t.since_signal + 1
               /\ w.since_entry = t.since_entry
               /\ w.fills = t.fills /\ w.remaining = t.remaining /\ w.stop = t.stop
  <1>1. t.since_signal + 1 \in Nat
    BY DEF TradeSet
  <1> DEFINE w == Waiting(t)
             x == [w EXCEPT !.state = "EXPIRED_UNFILLED"]
  <1>2. /\ w \in TradeSet /\ w.signal = t.signal /\ w.reason = t.reason /\ w.state = t.state
        /\ w.since_signal = t.since_signal + 1 /\ w.since_entry = t.since_entry
        /\ w.fills = t.fills /\ w.remaining = t.remaining /\ w.stop = t.stop
    BY <1>1 DEF Waiting, TradeSet
  <1> HIDE DEF w
  <1>3. /\ x \in TradeSet /\ x.signal = w.signal /\ x.reason = w.reason
        /\ x.state = "EXPIRED_UNFILLED"
        /\ x.since_signal = w.since_signal /\ x.since_entry = w.since_entry
        /\ x.fills = w.fills /\ x.remaining = w.remaining /\ x.stop = w.stop
    BY <1>2 DEF TradeSet, TradeStates
  <1>4. Unfilled(w) = x \/ Unfilled(w) = w
    BY DEF Unfilled
  <1> HIDE DEF x
  <1> QED
    BY <1>2, <1>3, <1>4 DEF w

\* What one more leg filled takes off the position.
LEMMA FilledAndHit ==
    ASSUME NEW t \in TradeSet, NEW m \in TradeSet, NEW c, t.since_entry > 0,
           m.fills = NewFills(t, TargetsHit(t, c))
    PROVE  SumFunctionOnSet(Sizes, Filled(m))
             = SumFunctionOnSet(Sizes, Filled(t)) + SumFunctionOnSet(Sizes, TargetsHit(t, c))
  <1> DEFINE hit == TargetsHit(t, c)
  <1>1. hit \in SUBSET LegNumbers /\ \A l \in hit : t.fills[l] = 0
    BY DEF TargetsHit
  <1> HIDE DEF hit
  <1>2. t.since_entry \in Nat /\ m.fills = NewFills(t, hit)
    BY DEF TradeSet, hit
  <1>3. Filled(t) \in SUBSET LegNumbers /\ Filled(t) \cap hit = {}
    BY <1>1 DEF Filled
  <1>4. \A l \in LegNumbers : m.fills[l] = IF l \in hit THEN t.since_entry ELSE t.fills[l]
    BY <1>2 DEF NewFills
  <1>5. Filled(m) = Filled(t) \cup hit
    BY <1>1, <1>2, <1>4 DEF Filled
  <1>6. IsFiniteSet(LegNumbers) /\ AreInts(Sizes, LegNumbers)
    BY PolicyFacts
  <1>7. SumFunctionOnSet(Sizes, Filled(t) \cup hit)
          = SumFunctionOnSet(Sizes, Filled(t)) + SumFunctionOnSet(Sizes, hit)
    BY <1>1, <1>3, <1>6, SumOfDisjoint
  <1> QED
    BY <1>5, <1>7 DEF hit

LEMMA SoundStaysSound ==
    ASSUME NEW s, Proper(s), NEW n \in Nat, NEW t, Sound(t, s, n), NEW c \in Candles
    PROVE  Sound(Advance(t, c), s, n + 1)
  <1>1. /\ t \in TradeSet /\ t.signal = s
        /\ t.since_signal \in Nat /\ t.since_entry \in Nat /\ t.state \in TradeStates
        /\ \A l \in LegNumbers : t.fills[l] \in Nat
    BY DEF Sound, TradeSet
  <1>2. CASE t.state \in {"CLOSED", "EXPIRED_UNFILLED"}
    <2>1. Advance(t, c) = t
      BY <1>1, <1>2, AdvanceCases
    <2>2. t.state \notin Live
      BY <1>2 DEF Live
    <2>3. t.since_signal <= n + 1
      BY <1>1 DEF Sound
    <2> QED
      BY <2>1, <2>2, <2>3 DEF Sound
  <1>3. CASE t.state = "AWAITING_ENTRY" /\ ~Enters(t, c)
    <2> DEFINE w == Unfilled(Waiting(t))
    <2>1. Advance(t, c) = w
      BY <1>1, <1>3, AdvanceCases
    <2>2. /\ w \in TradeSet
          /\ w.signal = t.signal /\ w.state \in {"AWAITING_ENTRY", "EXPIRED_UNFILLED"}
          /\ w.reason = t.reason /\ w.since_signal = t.since_signal + 1
          /\ w.since_entry = t.since_entry
          /\ w.fills = t.fills /\ w.remaining = t.remaining /\ w.stop = t.stop
      BY <1>1, <1>3, UnfilledFields
    <2> HIDE DEF w
    <2>3. Filled(w) = Filled(t)
      BY <2>2 DEF Filled
    <2>4. t.since_signal = n /\ t.since_entry = 0 /\ t.reason = "none"
      BY <1>3 DEF Sound, Live
    <2>5. Sound(w, s, n + 1)
      BY <1>1, <2>2, <2>3, <2>4 DEF Sound, Leaves
    <2> QED
      BY <2>1, <2>5
  <1>4. CASE Enters(t, c)
    <2> DEFINE o == Entered(t)
               m == OnMarket(o, c)
               hit == TargetsHit(o, c)
    <2>1. Advance(t, c) = m
      BY <1>1, <1>4, AdvanceCases
    <2>2. /\ o \in TradeSet
          /\ o.signal = t.signal /\ o.state = "OPEN" /\ o.reason = t.reason
          /\ o.since_signal = t.since_signal + 1 /\ o.since_entry = t.since_entry + 1
          /\ o.fills = t.fills /\ o.remaining = t.remaining /\ o.stop = t.stop
      BY <1>1, EnteredFields
    <2> HIDE DEF o
    <2>3. t.since_signal = n /\ t.reason = "none"
      BY <1>4 DEF Sound, Live, Enters
    <2>4. Leaves(o, c, m)
      BY <1>1, <2>2, <2>3, MarketOutcome
    <2> HIDE DEF m
    <2>5. /\ m.since_signal = n + 1 /\ m.since_entry = t.since_entry + 1
          /\ m.since_entry > 0 /\ m.since_entry <= m.since_signal /\ m.signal = s
          /\ m.state \in {"OPEN", "CLOSED"}
      BY <1>1, <2>2, <2>3, <2>4 DEF Sound, Leaves
    <2>6. ASSUME NEW l \in LegNumbers
          PROVE  m.fills[l] <= m.since_entry
      <3>1. t.fills[l] \in Nat /\ t.fills[l] <= t.since_entry
        BY <1>1 DEF Sound
      <3>2. m.fills[l] = t.fills[l] \/ m.fills[l] = t.since_entry + 1
        BY <2>2, <2>4 DEF NewFills, Leaves
      <3> QED
        BY <1>1, <2>5, <3>1, <3>2
    <2>7. m.remaining = 100 - SumFunctionOnSet(Sizes, Filled(m))
      <3>1. o.remaining = 100 - SumFunctionOnSet(Sizes, Filled(o)) /\ Filled(o) \in SUBSET LegNumbers
        BY <2>2 DEF Sound, Filled
      <3>2. CASE StopHit(o, c)
        <4>1. Filled(m) = Filled(o)
          BY <2>4, <3>2 DEF Filled, Leaves
        <4> QED
          BY <2>4, <3>1, <3>2, <4>1 DEF Leaves
      <3>3. CASE ~StopHit(o, c)
        <4>1. SumFunctionOnSet(Sizes, Filled(m))
                = SumFunctionOnSet(Sizes, Filled(o)) + SumFunctionOnSet(Sizes, hit)
          BY <1>1, <2>2, <2>4, <3>3, FilledAndHit DEF Leaves
        <4>2. hit \in SUBSET LegNumbers
          BY DEF TargetsHit
        <4>3. SumFunctionOnSet(Sizes, Filled(o)) \in Int /\ SumFunctionOnSet(Sizes, hit) \in Int
          BY <3>1, <4>2, PolicyFacts, SumRule
        <4>4. m.remaining = o.remaining - SumFunctionOnSet(Sizes, hit)
          BY <2>4, <3>3 DEF Leaves
        <4> HIDE DEF hit
        <4> QED
          BY <3>1, <4>1, <4>3, <4>4
      <3> QED
        BY <3>2, <3>3
    <2>8. m.stop = s.stop \/ m.stop = InR(s, BreakevenOffset)
      BY <1>1, <2>2, <2>4 DEF Sound, Leaves
    <2>9. m.state # "CLOSED" => m.reason = "none"
      BY <2>4 DEF Leaves, Stopped
    <2>10. Sound(m, s, n + 1)
      BY <1>1, <2>4, <2>5, <2>6, <2>7, <2>8, <2>9 DEF Sound, Leaves
    <2> QED
      BY <2>1, <2>10
  <1> QED
    BY <1>1, <1>2, <1>3, <1>4, AdvanceCases

\* An entered trade o and what becomes of it.
EnteredFrom(t, o) ==
    /\ o \in TradeSet
    /\ o.signal = t.signal /\ o.state = "OPEN" /\ o.reason = t.reason
    /\ o.since_signal = t.since_signal + 1 /\ o.since_entry = t.since_entry + 1
    /\ o.fills = t.fills /\ o.remaining = t.remaining /\ o.stop = t.stop

LEMMA EnteringStep ==
    ASSUME NEW s, Proper(s), NEW n \in Nat, NEW t, Sound(t, s, n), NEW c \in Candles, Enters(t, c)
    PROVE  /\ t.since_signal = n /\ t.state \in Live
           /\ EnteredFrom(t, Entered(t)) /\ Leaves(Entered(t), c, Advance(t, c))
  <1>1. t \in TradeSet /\ t.signal = s /\ t.state \in Live /\ t.since_signal = n /\ t.reason = "none"
    BY DEF Sound, Live, Enters
  <1>2. EnteredFrom(t, Entered(t))
    BY <1>1, EnteredFields DEF EnteredFrom
  <1>3. Advance(t, c) = OnMarket(Entered(t), c)
    BY <1>1, AdvanceCases
  <1> DEFINE o == Entered(t)
  <1>4. o \in TradeSet /\ Proper(o.signal) /\ o.state = "OPEN" /\ o.reason = "none"
    BY <1>1, <1>2 DEF EnteredFrom
  <1> HIDE DEF o
  <1>5. Leaves(o, c, OnMarket(o, c))
    BY <1>4, MarketOutcome
  <1> QED
    BY <1>1, <1>2, <1>3, <1>5 DEF o

LEMMA WaitingStep ==
    ASSUME NEW s, NEW n \in Nat, NEW t, Sound(t, s, n), NEW c, ~Enters(t, c)
    PROVE  \/ Advance(t, c) = t /\ t.state \in {"CLOSED", "EXPIRED_UNFILLED"}
           \/ LET w == Advance(t, c)
              IN  /\ w.signal = t.signal /\ w.state \in {"AWAITING_ENTRY", "EXPIRED_UNFILLED"}
                  /\ w.reason = "none" /\ w.since_entry = 0 /\ t.since_entry = 0
                  /\ w.fills = t.fills /\ w.stop = t.stop
  <1>1. t \in TradeSet
    BY DEF Sound
  <1>2. CASE t.state \in {"CLOSED", "EXPIRED_UNFILLED"}
    BY <1>1, <1>2, AdvanceCases
  <1>3. CASE t.state = "AWAITING_ENTRY" /\ ~Enters(t, c)
    <2>1. t.since_entry = 0 /\ t.reason = "none"
      BY <1>3 DEF Sound
    <2>2. Advance(t, c) = Unfilled(Waiting(t))
      BY <1>1, <1>3, AdvanceCases
    <2> QED
      BY <1>1, <1>3, <2>1, <2>2, UnfilledFields
  <1> QED
    BY <1>1, <1>2, <1>3, AdvanceCases

\* A breakeven offset that does not move the stop past where it was.
BreakevenKeepsStop == BreakevenOffset >= -RUnit

\* No trade is left, and none stays, beyond its first stop; c is the candle it met last.
Covered(t, s, c) ==
    /\ t.state = "OPEN" => Sign(s) * Worst(s, c) > Sign(s) * s.stop
    /\ t.state = "CLOSED" => t.exit \in Int /\ Sign(s) * t.exit >= Sign(s) * s.stop

LEMMA CoveredStaysCovered ==
    ASSUME BreakevenKeepsStop, NEW s, Proper(s), NEW n \in Nat, NEW t, Sound(t, s, n),
           NEW b, Covered(t, s, b), NEW c \in Candles
    PROVE  Covered(Advance(t, c), s, c)
  <1>1. CASE ~Enters(t, c)
    BY <1>1, WaitingStep DEF Covered
  <1>2. CASE Enters(t, c)
    <2> DEFINE o == Entered(t)
               m == Advance(t, c)
    <2>1. EnteredFrom(t, o) /\ Leaves(o, c, m)
      BY <1>2, EnteringStep
    <2> HIDE DEF o, m
    <2>2. o.signal = s /\ o.stop = t.stop /\ (t.stop = s.stop \/ t.stop = InR(s, BreakevenOffset))
      BY <2>1 DEF EnteredFrom, Sound
    <2>3. s.stop \in Int /\ Directed(s)
      BY DEF Proper, SignalSet, Directed
    <2>4. /\ BreakevenOffset \in Int /\ InR(s, BreakevenOffset) \in Int
          /\ Sign(s) * InR(s, BreakevenOffset) >= Sign(s) * s.stop
      BY PriceFacts, PolicyFacts DEF BreakevenKeepsStop
    <2>5. \A x \in Int : Sign(s) * x \in Int
      BY <2>3, SignFacts
    <2>6. o.stop \in Int /\ Sign(s) * o.stop \in Int /\ Sign(s) * o.stop >= Sign(s) * s.stop
      <3>1. Sign(s) * s.stop \in Int
        BY <2>3, <2>5
      <3> QED
        BY <2>2, <2>3, <2>4, <2>5, <3>1
    <2>7. /\ Worst(s, c) \in Int /\ Sign(s) * Worst(s, c) \in Int /\ Sign(s) * c.close \in Int
          /\ c.close \in Int /\ Sign(s) * c.close >= Sign(s) * Worst(s, c)
      BY CandleFacts
    <2>8. Sign(s) * s.stop \in Int
      BY <2>3, <2>5
    <2>9. CASE StopHit(o, c)
      <3>1. m.state = "CLOSED" /\ m.exit = o.stop
        BY <2>1, <2>9 DEF Leaves
      <3>2. m.state # "OPEN" /\ m.exit \in Int /\ Sign(s) * m.exit >= Sign(s) * s.stop
        BY <2>6, <3>1
      <3> QED
        BY <3>2 DEF Covered, m
    <2>10. CASE ~StopHit(o, c)
      <3>1. Sign(s) * Worst(s, c) > Sign(s) * s.stop
        BY <2>2, <2>6, <2>7, <2>8, <2>10 DEF StopHit
      <3>2. TargetPrice(s, Len(Legs)) \in Int /\ Sign(s) * TargetPrice(s, Len(Legs)) >= Sign(s) * s.stop
        BY PriceFacts, PolicyFacts
      <3>3. \/ m.state = "OPEN"
            \/ m.state = "CLOSED" /\ m.exit = TargetPrice(s, Len(Legs))
            \/ m.state = "CLOSED" /\ m.exit = c.close
        BY <2>1, <2>2, <2>10 DEF Leaves
      <3>4. Sign(s) * c.close >= Sign(s) * s.stop
        BY <2>7, <2>8, <3>1
      <3>5. m.state = "CLOSED" => m.exit \in Int /\ Sign(s) * m.exit >= Sign(s) * s.stop
        BY <2>7, <3>2, <3>3, <3>4
      <3> QED
        BY <3>1, <3>5 DEF Covered, m
    <2> QED
      BY <2>9, <2>10
  <1> QED
    BY <1>1, <1>2

\* legs.index compares legs by value: it finds the leg itself when no two are equal.
LegsDiffer == \A i, j \in LegNumbers : Legs[i] = Legs[j] => i = j

LEMMA LegIndexFinds ==
    ASSUME LegsDiffer, NEW fills, NEW l \in LegNumbers
    PROVE  LegIndex(fills, l) = l
  <1>1. {j \in LegNumbers : Legs[j] = Legs[l] /\ fills[j] = fills[l]} = {l}
    BY DEF LegsDiffer
  <1>2. l \in Int
    BY PolicyFacts
  <1>3. Min({l}) = l
    BY <1>2 DEF Min
  <1> QED
    BY <1>1, <1>3 DEF LegIndex

\* Legs filled on bar e or later do not count for the stop at the opening of e.
LEMMA StopBeforeSame ==
    ASSUME NEW t, NEW m, m.signal = t.signal, NEW e \in Nat, NEW k \in Nat, k <= e,
           \A l \in LegNumbers : m.fills[l] = t.fills[l] \/ (t.fills[l] = 0 /\ m.fills[l] = e)
    PROVE  StopBefore(m, k) = StopBefore(t, k)
  <1>1. ASSUME NEW l \in LegNumbers
        PROVE  m.fills[l] \in 1..(k - 1) <=> t.fills[l] \in 1..(k - 1)
    <2>1. e \notin 1..(k - 1) /\ 0 \notin 1..(k - 1)
      OBVIOUS
    <2> QED
      BY <2>1
  <1> QED
    BY <1>1 DEF StopBefore

BarOf(t, met, k) == met[t.since_signal - t.since_entry + k]

\* PessimisticFills, of a trade that met the candles met.
Pessimist(t, s, met) ==
    /\ t.state # "CLOSED" => t.stop = StopBefore(t, t.since_entry + 1)
    /\ \A l \in LegNumbers : t.fills[l] # 0 =>
          Sign(s) * Worst(s, BarOf(t, met, t.fills[l])) > Sign(s) * StopBefore(t, t.fills[l])
    /\ t.reason \in Stopped =>
          /\ t.exit = StopBefore(t, t.since_entry)
          /\ Sign(s) * Worst(s, BarOf(t, met, t.since_entry)) <= Sign(s) * t.exit

LEMMA PessimistAtFirst ==
    ASSUME NEW s, Proper(s)
    PROVE  Pessimist(OpenTrade(s), s, <<>>)
  <1>1. \A l \in LegNumbers : OpenTrade(s).fills[l] = 0
    BY DEF OpenTrade
  <1>2. StopBefore(OpenTrade(s), OpenTrade(s).since_entry + 1) = s.stop
    BY <1>1 DEF StopBefore, OpenTrade
  <1> QED
    BY <1>1, <1>2 DEF Pessimist, OpenTrade, Stopped

\* The bars of a trade stay where they are when candles follow.
LEMMA BarStays ==
    ASSUME NEW s, NEW met \in Seq(Candles), NEW t, Sound(t, s, Len(met)), NEW c \in Candles,
           NEW k \in Nat, k > 0, k <= t.since_entry
    PROVE  BarOf(t, Append(met, c), k) = BarOf(t, met, k)
  <1>1. /\ t.since_signal \in Nat /\ t.since_entry \in Nat /\ Len(met) \in Nat
        /\ t.since_entry <= t.since_signal /\ t.since_signal <= Len(met)
    BY DEF Sound, TradeSet
  <1>2. t.since_signal - t.since_entry + k \in 1..Len(met)
    BY <1>1
  <1> QED
    BY <1>2 DEF BarOf

LEMMA PessimistWhileWaiting ==
    ASSUME NEW s, Proper(s), NEW met \in Seq(Candles), NEW t, Sound(t, s, Len(met)),
           Pessimist(t, s, met), NEW c \in Candles, ~Enters(t, c)
    PROVE  Pessimist(Advance(t, c), s, Append(met, c))
  <1>0. Len(met) \in Nat
    OBVIOUS
  <1>1. CASE Advance(t, c) = t /\ t.state \in {"CLOSED", "EXPIRED_UNFILLED"}
    <2> DEFINE ext == Append(met, c)
    <2>1. /\ t.since_entry \in Nat /\ \A l \in LegNumbers : t.fills[l] \in Nat
          /\ \A l \in LegNumbers : t.fills[l] <= t.since_entry
          /\ t.reason \in Stopped => t.state = "CLOSED" /\ t.since_entry > 0
      BY DEF Sound, TradeSet, Stopped
    <2>2. \A k \in Nat : k > 0 /\ k <= t.since_entry => BarOf(t, ext, k) = BarOf(t, met, k)
      BY BarStays
    <2> HIDE DEF ext
    <2>3. ASSUME NEW l \in LegNumbers, t.fills[l] # 0
          PROVE  Sign(s) * Worst(s, BarOf(t, ext, t.fills[l])) > Sign(s) * StopBefore(t, t.fills[l])
      <3>1. BarOf(t, ext, t.fills[l]) = BarOf(t, met, t.fills[l])
        BY <2>1, <2>2, <2>3
      <3>2. Sign(s) * Worst(s, BarOf(t, met, t.fills[l])) > Sign(s) * StopBefore(t, t.fills[l])
        BY <2>3 DEF Pessimist
      <3> QED
        BY <3>1, <3>2
    <2>4. ASSUME t.reason \in Stopped
          PROVE  /\ t.exit = StopBefore(t, t.since_entry)
                 /\ Sign(s) * Worst(s, BarOf(t, ext, t.since_entry)) <= Sign(s) * t.exit
      <3>1. BarOf(t, ext, t.since_entry) = BarOf(t, met, t.since_entry)
        BY <2>1, <2>2, <2>4
      <3> QED
        BY <2>4, <3>1 DEF Pessimist
    <2>5. t.state # "CLOSED" => t.stop = StopBefore(t, t.since_entry + 1)
      BY DEF Pessimist
    <2>6. Pessimist(t, s, ext)
      BY <2>3, <2>4, <2>5 DEF Pessimist
    <2> QED
      BY <1>1, <2>6 DEF ext
  <1>2. CASE ~(Advance(t, c) = t /\ t.state \in {"CLOSED", "EXPIRED_UNFILLED"})
    <2> DEFINE w == Advance(t, c)
    <2>1. /\ w.signal = t.signal /\ w.state \in {"AWAITING_ENTRY", "EXPIRED_UNFILLED"}
          /\ w.reason = "none" /\ w.since_entry = 0 /\ t.since_entry = 0
          /\ w.fills = t.fills /\ w.stop = t.stop /\ t.state # "CLOSED"
      <3>1. /\ w.signal = t.signal /\ w.state \in {"AWAITING_ENTRY", "EXPIRED_UNFILLED"}
            /\ w.reason = "none" /\ w.since_entry = 0 /\ t.since_entry = 0
            /\ w.fills = t.fills /\ w.stop = t.stop
        BY <1>0, <1>2, WaitingStep
      <3>2. t.state = "CLOSED" => t.since_entry > 0
        BY DEF Sound
      <3> QED
        BY <3>1, <3>2
    <2> HIDE DEF w
    <2>2. \A l \in LegNumbers : t.fills[l] = 0
      <3>1. \A l \in LegNumbers : t.fills[l] \in Nat /\ t.fills[l] <= t.since_entry
        BY DEF Sound, TradeSet
      <3> QED
        BY <2>1, <3>1
    <2>3. t.stop = StopBefore(t, t.since_entry + 1)
      BY <2>1 DEF Pessimist
    <2>4. StopBefore(w, 1) = StopBefore(t, 1)
      BY <2>1 DEF StopBefore
    <2>5. w.reason \notin Stopped
      BY <2>1 DEF Stopped
    <2>6. w.stop = StopBefore(w, w.since_entry + 1)
      BY <2>1, <2>3, <2>4
    <2>7. Pessimist(w, s, Append(met, c))
      BY <2>1, <2>2, <2>5, <2>6 DEF Pessimist
    <2> QED
      BY <2>7 DEF w
  <1> QED
    BY <1>1, <1>2

LEMMA PessimistWhenEntered ==
    ASSUME LegsDiffer, NEW s, Proper(s), NEW met \in Seq(Candles), NEW t, Sound(t, s, Len(met)),
           Pessimist(t, s, met), NEW c \in Candles, Enters(t, c)
    PROVE  Pessimist(Advance(t, c), s, Append(met, c))
  <1> DEFINE o == Entered(t)
             m == Advance(t, c)
             ext == Append(met, c)
             e == t.since_entry + 1
             hit == TargetsHit(o, c)
             n == Len(met)
  <1>1. n \in Nat /\ Len(ext) = n + 1 /\ ext[n + 1] = c
    OBVIOUS
  <1>2. t.since_signal = n /\ t.state \in Live /\ EnteredFrom(t, o) /\ Leaves(o, c, m)
    BY <1>1, EnteringStep
  <1>3. /\ t.signal = s /\ t.since_entry \in Nat /\ e \in Nat /\ e > 0 /\ e <= n + 1
        /\ \A l \in LegNumbers : t.fills[l] \in Nat /\ t.fills[l] <= t.since_entry
    BY <1>1, <1>2 DEF Sound, TradeSet
  <1>4. \A k \in Nat : k > 0 /\ k <= t.since_entry => BarOf(t, ext, k) = BarOf(t, met, k)
    BY BarStays
  <1> HIDE DEF o, m, ext, hit
  <1>5. /\ o.signal = s /\ o.since_signal = n + 1 /\ o.since_entry = e
        /\ o.fills = t.fills /\ o.stop = t.stop
        /\ m.signal = s /\ m.since_signal = n + 1 /\ m.since_entry = e
    BY <1>2, <1>3 DEF EnteredFrom, Leaves
  <1>6. t.stop = StopBefore(t, e)
    BY <1>2 DEF Pessimist, Live
  <1>7. \A k \in Nat : BarOf(m, ext, k) = BarOf(t, ext, k)
    <2>1. m.since_signal - m.since_entry = t.since_signal - t.since_entry
      BY <1>1, <1>2, <1>3, <1>5
    <2> QED
      BY <2>1 DEF BarOf
  <1>8. BarOf(m, ext, e) = c
    <2>1. m.since_signal - m.since_entry + e = n + 1
      BY <1>1, <1>3, <1>5
    <2> QED
      BY <1>1, <2>1 DEF BarOf
  <1>9. \A l \in LegNumbers : m.fills[l] = t.fills[l] \/ (t.fills[l] = 0 /\ m.fills[l] = e)
    <2>1. \A l \in hit : t.fills[l] = 0
      BY <1>5 DEF hit, TargetsHit
    <2>2. m.fills = o.fills \/ m.fills = NewFills(o, hit)
      BY <1>2 DEF Leaves, hit
    <2> QED
      BY <1>5, <2>1, <2>2 DEF NewFills
  <1>10. ASSUME NEW k \in Nat, k <= e
         PROVE  StopBefore(m, k) = StopBefore(t, k)
    <2>1. m.signal = t.signal /\ e \in Nat
      BY <1>3, <1>5
    <2> HIDE DEF e
    <2> QED
      BY <1>9, <1>10, <2>1, StopBeforeSame
  <1> HIDE DEF e, n
  <1>11. ASSUME NEW l \in LegNumbers, m.fills[l] # 0, m.fills[l] = t.fills[l]
         PROVE  Sign(s) * Worst(s, BarOf(m, ext, m.fills[l])) > Sign(s) * StopBefore(m, m.fills[l])
    <2> DEFINE k == t.fills[l]
    <2>1. k \in Nat /\ k > 0 /\ k <= t.since_entry /\ k <= e
      BY <1>3, <1>11 DEF e
    <2>2. BarOf(m, ext, k) = BarOf(t, met, k) /\ StopBefore(m, k) = StopBefore(t, k)
      BY <1>4, <1>7, <1>10, <2>1
    <2>3. Sign(s) * Worst(s, BarOf(t, met, k)) > Sign(s) * StopBefore(t, k)
      BY <1>11 DEF Pessimist
    <2> QED
      BY <1>11, <2>2, <2>3
  <1>12. CASE StopHit(o, c)
    <2>1. m.state = "CLOSED" /\ m.exit = o.stop /\ m.fills = o.fills
      BY <1>2, <1>12 DEF Leaves
    <2>2. StopBefore(m, e) = StopBefore(t, e)
      BY <1>3, <1>10
    <2>3. Sign(s) * Worst(s, c) <= Sign(s) * o.stop
      BY <1>5, <1>12 DEF StopHit
    <2>4. m.exit = StopBefore(m, m.since_entry)
      BY <1>5, <1>6, <2>1, <2>2
    <2>5. Sign(s) * Worst(s, BarOf(m, ext, m.since_entry)) <= Sign(s) * m.exit
      BY <1>5, <1>8, <2>1, <2>3
    <2>6. \A l \in LegNumbers : m.fills[l] = t.fills[l]
      BY <1>5, <2>1
    <2> QED
      BY <1>11, <2>1, <2>4, <2>5, <2>6 DEF Pessimist, m, ext
  <1>13. CASE ~StopHit(o, c)
    <2>1. /\ m.fills = NewFills(o, hit)
          /\ m.stop = IF Moves(o, hit) THEN InR(s, BreakevenOffset) ELSE o.stop
          /\ m.reason \notin Stopped
      BY <1>2, <1>5, <1>13 DEF Leaves, hit, Stopped
    <2>2. Sign(s) * Worst(s, c) > Sign(s) * t.stop
      <3>1. /\ Sign(s) * Worst(s, c) \in Int /\ Sign(s) * t.stop \in Int
        <4>1. t.stop \in Int /\ Directed(s)
          BY DEF Sound, TradeSet, Proper, SignalSet, Directed
        <4> QED
          BY <4>1, SignFacts, CandleFacts
      <3>2. ~(Sign(s) * Worst(s, c) <= Sign(s) * t.stop)
        BY <1>5, <1>13 DEF StopHit
      <3> QED
        BY <3>1, <3>2
    <2>3. ASSUME NEW l \in LegNumbers, m.fills[l] # 0
          PROVE  Sign(s) * Worst(s, BarOf(m, ext, m.fills[l])) > Sign(s) * StopBefore(m, m.fills[l])
      <3>1. CASE m.fills[l] = t.fills[l]
        BY <1>11, <2>3, <3>1
      <3>2. CASE m.fills[l] # t.fills[l]
        <4>1. m.fills[l] = e
          BY <1>9, <3>2
        <4>2. StopBefore(m, e) = t.stop
          BY <1>3, <1>6, <1>10
        <4> QED
          BY <1>8, <2>2, <4>1, <4>2
      <3> QED
        BY <3>1, <3>2
    <2>4. m.stop = StopBefore(m, m.since_entry + 1)
      <3>1. hit \in SUBSET LegNumbers
        BY DEF hit, TargetsHit
      <3>2. \A l \in LegNumbers : m.fills[l] = IF l \in hit THEN e ELSE t.fills[l]
        BY <1>5, <2>1 DEF NewFills
      <3>3. Moves(o, hit) <=> BreakevenAfter # 0 /\ \E l \in hit : l >= BreakevenAfter
        BY <3>1, LegIndexFinds DEF Moves
      <3>4. \A l \in LegNumbers : BreakevenAfter \in 1..l <=> BreakevenAfter # 0 /\ l >= BreakevenAfter
        BY PolicyFacts
      <3>5. CASE Moves(o, hit)
        <4>1. PICK l \in hit : BreakevenAfter \in 1..l
          BY <3>1, <3>3, <3>4, <3>5
        <4>2. m.fills[l] \in 1..((m.since_entry + 1) - 1) /\ l \in LegNumbers
          BY <1>3, <1>5, <3>1, <3>2
        <4>3. StopBefore(m, m.since_entry + 1) = InR(s, BreakevenOffset)
          BY <1>5, <4>1, <4>2 DEF StopBefore
        <4> QED
          BY <2>1, <3>5, <4>3
      <3>6. CASE ~Moves(o, hit)
        <4>1. \A l \in hit : BreakevenAfter \notin 1..l
          BY <3>1, <3>3, <3>4, <3>6
        <4>2. ASSUME NEW l \in LegNumbers, BreakevenAfter \in 1..l
              PROVE  m.fills[l] \in 1..((m.since_entry + 1) - 1) <=> t.fills[l] \in 1..(e - 1)
          <5>1. l \notin hit
            BY <4>1, <4>2
          <5>2. m.fills[l] = t.fills[l] /\ t.fills[l] \in Nat /\ t.fills[l] <= e - 1
            BY <1>3, <3>2, <5>1 DEF e
          <5> QED
            BY <1>3, <1>5, <5>2
        <4>3. StopBefore(m, m.since_entry + 1) = StopBefore(t, e)
          BY <1>3, <1>5, <4>2 DEF StopBefore
        <4> QED
          BY <1>5, <1>6, <2>1, <3>6, <4>3
      <3> QED
        BY <3>5, <3>6
    <2>5. Pessimist(m, s, ext)
      BY <2>1, <2>3, <2>4 DEF Pessimist
    <2> QED
      BY <2>5 DEF m, ext
  <1> QED
    BY <1>12, <1>13

\* Everything above, of a trade that met the candles met.
Good(t, s, met) ==
    /\ Sound(t, s, Len(met))
    /\ BreakevenKeepsStop => Covered(t, s, met[Len(met)])
    /\ LegsDiffer => Pessimist(t, s, met)

LEMMA AdvancedIsGood ==
    ASSUME NEW s, Proper(s), NEW met \in Seq(Candles)
    PROVE  Good(Advanced(s, met), s, met)
  <1> DEFINE P == {n \in Nat : \A cs \in Seq(Candles) : Len(cs) = n => Good(Advanced(s, cs), s, cs)}
  <1>1. 0 \in P
    <2>1. ASSUME NEW cs \in Seq(Candles), Len(cs) = 0
          PROVE  Good(Advanced(s, cs), s, cs)
      <3>1. cs = <<>>
        BY <2>1
      <3>2. OpenTrade(s).state = "AWAITING_ENTRY"
        BY DEF OpenTrade
      <3>3. Advanced(s, cs) = OpenTrade(s)
        <4> DEFINE C == {{}}
        <4>1. <<>> \in Seq(C) /\ {} \in C
          OBVIOUS
        <4> HIDE DEF C
        <4>2. Advanced(s, <<>>) = OpenTrade(s)
          BY <4>1, AdvancedRule
        <4> QED
          BY <3>1, <4>2
      <3>4. Sound(OpenTrade(s), s, 0)
        BY SoundAtFirst
      <3>5. Pessimist(OpenTrade(s), s, <<>>)
        BY PessimistAtFirst
      <3>6. Covered(OpenTrade(s), s, cs[Len(cs)])
        BY <3>2 DEF Covered
      <3> QED
        BY <2>1, <3>1, <3>3, <3>4, <3>5, <3>6 DEF Good
    <2> QED
      BY <2>1
  <1>2. ASSUME NEW n \in Nat, n \in P
        PROVE  n + 1 \in P
    <2>1. ASSUME NEW cs \in Seq(Candles), Len(cs) = n + 1
          PROVE  Good(Advanced(s, cs), s, cs)
      <3> DEFINE c == cs[n + 1]
                 ds == [i \in 1..n |-> cs[i]]
                 t == Advanced(s, ds)
      <3>1. c \in Candles
        <4>1. n + 1 \in 1..Len(cs)
          BY <2>1
        <4> QED
          BY <4>1, ElementOfSeq
      <3>2. ds \in Seq(Candles) /\ Len(ds) = n
        <4>1. \A i \in 1..n : cs[i] \in Candles
          BY <2>1, ElementOfSeq
        <4>2. ds \in [1..n -> Candles]
          BY <4>1
        <4> QED
          BY <4>2
      <3>3. cs = Append(ds, c)
        <4>1. Append(ds, c) \in Seq(Candles) /\ Len(Append(ds, c)) = n + 1
          BY <3>1, <3>2
        <4>2. \A i \in 1..(n + 1) : Append(ds, c)[i] = cs[i]
          <5>1. \A i \in 1..n : Append(ds, c)[i] = ds[i]
            BY <3>1, <3>2
          <5>2. Append(ds, c)[n + 1] = c
            BY <3>1, <3>2
          <5>3. \A i \in 1..(n + 1) : i \in 1..n \/ i = n + 1
            OBVIOUS
          <5> QED
            BY <5>1, <5>2, <5>3
        <4> HIDE DEF ds, c
        <4> QED
          BY <2>1, <4>1, <4>2, SeqEqual
      <3> HIDE DEF ds, c, t
      <3>4. Good(t, s, ds)
        BY <1>2, <3>2 DEF t
      <3>5. Sound(t, s, n)
        BY <3>2, <3>4 DEF Good
      <3>6. Advanced(s, cs) = Advance(t, c)
        BY <3>1, <3>2, <3>3, AdvancedRule DEF t
      <3>7. Sound(Advance(t, c), s, n + 1)
        BY <3>1, <3>5, SoundStaysSound
      <3>8. cs[Len(cs)] = c
        BY <2>1 DEF c
      <3>9. BreakevenKeepsStop => Covered(Advance(t, c), s, c)
        BY <3>1, <3>4, <3>5, CoveredStaysCovered DEF Good
      <3>10. LegsDiffer => Pessimist(Advance(t, c), s, cs)
        <4>1. Sound(t, s, Len(ds))
          BY <3>4 DEF Good
        <4>2. LegsDiffer => Pessimist(t, s, ds)
          BY <3>4 DEF Good
        <4> QED
          BY <3>1, <3>2, <3>3, <4>1, <4>2, PessimistWhenEntered, PessimistWhileWaiting
      <3> QED
        BY <2>1, <3>6, <3>7, <3>8, <3>9, <3>10 DEF Good
    <2> QED
      BY <2>1
  <1>3. Len(met) \in P
    <2>1. Len(met) \in Nat
      OBVIOUS
    <2> HIDE DEF P
    <2> QED
      BY <1>1, <1>2, <2>1, Induction
  <1> QED
    BY <1>3

\* What is left of it to say of a trade that is no longer advanced.
Fair(t, s, met) ==
    /\ t \in TradeSet /\ t.signal = s
    /\ t.state = "CLOSED" => t.since_entry > 0
    /\ t.remaining = 100 - SumFunctionOnSet(Sizes, Filled(t))
    /\ (BreakevenKeepsStop /\ t.state = "CLOSED") => Sign(s) * t.exit >= Sign(s) * s.stop
    /\ LegsDiffer => Pessimist(t, s, met)

LEMMA GoodIsFair ==
    ASSUME NEW s, NEW met, NEW t, Good(t, s, met)
    PROVE  Fair(t, s, met)
  BY DEF Good, Fair, Sound, Covered

LEMMA EndIsFair ==
    ASSUME NEW s, Proper(s), NEW met, NEW t, Good(t, s, met), met[Len(met)] \in Candles
    PROVE  Fair(CloseAtEndOfData(t, met[Len(met)]), s, met)
  <1> DEFINE c == met[Len(met)]
             z == CloseAt(t, "END_OF_DATA", "END_OF_DATA", c.close)
  <1>1. c \in Candles
    OBVIOUS
  <1>2. CASE t.state # "OPEN"
    BY <1>2, GoodIsFair DEF CloseAtEndOfData
  <1>3. CASE t.state = "OPEN"
    <2>1. CloseAtEndOfData(t, c) = z
      BY <1>3 DEF CloseAtEndOfData
    <2>2. t \in TradeSet /\ t.signal = s /\ t.since_entry > 0 /\ t.reason = "none"
      BY <1>3 DEF Good, Sound
    <2>3. /\ c.close \in Int /\ Worst(s, c) \in Int /\ Sign(s) * Worst(s, c) \in Int
          /\ Sign(s) * c.close \in Int /\ Sign(s) * c.close >= Sign(s) * Worst(s, c)
      BY <1>1, CandleFacts
    <2>4. IsClosed(t, z, "END_OF_DATA", c.close)
      BY <2>2, <2>3, CloseFields DEF Reasons, Methods
    <2>5. BreakevenKeepsStop => Sign(s) * Worst(s, c) > Sign(s) * s.stop
      BY <1>3 DEF Good, Covered
    <2>6. Sign(s) * s.stop \in Int
      <3>1. Directed(s) /\ s.stop \in Int
        BY DEF Proper, SignalSet, Directed
      <3> QED
        BY <3>1, SignFacts
    <2> HIDE DEF z, c
    <2>7. BreakevenKeepsStop => Sign(s) * z.exit >= Sign(s) * s.stop
      BY <2>3, <2>4, <2>5, <2>6 DEF IsClosed
    <2>8. z.remaining = 100 - SumFunctionOnSet(Sizes, Filled(z))
      <3>1. t.remaining = 100 - SumFunctionOnSet(Sizes, Filled(t))
        BY DEF Good, Sound
      <3>2. Filled(z) = Filled(t) /\ z.remaining = t.remaining
        BY <2>4 DEF IsClosed, Filled
      <3> QED
        BY <3>1, <3>2
    <2>9. ASSUME LegsDiffer
          PROVE  Pessimist(z, s, met)
      <3>1. /\ z.fills = t.fills /\ z.signal = t.signal /\ z.since_signal = t.since_signal
            /\ z.since_entry = t.since_entry /\ z.state = "CLOSED" /\ z.reason \notin Stopped
        BY <2>4 DEF IsClosed, Stopped
      <3>2. \A k : StopBefore(z, k) = StopBefore(t, k) /\ BarOf(z, met, k) = BarOf(t, met, k)
        BY <3>1 DEF StopBefore, BarOf
      <3>3. ASSUME NEW l \in LegNumbers, z.fills[l] # 0
            PROVE  Sign(s) * Worst(s, BarOf(z, met, z.fills[l])) > Sign(s) * StopBefore(z, z.fills[l])
        <4>1. Sign(s) * Worst(s, BarOf(t, met, t.fills[l])) > Sign(s) * StopBefore(t, t.fills[l])
          BY <2>9, <3>1, <3>3 DEF Good, Pessimist
        <4> QED
          BY <3>1, <3>2, <4>1
      <3> QED
        BY <3>1, <3>3 DEF Pessimist
    <2>10. Fair(z, s, met)
      BY <2>2, <2>4, <2>7, <2>8, <2>9 DEF Fair, IsClosed
    <2> QED
      BY <2>1, <2>10 DEF c
  <1> QED
    BY <1>2, <1>3

\* The gross result is what the fills paid.
LEMMA GrossIsPaid ==
    ASSUME NEW s, Proper(s), NEW met, NEW t, Fair(t, s, met)
    PROVE  LET payment == [l \in LegNumbers |-> (TargetPrice(s, l) - s.reference) * Legs[l].size]
               paid == SumFunctionOnSet(payment, Filled(t))
               sold == SumFunctionOnSet(Sizes, Filled(t))
           IN  GrossR(t) = Sign(s) * RUnit * (paid + (t.exit - s.reference) * (100 - sold))
  <1> DEFINE payment == [l \in LegNumbers |-> (TargetPrice(s, l) - s.reference) * Legs[l].size]
             earned == [l \in LegNumbers |-> Legs[l].target * Legs[l].size * Risk(s)]
             F == Filled(t)
             sold == SumFunctionOnSet(Sizes, F)
  <1>1. F \in SUBSET LegNumbers /\ IsFiniteSet(F)
    <2>1. F \in SUBSET LegNumbers
      BY DEF Filled
    <2> QED
      BY <2>1, PolicyFacts, FS_Subset
  <1>2. Sign(s) \in Int /\ RUnit \in Int /\ s.reference \in Int /\ Risk(s) \in Int
    <2>1. Directed(s) /\ s.reference \in Int
      BY DEF Proper, SignalSet, Directed
    <2> QED
      BY <2>1, SignFacts, PolicyFacts, PriceFacts
  <1>3. t.exit \in Int /\ t.remaining \in Int
    BY DEF Fair, TradeSet
  <1>4. ASSUME NEW l \in LegNumbers
        PROVE  payment[l] \in Int /\ earned[l] = (Sign(s) * RUnit) * payment[l]
    <2> DEFINE d == TargetPrice(s, l) - s.reference
               z == Legs[l].size
               g == Legs[l].target
    <2>1. d \in Int /\ (Sign(s) * d) * RUnit = Risk(s) * g
      BY <1>2, PriceFacts
    <2>2. z \in Int /\ g \in Int
      BY PolicyFacts
    <2>3. payment[l] = d * z /\ earned[l] = g * z * Risk(s)
      OBVIOUS
    <2> HIDE DEF d, z, g, payment, earned
    <2>4. (Sign(s) * RUnit) * (d * z) = ((Sign(s) * d) * RUnit) * z
      BY <1>2, <2>1, <2>2, Z3
    <2>5. (Risk(s) * g) * z = g * z * Risk(s)
      BY <1>2, <2>2, Z3
    <2>6. d * z \in Int
      BY <2>1, <2>2, Z3
    <2> QED
      BY <2>1, <2>3, <2>4, <2>5, <2>6
  <1> HIDE DEF payment, earned
  <1>5. Scaled(earned, payment, Sign(s) * RUnit, F) /\ AreInts(payment, LegNumbers)
    BY <1>1, <1>4 DEF Scaled, AreInts
  <1>6. Sign(s) * RUnit \in Int
    BY <1>2, Z3
  <1>7. SumFunctionOnSet(earned, F) = (Sign(s) * RUnit) * SumFunctionOnSet(payment, F)
    BY <1>1, <1>5, <1>6, SumScales
  <1>8. SumFunctionOnSet(payment, F) \in Int /\ sold \in Int
    BY <1>1, <1>5, PolicyFacts, SumRule
  <1>9. GrossR(t) = SumFunctionOnSet(earned, F)
                      + Sign(s) * (t.exit - s.reference) * RUnit * t.remaining
    BY DEF GrossR, Fair, earned
  <1>10. t.remaining = 100 - sold
    BY DEF Fair
  <1> DEFINE paid == SumFunctionOnSet(payment, F)
             x == t.exit - s.reference
  <1>11. paid \in Int /\ x \in Int /\ sold \in Int
    BY <1>2, <1>3, <1>8
  <1> HIDE DEF paid, x, sold, F
  <1>12. (Sign(s) * RUnit) * paid + Sign(s) * x * RUnit * (100 - sold)
           = Sign(s) * RUnit * (paid + x * (100 - sold))
    <2>1. \A a, p, q \in Int : a * p + a * q = a * (p + q)
      BY Z3
    <2>2. \A a, u, y, r \in Int : a * y * u * r = (a * u) * (y * r)
      BY Z3
    <2>3. /\ Sign(s) * RUnit \in Int /\ 100 - sold \in Int /\ x * (100 - sold) \in Int
      BY <1>2, <1>11, Z3
    <2>4. (Sign(s) * RUnit) * paid + (Sign(s) * RUnit) * (x * (100 - sold))
            = (Sign(s) * RUnit) * (paid + x * (100 - sold))
      BY <1>11, <2>1, <2>3
    <2>5. Sign(s) * x * RUnit * (100 - sold) = (Sign(s) * RUnit) * (x * (100 - sold))
      <3> DEFINE a == Sign(s)
                 r == 100 - sold
      <3>1. a \in Int /\ RUnit \in Int /\ x \in Int /\ r \in Int
        BY <1>2, <1>11, <2>3
      <3> HIDE DEF a, r
      <3>2. a * x * RUnit * r = (a * RUnit) * (x * r)
        BY <2>2, <3>1
      <3> QED
        BY <3>2 DEF a, r
    <2> QED
      BY <2>4, <2>5
  <1>13. GrossR(t) = Sign(s) * RUnit * (paid + x * (100 - sold))
    BY <1>7, <1>9, <1>10, <1>12 DEF paid, x
  <1> QED
    BY <1>13 DEF paid, x, sold, F, payment

LEMMA GrossIsBounded ==
    ASSUME BreakevenKeepsStop, NEW s, Proper(s), NEW met, NEW t, Fair(t, s, met), t.state = "CLOSED"
    PROVE  GrossR(t) >= -(100 * RUnit * Risk(s))
  <1> DEFINE earned == [l \in LegNumbers |-> Legs[l].target * Legs[l].size * Risk(s)]
             F == Filled(t)
             E == SumFunctionOnSet(earned, F)
             sold == SumFunctionOnSet(Sizes, F)
             x == Sign(s) * (t.exit - s.reference)
  <1>1. F \in SUBSET LegNumbers /\ IsFiniteSet(F) /\ LegNumbers \ F \in SUBSET LegNumbers
        /\ IsFiniteSet(LegNumbers \ F)
    <2>1. F \in SUBSET LegNumbers /\ LegNumbers \ F \in SUBSET LegNumbers
      BY DEF Filled
    <2> QED
      BY <2>1, PolicyFacts, FS_Subset
  <1>2. /\ Directed(s) /\ s.reference \in Int /\ s.stop \in Int /\ t.exit \in Int
        /\ RUnit \in Nat /\ Risk(s) \in Int /\ Risk(s) > 0
        /\ Risk(s) = Sign(s) * s.reference - Sign(s) * s.stop
    <2>1. Directed(s) /\ s.reference \in Int /\ s.stop \in Int /\ t.exit \in Int
      BY DEF Proper, SignalSet, Directed, Fair, TradeSet
    <2> QED
      BY <2>1, PolicyFacts, PriceFacts
  <1>3. E \in Nat
    <2>1. ASSUME NEW l \in F
          PROVE  earned[l] \in Nat
      <3>1. l \in LegNumbers
        BY <1>1
      <3>2. Legs[l].target \in Nat /\ Legs[l].size \in Nat
        BY <3>1, PolicyFacts
      <3>3. \A a, b, c \in Nat : a * b * c \in Nat
        BY Z3
      <3> QED
        BY <1>2, <3>1, <3>2, <3>3
    <2> HIDE DEF earned, F
    <2> QED
      BY <1>1, <2>1, SumIsNatural
  <1>4. sold \in 0..100
    <2>1. (\A l \in F : Sizes[l] \in Nat) /\ (\A l \in LegNumbers \ F : Sizes[l] \in Nat)
      BY <1>1, PolicyFacts
    <2>2. sold \in Nat /\ SumFunctionOnSet(Sizes, LegNumbers \ F) \in Nat
      BY <1>1, <2>1, SumIsNatural
    <2>3. F \cup (LegNumbers \ F) = LegNumbers /\ F \cap (LegNumbers \ F) = {}
      BY <1>1
    <2>4. SumFunctionOnSet(Sizes, F \cup (LegNumbers \ F))
            = sold + SumFunctionOnSet(Sizes, LegNumbers \ F)
      <3>1. IsFiniteSet(LegNumbers) /\ AreInts(Sizes, LegNumbers)
        BY PolicyFacts
      <3> DEFINE rest == LegNumbers \ F
      <3>2. rest \in SUBSET LegNumbers /\ F \cap rest = {} /\ F \in SUBSET LegNumbers
        BY <1>1
      <3> HIDE DEF rest, F
      <3>3. SumFunctionOnSet(Sizes, F \cup rest)
              = SumFunctionOnSet(Sizes, F) + SumFunctionOnSet(Sizes, rest)
        BY <3>1, <3>2, SumOfDisjoint
      <3> QED
        BY <3>3 DEF rest
    <2>5. 100 = sold + SumFunctionOnSet(Sizes, LegNumbers \ F)
      BY <2>3, <2>4, PolicyAssumption
    <2> HIDE DEF sold
    <2> QED
      BY <2>2, <2>5
  <1>5. x \in Int /\ x >= -Risk(s)
    <2>1. /\ Sign(s) * t.exit \in Int /\ Sign(s) * s.reference \in Int /\ Sign(s) * s.stop \in Int
          /\ x = Sign(s) * t.exit - Sign(s) * s.reference
      BY <1>2, SignFacts
    <2>2. Sign(s) * t.exit >= Sign(s) * s.stop
      BY DEF Fair
    <2> HIDE DEF x
    <2> QED
      BY <1>2, <2>1, <2>2
  <1>6. GrossR(t) = E + x * RUnit * (100 - sold)
    BY DEF GrossR, Fair
  <1> HIDE DEF E, x, sold, F, earned
  <1> DEFINE r == 100 - sold
             k == RUnit * r
  <1>7. r \in Nat /\ r <= 100 /\ k \in Nat /\ x * RUnit * r = x * k
    <2>1. r \in Nat /\ r <= 100
      BY <1>4
    <2> HIDE DEF r
    <2> QED
      BY <1>2, <1>5, <2>1, Z3
  <1>8. k <= 100 * RUnit
    <2>1. r \in Nat /\ r <= 100
      BY <1>7
    <2> HIDE DEF r
    <2> QED
      BY <1>2, <2>1, Z3
  <1>9. x * k >= -(100 * RUnit * Risk(s))
    <2> HIDE DEF r, k
    <2>1. x * k >= (-Risk(s)) * k
      BY <1>2, <1>5, <1>7, Z3
    <2>2. (-Risk(s)) * k >= (-Risk(s)) * (100 * RUnit)
      BY <1>2, <1>7, <1>8, Z3
    <2>3. (-Risk(s)) * (100 * RUnit) = -(100 * RUnit * Risk(s))
      BY <1>2, Z3
    <2>4. x * k \in Int /\ (-Risk(s)) * k \in Int /\ (-Risk(s)) * (100 * RUnit) \in Int
      BY <1>2, <1>5, <1>7, Z3
    <2> QED
      BY <2>1, <2>2, <2>3, <2>4
  <1>10. x * k \in Int /\ -(100 * RUnit * Risk(s)) \in Int
    <2> HIDE DEF r, k
    <2> QED
      BY <1>2, <1>5, <1>7, Z3
  <1> QED
    BY <1>3, <1>6, <1>7, <1>9, <1>10

-----------------------------------------------------------------------------
(* The runner *)

\* Some trades are those of the n signals with outcomes in some states, each once.
Among(list, n, out) ==
    /\ \A k \in 1..Len(list) : list[k].signal.id \in 1..n /\ list[k] = out[list[k].signal.id]
    /\ \A j, k \in 1..Len(list) : list[j].signal.id = list[k].signal.id => j = k
Has(list, i) == \E k \in 1..Len(list) : list[k].signal.id = i
Lists(list, n, out, states) ==
    /\ list \in Seq(TradeSet) /\ Among(list, n, out)
    /\ \A k \in 1..Len(list) : list[k].state \in states
    /\ \A i \in 1..n : out[i].state \in states => Has(list, i)

LEMMA KeptAreAmong ==
    ASSUME NEW n \in Nat, NEW out, NEW states, NEW after \in Seq(TradeSet), Among(after, n, out)
    PROVE  LET r == InState(after, states)
           IN  /\ r \in Seq(TradeSet) /\ Among(r, n, out)
               /\ \A k \in 1..Len(r) : r[k].state \in states /\ Has(after, r[k].signal.id)
               /\ \A i \in 1..n : out[i].state \in states /\ Has(after, i) => Has(r, i)
  <1> DEFINE r == InState(after, states)
  <1>1. r \in Seq(TradeSet) /\ \E f : Comes(f, r, after, Len(after), states)
    BY InStateRule
  <1> HIDE DEF r
  <1>2. PICK f : Comes(f, r, after, Len(after), states)
    BY <1>1
  <1>3. ASSUME NEW k \in 1..Len(r)
        PROVE  /\ f[k] \in 1..Len(after) /\ r[k] = after[f[k]] /\ r[k].state \in states
    BY <1>2 DEF Comes
  <1>4. \A k \in 1..Len(r) : r[k].signal.id \in 1..n /\ r[k] = out[r[k].signal.id]
    BY <1>3 DEF Among
  <1>5. ASSUME NEW j \in 1..Len(r), NEW k \in 1..Len(r), r[j].signal.id = r[k].signal.id
        PROVE  j = k
    <2>1. f[j] = f[k]
      <3>1. f[j] \in 1..Len(after) /\ r[j] = after[f[j]]
        BY <1>3
      <3>2. f[k] \in 1..Len(after) /\ r[k] = after[f[k]]
        BY <1>3
      <3>3. after[f[j]].signal.id = after[f[k]].signal.id
        BY <1>5, <3>1, <3>2
      <3> QED
        BY <3>1, <3>2, <3>3 DEF Among
    <2> QED
      BY <1>2, <2>1 DEF Comes
  <1>6. \A k \in 1..Len(r) : r[k].state \in states /\ Has(after, r[k].signal.id)
    BY <1>3 DEF Has
  <1>7. ASSUME NEW i \in 1..n, out[i].state \in states, Has(after, i)
        PROVE  Has(r, i)
    <2>1. PICK k \in 1..Len(after) : after[k].signal.id = i
      BY <1>7 DEF Has
    <2>2. after[k].state \in states
      BY <1>7, <2>1 DEF Among
    <2>3. PICK m \in 1..Len(r) : f[m] = k
      BY <1>2, <2>2 DEF Comes
    <2> QED
      BY <1>3, <2>1, <2>3 DEF Has
  <1>8. Among(r, n, out)
    BY <1>4, <1>5 DEF Among
  <1> QED
    BY <1>1, <1>6, <1>7, <1>8 DEF r

\* The closed trades leave the pending ones for the table.
LEMMA Settled ==
    ASSUME NEW n \in Nat, NEW out, NEW after \in Seq(TradeSet), NEW done \in Seq(TradeSet),
           Among(after, n, out), Among(done, n, out),
           \A k \in 1..Len(done) : done[k].state = "CLOSED",
           \A k \in 1..Len(done) : ~Has(after, done[k].signal.id),
           \A i \in 1..n : out[i].state \in Live \cup {"CLOSED"} => Has(after, i) \/ Has(done, i)
    PROVE  /\ Lists(InState(after, Live), n, out, Live)
           /\ Lists(done \o InState(after, {"CLOSED"}), n, out, {"CLOSED"})
  <1> DEFINE p == InState(after, Live)
             z == InState(after, {"CLOSED"})
             d == done \o z
  <1>1. /\ p \in Seq(TradeSet) /\ Among(p, n, out)
        /\ \A k \in 1..Len(p) : p[k].state \in Live
        /\ \A i \in 1..n : out[i].state \in Live /\ Has(after, i) => Has(p, i)
    BY KeptAreAmong
  <1>2. /\ z \in Seq(TradeSet) /\ Among(z, n, out)
        /\ \A k \in 1..Len(z) : z[k].state \in {"CLOSED"} /\ Has(after, z[k].signal.id)
        /\ \A i \in 1..n : out[i].state \in {"CLOSED"} /\ Has(after, i) => Has(z, i)
    BY KeptAreAmong
  <1> HIDE DEF p, z
  <1>3. Lists(p, n, out, Live)
    <2>1. ASSUME NEW i \in 1..n, out[i].state \in Live
          PROVE  Has(p, i)
      <3>1. ~Has(done, i)
        <4>1. ASSUME Has(done, i)
              PROVE  FALSE
          <5>1. PICK k \in 1..Len(done) : done[k].signal.id = i
            BY <4>1 DEF Has
          <5>2. out[i].state = "CLOSED"
            BY <5>1 DEF Among
          <5> QED
            BY <2>1, <5>2 DEF Live
        <4> QED
          BY <4>1
      <3> QED
        BY <1>1, <2>1, <3>1
    <2> QED
      BY <1>1, <2>1 DEF Lists
  <1>4. /\ d \in Seq(TradeSet) /\ Len(d) = Len(done) + Len(z)
        /\ Len(done) \in Nat /\ Len(z) \in Nat
        /\ \A k \in 1..Len(done) : d[k] = done[k]
        /\ \A k \in 1..Len(z) : d[Len(done) + k] = z[k]
    BY <1>2
  <1>5. ASSUME NEW k \in 1..Len(d)
        PROVE  \/ k \in 1..Len(done) /\ d[k] = done[k]
               \/ k - Len(done) \in 1..Len(z) /\ d[k] = z[k - Len(done)]
    <2>1. CASE k <= Len(done)
      BY <1>4, <2>1
    <2>2. CASE ~(k <= Len(done))
      <3>1. k - Len(done) \in 1..Len(z) /\ Len(done) + (k - Len(done)) = k
        BY <1>4, <2>2
      <3> QED
        BY <1>4, <3>1
    <2> QED
      BY <2>1, <2>2
  <1> HIDE DEF d
  <1>6. \A k \in 1..Len(d) : /\ d[k].signal.id \in 1..n /\ d[k] = out[d[k].signal.id]
                             /\ d[k].state = "CLOSED"
    <2>1. \A k \in 1..Len(done) : /\ done[k].signal.id \in 1..n /\ done[k].state = "CLOSED"
                                  /\ done[k] = out[done[k].signal.id]
      BY DEF Among
    <2>2. \A k \in 1..Len(z) : /\ z[k].signal.id \in 1..n /\ z[k].state = "CLOSED"
                               /\ z[k] = out[z[k].signal.id]
      BY <1>2 DEF Among
    <2> QED
      BY <1>5, <2>1, <2>2
  <1>7. ASSUME NEW j \in 1..Len(d), NEW k \in 1..Len(d), d[j].signal.id = d[k].signal.id
        PROVE  j = k
    <2>1. CASE j \in 1..Len(done) /\ d[j] = done[j] /\ k \in 1..Len(done) /\ d[k] = done[k]
      BY <1>7, <2>1 DEF Among
    <2>2. CASE /\ j - Len(done) \in 1..Len(z) /\ d[j] = z[j - Len(done)]
               /\ k - Len(done) \in 1..Len(z) /\ d[k] = z[k - Len(done)]
      <3>1. j - Len(done) = k - Len(done)
        BY <1>2, <1>7, <2>2 DEF Among
      <3> QED
        BY <1>4, <3>1
    <2>3. CASE /\ j \in 1..Len(done) /\ d[j] = done[j]
               /\ k - Len(done) \in 1..Len(z) /\ d[k] = z[k - Len(done)]
      BY <1>2, <1>7, <2>3
    <2>4. CASE /\ k \in 1..Len(done) /\ d[k] = done[k]
               /\ j - Len(done) \in 1..Len(z) /\ d[j] = z[j - Len(done)]
      BY <1>2, <1>7, <2>4
    <2> QED
      BY <1>5, <2>1, <2>2, <2>3, <2>4
  <1>8. ASSUME NEW i \in 1..n, out[i].state = "CLOSED"
        PROVE  Has(d, i)
    <2>1. CASE Has(done, i)
      <3>1. PICK k \in 1..Len(done) : done[k].signal.id = i
        BY <2>1 DEF Has
      <3>2. k \in 1..Len(d) /\ d[k] = done[k]
        BY <1>4, <3>1
      <3> QED
        BY <3>1, <3>2 DEF Has
    <2>2. CASE Has(z, i)
      <3>1. PICK k \in 1..Len(z) : z[k].signal.id = i
        BY <2>2 DEF Has
      <3>2. Len(done) + k \in 1..Len(d) /\ d[Len(done) + k] = z[k]
        BY <1>4, <3>1
      <3> QED
        BY <3>1, <3>2 DEF Has
    <2> QED
      BY <1>2, <1>8, <2>1, <2>2
  <1>9. Lists(d, n, out, {"CLOSED"})
    BY <1>4, <1>6, <1>7, <1>8 DEF Lists, Among
  <1> QED
    BY <1>3, <1>9 DEF p, d, z

EntrySet == [key : Keys, candle : Candles]

Newest(seq, key) == Max({j \in 1..Len(seq) : seq[j].key = key})

\* A signal of a replay, and what the replay remembers of the candles after it.
SignalOk(seq, s, i) ==
    /\ Proper(s) /\ s.id = i
    /\ s.index \in 1..Len(seq) /\ seq[s.index].key = s.key
    /\ Newest(seq, s.key) \in 1..Len(seq)
    /\ LET met == After(seq, s)
       IN  /\ met \in Seq(Candles)
           /\ met # <<>> => met[Len(met)] = seq[Newest(seq, s.key)].candle

SimulatedOver(s, met) ==
    IF met = <<>> THEN OpenTrade(s) ELSE CloseAtEndOfData(Advanced(s, met), met[Len(met)])

\* What has become of a signal, and what becomes of it when the candles run out.
Outcome(seq, fin, s) ==
    IF fin THEN SimulatedOver(s, After(seq, s)) ELSE Advanced(s, After(seq, s))
Outcomes(seq, fin, sigs) == [i \in 1..Len(sigs) |-> Outcome(seq, fin, sigs[i])]

\* Every trade of the runner is its signal's, advanced alone; no signal is lost
\* and none has two trades.
RunnerInv(seq, pend, done, sigs, fin) ==
    /\ seq \in Seq(EntrySet) /\ sigs \in Seq(SignalSet) /\ fin \in BOOLEAN
    /\ \A i \in 1..Len(sigs) : SignalOk(seq, sigs[i], i)
    /\ Lists(pend, Len(sigs), Outcomes(seq, fin, sigs), Live)
    /\ Lists(done, Len(sigs), Outcomes(seq, fin, sigs), {"CLOSED"})

Inv == RunnerInv(replayed, pending, persisted, signals, finished)

LEMMA MaxIs ==
    ASSUME NEW S, S \subseteq Int, NEW m \in S, \A y \in S : m >= y
    PROVE  Max(S) = m
  <1>1. \A x \in S : (\A y \in S : x >= y) => x = m
    <2>1. TAKE x \in S
    <2>2. HAVE \A y \in S : x >= y
    <2>3. x >= m /\ m >= x /\ x \in Int /\ m \in Int
      BY <2>2
    <2> QED
      BY <2>3
  <1> QED
    BY <1>1 DEF Max

LEMMA NewestOnAppend ==
    ASSUME NEW seq \in Seq(EntrySet), NEW e \in EntrySet, NEW key
    PROVE  /\ e.key = key => Newest(Append(seq, e), key) = Len(seq) + 1
           /\ e.key # key => Newest(Append(seq, e), key) = Newest(seq, key)
  <1> DEFINE ext == Append(seq, e)
             L == Len(seq)
             S == {j \in 1..L : seq[j].key = key}
             R == {j \in 1..(L + 1) : ext[j].key = key}
  <1>1. L \in Nat /\ Len(ext) = L + 1 /\ ext[L + 1] = e /\ \A j \in 1..L : ext[j] = seq[j]
    OBVIOUS
  <1>2. Newest(ext, key) = Max(R) /\ Newest(seq, key) = Max(S)
    BY <1>1 DEF Newest
  <1> HIDE DEF ext, L
  <1>3. ASSUME e.key = key
        PROVE  Max(R) = L + 1
    <2>1. L + 1 \in R /\ R \subseteq Int /\ \A y \in R : L + 1 >= y
      BY <1>1, <1>3
    <2> HIDE DEF R
    <2> QED
      BY <2>1, MaxIs
  <1>4. ASSUME e.key # key
        PROVE  R = S
    <2>1. \A j \in 1..(L + 1) : j \in 1..L \/ j = L + 1
      BY <1>1
    <2>2. \A j \in 1..L : j \in 1..(L + 1)
      BY <1>1
    <2> QED
      BY <1>1, <1>4, <2>1, <2>2
  <1> QED
    BY <1>2, <1>3, <1>4 DEF ext, L

LEMMA SignalStays ==
    ASSUME NEW seq \in Seq(EntrySet), NEW e \in EntrySet, NEW s, NEW i, SignalOk(seq, s, i)
    PROVE  /\ SignalOk(Append(seq, e), s, i)
           /\ After(Append(seq, e), s)
                = IF e.key = s.key THEN Append(After(seq, s), e.candle) ELSE After(seq, s)
  <1> DEFINE ext == Append(seq, e)
             L == Len(seq)
             met == After(seq, s)
  <1>1. L \in Nat /\ Len(ext) = L + 1 /\ ext[L + 1] = e /\ \A j \in 1..L : ext[j] = seq[j]
    OBVIOUS
  <1>2. /\ s.index \in 1..L /\ seq[s.index].key = s.key /\ Newest(seq, s.key) \in 1..L
        /\ met \in Seq(Candles)
        /\ met # <<>> => met[Len(met)] = seq[Newest(seq, s.key)].candle
        /\ Proper(s) /\ s.id = i
    BY DEF SignalOk
  <1>3. s.index \in Nat /\ s.index <= L
    BY <1>1, <1>2
  <1>4. After(ext, s) = IF e.key = s.key THEN Append(met, e.candle) ELSE met
    BY <1>3, AfterRule
  <1>5. /\ e.key = s.key => Newest(ext, s.key) = L + 1
        /\ e.key # s.key => Newest(ext, s.key) = Newest(seq, s.key)
    BY NewestOnAppend
  <1>6. e.candle \in Candles
    BY DEF EntrySet
  <1> HIDE DEF ext, met, L
  <1>7. s.index \in 1..(L + 1) /\ ext[s.index].key = s.key
    BY <1>1, <1>2
  <1>8. CASE e.key = s.key
    <2>1. After(ext, s) = Append(met, e.candle) /\ Newest(ext, s.key) = L + 1
      BY <1>4, <1>5, <1>8
    <2>2. /\ Append(met, e.candle) \in Seq(Candles)
          /\ Append(met, e.candle)[Len(Append(met, e.candle))] = e.candle
      <3>1. met \in Seq(Candles)
        BY <1>2
      <3> DEFINE c == e.candle
      <3>2. c \in Candles
        BY <1>6
      <3> HIDE DEF c
      <3>3. Append(met, c) \in Seq(Candles) /\ Append(met, c)[Len(Append(met, c))] = c
        BY <3>1, <3>2, AppendProperties
      <3> QED
        BY <3>3 DEF c
    <2>3. Newest(ext, s.key) \in 1..(L + 1) /\ ext[Newest(ext, s.key)].candle = e.candle
      BY <1>1, <2>1
    <2>4. SignalOk(ext, s, i)
      BY <1>1, <1>2, <1>7, <2>1, <2>2, <2>3 DEF SignalOk
    <2> QED
      BY <1>4, <2>4 DEF ext, met
  <1>9. CASE e.key # s.key
    <2>1. After(ext, s) = met /\ Newest(ext, s.key) = Newest(seq, s.key)
      BY <1>4, <1>5, <1>9
    <2>2. /\ Newest(ext, s.key) \in 1..(L + 1)
          /\ ext[Newest(ext, s.key)] = seq[Newest(seq, s.key)]
      BY <1>1, <1>2, <2>1
    <2>3. SignalOk(ext, s, i)
      <3>1. /\ After(ext, s) \in Seq(Candles)
            /\ After(ext, s) # <<>> =>
                  After(ext, s)[Len(After(ext, s))] = ext[Newest(ext, s.key)].candle
        BY <1>2, <2>1, <2>2
      <3> QED
        BY <1>1, <1>2, <1>7, <2>2, <3>1 DEF SignalOk
    <2> QED
      BY <1>4, <2>3 DEF ext, met
  <1> QED
    BY <1>8, <1>9

LEMMA SignalStarts ==
    ASSUME NEW seq \in Seq(EntrySet), NEW e \in EntrySet, NEW s, NEW i,
           Proper(s), s.id = i, s.index = Len(seq) + 1, s.key = e.key
    PROVE  SignalOk(Append(seq, e), s, i) /\ After(Append(seq, e), s) = <<>>
  <1> DEFINE ext == Append(seq, e)
             L == Len(seq)
  <1>1. L \in Nat /\ Len(ext) = L + 1 /\ ext[L + 1] = e /\ ext \in Seq(EntrySet)
    OBVIOUS
  <1>2. Newest(ext, s.key) = L + 1
    BY NewestOnAppend
  <1> HIDE DEF ext, L
  <1>3. s.index = Len(ext) /\ s.index \in Nat /\ s.index <= Len(ext) /\ s.index = L + 1
    BY <1>1 DEF L
  <1>4. After(ext, s) = <<>>
    BY <1>1, <1>3, AfterRule DEF ext
  <1>5. s.index \in 1..Len(ext) /\ L + 1 \in 1..Len(ext)
    BY <1>1, <1>3
  <1>6. SignalOk(ext, s, i)
    BY <1>1, <1>2, <1>3, <1>4, <1>5 DEF SignalOk
  <1> QED
    BY <1>4, <1>6 DEF ext

\* A trade's outcome, typed; only waiting and open trades change.
LEMMA OutcomeFacts ==
    ASSUME NEW seq, NEW s, NEW i, SignalOk(seq, s, i)
    PROVE  /\ Good(Advanced(s, After(seq, s)), s, After(seq, s))
           /\ Advanced(s, After(seq, s)) \in TradeSet /\ Advanced(s, After(seq, s)).signal = s
           /\ Fair(SimulatedOver(s, After(seq, s)), s, After(seq, s))
           /\ SimulatedOver(s, After(seq, s)) \in TradeSet
           /\ SimulatedOver(s, After(seq, s)).signal = s
  <1> DEFINE met == After(seq, s)
  <1>1. Proper(s) /\ met \in Seq(Candles)
    BY DEF SignalOk
  <1> HIDE DEF met
  <1>2. Good(Advanced(s, met), s, met)
    BY <1>1, AdvancedIsGood
  <1>3. CASE met = <<>>
    <2>1. <<>> \in Seq(Candles) /\ Len(<<>>) = 0
      OBVIOUS
    <2>2. Sound(OpenTrade(s), s, 0) /\ Pessimist(OpenTrade(s), s, <<>>)
      BY <1>1, SoundAtFirst, PessimistAtFirst
    <2>3. Covered(OpenTrade(s), s, met[Len(met)])
      BY DEF Covered, OpenTrade
    <2>4. Good(OpenTrade(s), s, met)
      BY <1>3, <2>1, <2>2, <2>3 DEF Good
    <2>5. Fair(SimulatedOver(s, met), s, met)
      BY <1>3, <2>4, GoodIsFair DEF SimulatedOver
    <2> QED
      BY <1>2, <2>5 DEF Fair, Good, Sound, met
  <1>4. CASE met # <<>>
    <2>1. met[Len(met)] \in Candles
      <3>1. Len(met) \in 1..Len(met)
        BY <1>1, <1>4
      <3> QED
        BY <1>1, <3>1, ElementOfSeq
    <2>2. Fair(SimulatedOver(s, met), s, met)
      BY <1>1, <1>2, <1>4, <2>1, EndIsFair DEF SimulatedOver
    <2> QED
      BY <1>2, <2>2 DEF Fair, Good, Sound, met
  <1> QED
    BY <1>3, <1>4

LEMMA OutcomeStep ==
    ASSUME NEW seq \in Seq(EntrySet), NEW e \in EntrySet, NEW s, NEW i, SignalOk(seq, s, i)
    PROVE  Advanced(s, After(Append(seq, e), s))
             = IF e.key = s.key THEN Advance(Advanced(s, After(seq, s)), e.candle)
               ELSE Advanced(s, After(seq, s))
  <1>1. After(Append(seq, e), s)
          = IF e.key = s.key THEN Append(After(seq, s), e.candle) ELSE After(seq, s)
    BY SignalStays
  <1>2. After(seq, s) \in Seq(Candles) /\ e.candle \in Candles
    BY DEF SignalOk, EntrySet
  <1> QED
    BY <1>1, <1>2, AdvancedRule

LEMMA InitHolds == Init => Inv
  <1> SUFFICES ASSUME Init PROVE Inv
    OBVIOUS
  <1>1. replayed = <<>> /\ pending = <<>> /\ persisted = <<>> /\ signals = <<>> /\ finished = FALSE
    BY DEF Init
  <1>2. /\ <<>> \in Seq(EntrySet) /\ <<>> \in Seq(SignalSet) /\ <<>> \in Seq(TradeSet)
        /\ Len(<<>>) = 0 /\ 1..0 = {}
    OBVIOUS
  <1>3. \A out, states : Lists(<<>>, 0, out, states)
    BY <1>2 DEF Lists, Among
  <1> QED
    BY <1>1, <1>2, <1>3 DEF Inv, RunnerInv

LEMMA CapturedIsProper ==
    ASSUME NEW key \in Keys, NEW candle \in Candles, NEW plans \in PlansAt(key, candle),
           signals \in Seq(SignalSet), replayed \in Seq(EntrySet)
    PROVE  /\ Captured(plans, key) \in Seq(SignalSet)
           /\ Len(Captured(plans, key)) = Len(plans) /\ Len(plans) \in Nat
           /\ \A k \in 1..Len(plans) :
                 LET s == Captured(plans, key)[k]
                 IN  /\ Proper(s) /\ s.id = Len(signals) + k
                     /\ s.index = Len(replayed) + 1 /\ s.key = key
  <1>1. plans \in Seq(Plans)
    <2> DEFINE possible == IF key \in PrimaryKeys THEN {p \in Plans : CanPlan(p, candle)} ELSE {}
    <2>1. plans \in {<<>>} \cup {<<p>> : p \in possible} \cup (possible \X possible)
      BY DEF PlansAt
    <2>2. possible \subseteq Plans
      OBVIOUS
    <2> HIDE DEF possible
    <2>3. CASE plans = <<>>
      BY <2>3
    <2>4. CASE plans \in {<<p>> : p \in possible}
      <3>1. PICK p \in possible : plans = <<p>>
        BY <2>4
      <3> QED
        BY <2>2, <3>1
    <2>5. CASE plans \in possible \X possible
      <3>1. PICK p \in possible, q \in possible : plans = <<p, q>>
        BY <2>5
      <3> QED
        BY <2>2, <3>1
    <2> QED
      BY <2>1, <2>3, <2>4, <2>5
  <1>2. Len(plans) \in Nat /\ Len(signals) \in Nat /\ Len(replayed) \in Nat
    BY <1>1
  <1>3. ASSUME NEW k \in 1..Len(plans)
        PROVE  LET s == Captured(plans, key)[k]
               IN  /\ s \in SignalSet /\ Proper(s) /\ s.id = Len(signals) + k
                   /\ s.index = Len(replayed) + 1 /\ s.key = key
    <2> DEFINE p == plans[k]
               s == Capture(p, key, Len(signals) + k)
    <2>1. p \in Plans
      BY <1>1, ElementOfSeq
    <2>2. /\ p \in [direction : {"BULLISH", "BEARISH"}, low : Int, high : Int,
                    reference : Int, stop : Int]
          /\ Risk(p) > 0 /\ Risk(p) % RUnit = 0
      BY <2>1, DataAssumption, PlansAssumption
    <2>3. Captured(plans, key)[k] = s
      BY DEF Captured
    <2>4. /\ s.direction = p.direction /\ s.reference = p.reference /\ s.stop = p.stop
          /\ s.id = Len(signals) + k /\ s.index = Len(replayed) + 1 /\ s.key = key
      BY DEF Capture
    <2>5. Risk(s) = Risk(p)
      BY <2>4 DEF Risk, Sign
    <2>6. s \in SignalSet
      <3>1. Len(signals) + k \in Nat /\ Len(replayed) + 1 \in Nat
        BY <1>2
      <3> HIDE DEF p
      <3> QED
        BY <2>2, <3>1 DEF Capture, SignalSet
    <2> HIDE DEF s, p
    <2> QED
      BY <2>2, <2>3, <2>4, <2>5, <2>6 DEF Proper
  <1>4. Captured(plans, key) = [k \in 1..Len(plans) |-> Captured(plans, key)[k]]
    BY DEF Captured
  <1> DEFINE opened == Captured(plans, key)
  <1> HIDE DEF opened
  <1>5. opened \in Seq(SignalSet) /\ Len(opened) = Len(plans)
    <2>1. \A k \in 1..Len(plans) : opened[k] \in SignalSet
      BY <1>3 DEF opened
    <2>2. opened = [k \in 1..Len(plans) |-> opened[k]]
      BY <1>4 DEF opened
    <2> QED
      BY <1>2, <2>1, <2>2
  <1> QED
    BY <1>2, <1>3, <1>5 DEF opened

\* The outcomes of the signals of a replay are trades of theirs.
OutcomesOk(out, sigs) ==
    \A i \in 1..Len(sigs) :
        out[i] \in TradeSet /\ out[i].signal = sigs[i] /\ out[i].signal.id = i

LEMMA OutcomesAreOk ==
    ASSUME NEW seq, NEW sigs, NEW fin, \A i \in 1..Len(sigs) : SignalOk(seq, sigs[i], i)
    PROVE  OutcomesOk(Outcomes(seq, fin, sigs), sigs)
  <1>1. ASSUME NEW i \in 1..Len(sigs)
        PROVE  /\ Outcome(seq, fin, sigs[i]) \in TradeSet
               /\ Outcome(seq, fin, sigs[i]).signal = sigs[i] /\ sigs[i].id = i
    <2>1. SignalOk(seq, sigs[i], i)
      OBVIOUS
    <2>2. sigs[i].id = i
      BY <2>1 DEF SignalOk
    <2> QED
      BY <2>1, <2>2, OutcomeFacts DEF Outcome
  <1> QED
    BY <1>1 DEF OutcomesOk, Outcomes

LEMMA ReplayStep ==
    ASSUME Inv, NEW key \in Keys, NEW candle \in Candles, Replay(key, candle)
    PROVE  Inv'
  <1> DEFINE e == [key |-> key, candle |-> candle]
  <1>1. PICK plans \in PlansAt(key, candle) :
            LET opened == Captured(plans, key)
                trades == pending \o [k \in 1..Len(opened) |-> OpenTrade(opened[k])]
                after == [k \in 1..Len(trades) |->
                             IF Meets(trades[k], key, Len(replayed'))
                             THEN Advance(trades[k], candle) ELSE trades[k]]
            IN  /\ signals' = signals \o opened
                /\ pending' = InState(after, Live)
                /\ persisted' = persisted \o InState(after, {"CLOSED"})
    BY DEF Replay
  <1> DEFINE opened == Captured(plans, key)
             fresh == [k \in 1..Len(opened) |-> OpenTrade(opened[k])]
             trades == pending \o fresh
             after == [k \in 1..Len(trades) |->
                          IF Meets(trades[k], key, Len(replayed'))
                          THEN Advance(trades[k], candle) ELSE trades[k]]
             ext == Append(replayed, e)
             sigs == signals \o opened
             n == Len(signals)
             m == Len(opened)
             out == Outcomes(replayed, FALSE, signals)
             new == Outcomes(ext, FALSE, sigs)
  <1>2. /\ replayed' = ext /\ signals' = sigs /\ finished = FALSE /\ finished' = FALSE
        /\ pending' = InState(after, Live) /\ persisted' = persisted \o InState(after, {"CLOSED"})
    <2>1. replayed' = ext /\ ~finished /\ finished' = finished
      BY DEF Replay
    <2>2. finished \in BOOLEAN
      BY DEF Inv, RunnerInv
    <2> QED
      BY <1>1, <2>1, <2>2
  <1>3. /\ replayed \in Seq(EntrySet) /\ signals \in Seq(SignalSet)
        /\ \A i \in 1..n : SignalOk(replayed, signals[i], i)
        /\ Lists(pending, n, out, Live) /\ Lists(persisted, n, out, {"CLOSED"})
    BY <1>2 DEF Inv, RunnerInv
  <1>4. e \in EntrySet /\ e.key = key /\ e.candle = candle
    BY DEF EntrySet
  <1>5. /\ opened \in Seq(SignalSet) /\ m \in Nat /\ n \in Nat
        /\ \A k \in 1..m : /\ Proper(opened[k]) /\ opened[k].id = n + k
                           /\ opened[k].index = Len(replayed) + 1 /\ opened[k].key = key
    BY <1>3, CapturedIsProper
  <1> HIDE DEF e, opened
  <1>6. /\ sigs \in Seq(SignalSet) /\ Len(sigs) = n + m
        /\ \A i \in 1..n : sigs[i] = signals[i]
        /\ \A k \in 1..m : sigs[n + k] = opened[k]
    BY <1>3, <1>5
  <1>7. /\ ext \in Seq(EntrySet) /\ Len(ext) = Len(replayed) + 1 /\ Len(replayed) \in Nat
    BY <1>3, <1>4
  <1>8. /\ \A i \in 1..n : SignalOk(ext, signals[i], i)
        /\ \A k \in 1..m : SignalOk(ext, opened[k], n + k) /\ After(ext, opened[k]) = <<>>
    <2>1. \A i \in 1..n : SignalOk(ext, signals[i], i)
      BY <1>3, <1>4, SignalStays
    <2>2. ASSUME NEW k \in 1..m
          PROVE  SignalOk(ext, opened[k], n + k) /\ After(ext, opened[k]) = <<>>
      BY <1>3, <1>4, <1>5, SignalStarts
    <2> QED
      BY <2>1, <2>2
  <1>9. ASSUME NEW i \in 1..(n + m)
        PROVE  i \in 1..n \/ (i - n \in 1..m /\ i = n + (i - n))
    BY <1>5
  <1>10. \A i \in 1..Len(sigs) : SignalOk(ext, sigs[i], i)
    <2>1. ASSUME NEW i \in 1..(n + m)
          PROVE  SignalOk(ext, sigs[i], i)
      <3>1. CASE i \in 1..n
        BY <1>6, <1>8, <3>1
      <3>2. CASE i - n \in 1..m /\ i = n + (i - n)
        <4>1. sigs[n + (i - n)] = opened[i - n] /\ SignalOk(ext, opened[i - n], n + (i - n))
          BY <1>6, <1>8, <3>2
        <4> QED
          BY <3>2, <4>1
      <3> QED
        BY <1>9, <3>1, <3>2
    <2> QED
      BY <1>6, <2>1
  <1>11. OutcomesOk(out, signals) /\ OutcomesOk(new, sigs)
    BY <1>3, <1>10, OutcomesAreOk
  <1>12. ASSUME NEW i \in 1..n
         PROVE  new[i] = IF key = signals[i].key THEN Advance(out[i], candle) ELSE out[i]
    <2>1. out[i] = Advanced(signals[i], After(replayed, signals[i]))
      BY DEF Outcomes, Outcome
    <2>2. i \in 1..Len(sigs) /\ sigs[i] = signals[i]
      BY <1>5, <1>6
    <2>3. new[i] = Advanced(signals[i], After(ext, signals[i]))
      BY <2>2 DEF Outcomes, Outcome
    <2>4. SignalOk(replayed, signals[i], i)
      BY <1>3
    <2> QED
      <3> DEFINE s == signals[i]
      <3> HIDE DEF s
      <3>1. Advanced(s, After(ext, s)) = IF e.key = s.key THEN Advance(Advanced(s, After(replayed, s)), e.candle)
                                         ELSE Advanced(s, After(replayed, s))
        BY <1>3, <1>4, <2>4, OutcomeStep DEF s
      <3> QED
        BY <1>4, <2>1, <2>3, <3>1 DEF s
  <1>13. ASSUME NEW k \in 1..m
         PROVE  new[n + k] = OpenTrade(opened[k])
    <2>1. n + k \in 1..Len(sigs) /\ sigs[n + k] = opened[k]
      BY <1>5, <1>6
    <2>2. new[n + k] = Advanced(opened[k], After(ext, opened[k]))
      BY <2>1 DEF Outcomes, Outcome
    <2>3. Advanced(opened[k], <<>>) = OpenTrade(opened[k])
      <3>1. <<>> \in Seq(Candles)
        OBVIOUS
      <3> QED
        BY <3>1, AdvancedRule
    <2> QED
      BY <1>8, <2>2, <2>3
  <1> HIDE DEF ext, out, new, sigs
  <1>14. /\ pending \in Seq(TradeSet) /\ persisted \in Seq(TradeSet)
         /\ Among(pending, n, out) /\ Among(persisted, n, out)
         /\ \A k \in 1..Len(pending) : pending[k].state \in Live
         /\ \A k \in 1..Len(persisted) : persisted[k].state = "CLOSED"
         /\ \A i \in 1..n : out[i].state \in Live => Has(pending, i)
         /\ \A i \in 1..n : out[i].state = "CLOSED" => Has(persisted, i)
    BY <1>3 DEF Lists
  <1>15. fresh \in Seq(TradeSet) /\ Len(fresh) = m /\ \A k \in 1..m : fresh[k] = new[n + k]
    <2>1. ASSUME NEW k \in 1..m
          PROVE  OpenTrade(opened[k]) \in TradeSet /\ OpenTrade(opened[k]) = new[n + k]
      <3>1. Sound(OpenTrade(opened[k]), opened[k], 0)
        BY <1>5, SoundAtFirst
      <3> QED
        BY <1>13, <3>1 DEF Sound
    <2>2. m \in Nat /\ fresh = [k \in 1..m |-> OpenTrade(opened[k])]
      BY <1>5
    <2>3. fresh \in [1..m -> TradeSet]
      BY <2>1, <2>2
    <2>4. fresh \in Seq(TradeSet) /\ Len(fresh) = m
      BY <2>2, <2>3
    <2> QED
      BY <2>1, <2>2, <2>4
  <1> HIDE DEF fresh
  <1>16. /\ trades \in Seq(TradeSet) /\ Len(trades) = Len(pending) + m /\ Len(pending) \in Nat
         /\ \A k \in 1..Len(pending) : trades[k] = pending[k]
         /\ \A k \in 1..m : trades[Len(pending) + k] = fresh[k]
    <2>1. pending \in Seq(TradeSet) /\ fresh \in Seq(TradeSet) /\ Len(fresh) = m
      BY <1>14, <1>15
    <2>2. Len(pending) \in Nat /\ m \in Nat
      BY <1>5, <2>1
    <2>3. trades \in Seq(TradeSet) /\ Len(trades) = Len(pending) + m
      BY <2>1
    <2>4. ASSUME NEW k \in 1..Len(pending)
          PROVE  trades[k] = pending[k]
      BY <2>1, <2>2
    <2>5. ASSUME NEW k \in 1..m
          PROVE  trades[Len(pending) + k] = fresh[k]
      <3> DEFINE x == Len(pending) + k
      <3>1. x \in 1..(Len(pending) + Len(fresh)) /\ x > Len(pending) /\ x - Len(pending) = k
        BY <2>1, <2>2
      <3> HIDE DEF x
      <3>2. trades[x] = fresh[x - Len(pending)]
        BY <2>1, <2>2, <3>1
      <3> QED
        BY <3>1, <3>2 DEF x
    <2> HIDE DEF trades
    <2> QED
      BY <2>2, <2>3, <2>4, <2>5
  <1> HIDE DEF trades
  <1>17. ASSUME NEW k \in 1..Len(trades)
         PROVE  \/ k \in 1..Len(pending) /\ trades[k] = pending[k]
                \/ k - Len(pending) \in 1..m /\ trades[k] = new[n + (k - Len(pending))]
    <2>1. CASE k <= Len(pending)
      BY <1>16, <2>1
    <2>2. CASE ~(k <= Len(pending))
      <3>1. k - Len(pending) \in 1..m /\ Len(pending) + (k - Len(pending)) = k
        BY <1>5, <1>16, <2>2
      <3> QED
        BY <1>15, <1>16, <3>1
    <2> QED
      BY <2>1, <2>2
  <1>18. ASSUME NEW i \in 1..n, out[i].state \in {"CLOSED", "EXPIRED_UNFILLED"}
         PROVE  new[i] = out[i]
    <2>1. out[i] \in TradeSet
      BY <1>11 DEF OutcomesOk
    <2>2. Advance(out[i], candle) = out[i]
      BY <1>18, <2>1, AdvanceCases
    <2> QED
      BY <1>12, <2>2
  <1>19. ASSUME NEW k \in 1..Len(trades)
         PROVE  LET i == trades[k].signal.id
                IN  /\ i \in 1..(n + m) /\ after[k] = new[i]
                    /\ \/ k \in 1..Len(pending) /\ i \in 1..n /\ i = pending[k].signal.id
                          /\ out[i].state \in Live
                       \/ i = n + (k - Len(pending)) /\ k - Len(pending) \in 1..m
    <2>1. CASE k \in 1..Len(pending) /\ trades[k] = pending[k]
      <3> DEFINE i == trades[k].signal.id
      <3>1. /\ i \in 1..n /\ trades[k] = out[i] /\ out[i].state \in Live
            /\ i = pending[k].signal.id
        BY <1>14, <2>1 DEF Among
      <3> HIDE DEF i
      <3>2. out[i].signal = signals[i]
        BY <1>11, <3>1 DEF OutcomesOk
      <3>3. signals[i].index \in 1..Len(replayed)
        BY <1>3, <3>1 DEF SignalOk
      <3>4. Len(replayed') = Len(replayed) + 1 /\ Len(replayed) \in Nat
        BY <1>2, <1>7
      <3>5. signals[i].index < Len(replayed')
        BY <3>3, <3>4
      <3>6. trades[k].signal = signals[i]
        BY <3>1, <3>2
      <3>7. Meets(trades[k], key, Len(replayed')) <=> signals[i].key = key
        BY <3>5, <3>6 DEF Meets
      <3>8. after[k] = new[i]
        BY <1>12, <3>1, <3>7
      <3>9. i \in 1..(n + m)
        BY <1>5, <3>1
      <3> QED
        BY <2>1, <3>1, <3>8, <3>9 DEF i
    <2>2. CASE k - Len(pending) \in 1..m /\ trades[k] = new[n + (k - Len(pending))]
      <3> DEFINE j == k - Len(pending)
      <3>1. j \in 1..m /\ trades[k] = new[n + j]
        BY <2>2
      <3> HIDE DEF j
      <3>2. n + j \in 1..(n + m) /\ n + j \in 1..Len(sigs)
        BY <1>5, <1>6, <3>1
      <3>3. trades[k].signal = sigs[n + j] /\ trades[k].signal.id = n + j
        BY <1>11, <3>1, <3>2 DEF OutcomesOk
      <3>4. trades[k].signal.index = Len(replayed')
        BY <1>2, <1>5, <1>6, <1>7, <3>1, <3>3
      <3>5. ~Meets(trades[k], key, Len(replayed'))
        BY <1>2, <1>7, <3>4 DEF Meets
      <3>6. after[k] = new[n + j]
        BY <3>1, <3>5
      <3> QED
        BY <3>1, <3>2, <3>3, <3>6 DEF j
    <2> QED
      BY <1>17, <2>1, <2>2
  <1>20. ASSUME NEW i \in 1..(n + m)
         PROVE  new[i] \in TradeSet /\ new[i].signal.id = i
    BY <1>6, <1>11 DEF OutcomesOk
  <1>21. after \in Seq(TradeSet) /\ Len(after) = Len(trades)
    <2>1. \A k \in 1..Len(trades) : after[k] \in TradeSet
      BY <1>19, <1>20
    <2>2. Len(trades) \in Nat
      BY <1>16
    <2>3. after = [k \in 1..Len(trades) |-> after[k]]
      OBVIOUS
    <2> HIDE DEF after
    <2> QED
      BY <2>1, <2>2, <2>3
  <1> HIDE DEF after
  <1>22. ASSUME NEW k \in 1..Len(after)
         PROVE  /\ after[k].signal.id = trades[k].signal.id
                /\ after[k].signal.id \in 1..(n + m) /\ after[k] = new[after[k].signal.id]
    BY <1>19, <1>20, <1>21
  <1>23. ASSUME NEW j \in 1..Len(after), NEW k \in 1..Len(after),
                after[j].signal.id = after[k].signal.id
         PROVE  j = k
    <2>1. j \in 1..Len(trades) /\ k \in 1..Len(trades) /\ trades[j].signal.id = trades[k].signal.id
      BY <1>21, <1>22, <1>23
    <2> DEFINE i == trades[j].signal.id
    <2>2. \/ j \in 1..Len(pending) /\ i \in 1..n /\ i = pending[j].signal.id
          \/ i = n + (j - Len(pending)) /\ j - Len(pending) \in 1..m
      BY <1>19, <2>1
    <2>3. \/ k \in 1..Len(pending) /\ i \in 1..n /\ i = pending[k].signal.id
          \/ i = n + (k - Len(pending)) /\ k - Len(pending) \in 1..m
      BY <1>19, <2>1
    <2> HIDE DEF i
    <2>4. \A x \in 1..m : n + x \notin 1..n
      BY <1>5
    <2>5. Len(pending) \in Nat /\ n \in Nat /\ j \in Int /\ k \in Int
      BY <1>5, <1>16
    <2>6. CASE j \in 1..Len(pending) /\ i = pending[j].signal.id
      <3>1. CASE k \in 1..Len(pending) /\ i = pending[k].signal.id
        BY <1>14, <2>6, <3>1 DEF Among
      <3>2. CASE i = n + (k - Len(pending)) /\ k - Len(pending) \in 1..m
        <4>1. i \notin 1..n
          BY <2>4, <3>2
        <4>2. i \in 1..n
          BY <1>14, <2>6 DEF Among
        <4> QED
          BY <4>1, <4>2
      <3> QED
        BY <2>3, <3>1, <3>2
    <2>7. CASE i = n + (j - Len(pending)) /\ j - Len(pending) \in 1..m
      <3>1. i \notin 1..n
        BY <2>4, <2>7
      <3>2. i = n + (k - Len(pending))
        BY <2>3, <3>1
      <3> QED
        BY <2>5, <2>7, <3>2
    <2> QED
      BY <2>2, <2>6, <2>7
  <1>24. Among(after, n + m, new)
    BY <1>22, <1>23 DEF Among
  <1>25. Among(persisted, n + m, new)
    <2>1. ASSUME NEW k \in 1..Len(persisted)
          PROVE  /\ persisted[k].signal.id \in 1..(n + m)
                 /\ persisted[k] = new[persisted[k].signal.id]
      <3> DEFINE i == persisted[k].signal.id
      <3>1. i \in 1..n /\ persisted[k] = out[i] /\ out[i].state = "CLOSED"
        BY <1>14 DEF Among
      <3>2. new[i] = out[i]
        BY <1>18, <3>1
      <3>3. i \in 1..(n + m)
        BY <1>5, <3>1
      <3> QED
        BY <3>1, <3>2, <3>3
    <2> QED
      BY <1>14, <2>1 DEF Among
  <1>26. ASSUME NEW k \in 1..Len(persisted), Has(after, persisted[k].signal.id)
         PROVE  FALSE
    <2> DEFINE i == persisted[k].signal.id
    <2>1. i \in 1..n /\ out[i].state = "CLOSED"
      BY <1>14 DEF Among
    <2>2. PICK j \in 1..Len(after) : after[j].signal.id = i
      BY <1>26 DEF Has
    <2> HIDE DEF i
    <2>3. j \in 1..Len(trades) /\ trades[j].signal.id = i
      BY <1>21, <1>22, <2>2
    <2>4. out[i].state \in Live \/ (i = n + (j - Len(pending)) /\ j - Len(pending) \in 1..m)
      BY <1>19, <2>3
    <2>5. \A x \in 1..m : n + x \notin 1..n
      BY <1>5
    <2> QED
      BY <2>1, <2>4, <2>5 DEF Live
  <1>27. ASSUME NEW i \in 1..(n + m), new[i].state \in Live \cup {"CLOSED"}
         PROVE  Has(after, i) \/ Has(persisted, i)
    <2>1. CASE i \in 1..n
      <3>1. out[i].state # "EXPIRED_UNFILLED"
        BY <1>18, <1>27, <2>1 DEF Live
      <3>2. out[i].state \in TradeStates
        BY <1>11, <2>1 DEF OutcomesOk, TradeSet
      <3>3. CASE out[i].state = "CLOSED"
        BY <1>14, <2>1, <3>3
      <3>4. CASE out[i].state \in Live
        <4>1. PICK k \in 1..Len(pending) : pending[k].signal.id = i
          BY <1>14, <2>1, <3>4 DEF Has
        <4>2. k \in 1..Len(after) /\ trades[k] = pending[k]
          BY <1>5, <1>16, <1>21, <4>1
        <4>3. after[k].signal.id = i
          BY <1>22, <4>1, <4>2
        <4> QED
          BY <4>2, <4>3 DEF Has
      <3> QED
        BY <3>1, <3>2, <3>3, <3>4 DEF TradeStates, Live
    <2>2. CASE i - n \in 1..m /\ i = n + (i - n)
      <3> DEFINE k == Len(pending) + (i - n)
      <3>1. k \in 1..Len(after) /\ trades[k] = new[i]
        <4> DEFINE j == i - n
        <4>1. j \in 1..m /\ i = n + j
          BY <2>2
        <4> HIDE DEF j
        <4>2. trades[Len(pending) + j] = new[n + j]
          BY <1>15, <1>16, <4>1
        <4>3. Len(pending) + j \in 1..Len(after)
          BY <1>5, <1>16, <1>21, <4>1
        <4> QED
          BY <4>1, <4>2, <4>3 DEF j
      <3>2. after[k].signal.id = i
        BY <1>20, <1>22, <3>1
      <3> QED
        BY <3>1, <3>2 DEF Has
    <2> QED
      BY <1>9, <2>1, <2>2
  <1>28. n + m \in Nat
    BY <1>5
  <1>29. /\ Lists(InState(after, Live), n + m, new, Live)
         /\ Lists(persisted \o InState(after, {"CLOSED"}), n + m, new, {"CLOSED"})
    BY <1>14, <1>21, <1>24, <1>25, <1>26, <1>27, <1>28, Settled
  <1>30. RunnerInv(ext, InState(after, Live), persisted \o InState(after, {"CLOSED"}), sigs, FALSE)
    BY <1>6, <1>7, <1>10, <1>29 DEF RunnerInv, new
  <1> QED
    BY <1>2, <1>30 DEF Inv

\* What the end of the data makes of a trade.
LEMMA EndOfOutcome ==
    ASSUME NEW seq, NEW s, NEW i, SignalOk(seq, s, i)
    PROVE  SimulatedOver(s, After(seq, s))
             = CloseAtEndOfData(Advanced(s, After(seq, s)), seq[Newest(seq, s.key)].candle)
  <1> DEFINE met == After(seq, s)
  <1>1. Proper(s) /\ (met # <<>> => met[Len(met)] = seq[Newest(seq, s.key)].candle)
    BY DEF SignalOk
  <1> HIDE DEF met
  <1>2. CASE met = <<>>
    <2>1. Advanced(s, <<>>) = OpenTrade(s)
      <3> DEFINE C == {s}
      <3>1. s \in C
        OBVIOUS
      <3> HIDE DEF C
      <3>2. <<>> \in Seq(C)
        OBVIOUS
      <3> QED
        BY <3>1, <3>2, AdvancedRule
    <2>2. OpenTrade(s).state # "OPEN"
      BY DEF OpenTrade
    <2> QED
      BY <1>2, <2>1, <2>2 DEF SimulatedOver, CloseAtEndOfData, met
  <1>3. CASE met # <<>>
    BY <1>1, <1>3 DEF SimulatedOver, met
  <1> QED
    BY <1>2, <1>3

LEMMA EndStep ==
    ASSUME Inv, EndOfData
    PROVE  Inv'
  <1> DEFINE after == [k \in 1..Len(pending) |->
                          CloseAtEndOfData(pending[k], LastCandle(pending[k].signal.key))]
             n == Len(signals)
             out == Outcomes(replayed, FALSE, signals)
             new == Outcomes(replayed, TRUE, signals)
  <1>1. /\ replayed' = replayed /\ signals' = signals /\ finished = FALSE /\ finished' = TRUE
        /\ pending' = InState(after, Live) /\ persisted' = persisted \o InState(after, {"CLOSED"})
    <2>1. finished \in BOOLEAN
      BY DEF Inv, RunnerInv
    <2> QED
      BY <2>1 DEF EndOfData
  <1>2. /\ replayed \in Seq(EntrySet) /\ signals \in Seq(SignalSet)
        /\ \A i \in 1..n : SignalOk(replayed, signals[i], i)
        /\ Lists(pending, n, out, Live) /\ Lists(persisted, n, out, {"CLOSED"})
    BY <1>1 DEF Inv, RunnerInv
  <1>3. OutcomesOk(out, signals) /\ OutcomesOk(new, signals)
    BY <1>2, OutcomesAreOk
  <1>4. ASSUME NEW i \in 1..n
        PROVE  new[i] = CloseAtEndOfData(out[i], LastCandle(signals[i].key))
    <2>1. out[i] = Advanced(signals[i], After(replayed, signals[i]))
      BY DEF Outcomes, Outcome
    <2>2. new[i] = SimulatedOver(signals[i], After(replayed, signals[i]))
      BY DEF Outcomes, Outcome
    <2>3. LastCandle(signals[i].key) = replayed[Newest(replayed, signals[i].key)].candle
      BY DEF LastCandle, Newest
    <2>4. SignalOk(replayed, signals[i], i)
      BY <1>2
    <2> DEFINE s == signals[i]
    <2> HIDE DEF s, out, new
    <2>5. SimulatedOver(s, After(replayed, s))
            = CloseAtEndOfData(Advanced(s, After(replayed, s)), replayed[Newest(replayed, s.key)].candle)
      BY <2>4, EndOfOutcome DEF s
    <2> QED
      BY <2>1, <2>2, <2>3, <2>5 DEF s
  <1>5. n \in Nat
    BY <1>2
  <1> HIDE DEF out, new
  <1>6. /\ pending \in Seq(TradeSet) /\ persisted \in Seq(TradeSet)
        /\ Among(pending, n, out) /\ Among(persisted, n, out)
        /\ \A k \in 1..Len(pending) : pending[k].state \in Live
        /\ \A k \in 1..Len(persisted) : persisted[k].state = "CLOSED"
        /\ \A i \in 1..n : out[i].state \in Live => Has(pending, i)
        /\ \A i \in 1..n : out[i].state = "CLOSED" => Has(persisted, i)
    BY <1>2 DEF Lists
  <1>7. ASSUME NEW k \in 1..Len(pending)
        PROVE  LET i == pending[k].signal.id
               IN  /\ i \in 1..n /\ after[k] = new[i] /\ out[i].state \in Live
                   /\ new[i] \in TradeSet /\ new[i].signal.id = i
    <2> DEFINE i == pending[k].signal.id
    <2>1. i \in 1..n /\ pending[k] = out[i] /\ out[i].state \in Live
      BY <1>6 DEF Among
    <2> HIDE DEF i
    <2>2. out[i].signal = signals[i] /\ new[i] \in TradeSet /\ new[i].signal.id = i
      BY <1>3, <2>1 DEF OutcomesOk
    <2>3. after[k] = CloseAtEndOfData(out[i], LastCandle(signals[i].key))
      BY <2>1, <2>2
    <2>4. after[k] = new[i]
      <3> HIDE DEF after
      <3> QED
        BY <1>4, <2>1, <2>3
    <2> QED
      BY <2>1, <2>2, <2>4 DEF i
  <1>8. after \in Seq(TradeSet) /\ Len(after) = Len(pending)
    <2>1. \A k \in 1..Len(pending) : after[k] \in TradeSet
      BY <1>7
    <2>2. Len(pending) \in Nat
      BY <1>6
    <2>3. after = [k \in 1..Len(pending) |-> after[k]]
      OBVIOUS
    <2> HIDE DEF after
    <2> QED
      BY <2>1, <2>2, <2>3
  <1> HIDE DEF after
  <1>9. ASSUME NEW k \in 1..Len(after)
        PROVE  /\ after[k].signal.id = pending[k].signal.id
               /\ after[k].signal.id \in 1..n /\ after[k] = new[after[k].signal.id]
               /\ out[after[k].signal.id].state \in Live
    BY <1>7, <1>8
  <1>10. Among(after, n, new)
    <2>1. ASSUME NEW j \in 1..Len(after), NEW k \in 1..Len(after),
                 after[j].signal.id = after[k].signal.id
          PROVE  j = k
      <3>1. j \in 1..Len(pending) /\ k \in 1..Len(pending)
        BY <1>8
      <3>2. pending[j].signal.id = pending[k].signal.id
        BY <1>9, <2>1
      <3> QED
        BY <1>6, <3>1, <3>2 DEF Among
    <2> QED
      BY <1>9, <2>1 DEF Among
  <1>11. ASSUME NEW i \in 1..n, out[i].state \notin Live
         PROVE  new[i] = out[i]
    <2>1. out[i].state # "OPEN"
      BY <1>11 DEF Live
    <2> QED
      BY <1>4, <2>1 DEF CloseAtEndOfData
  <1>12. Among(persisted, n, new)
    <2>1. ASSUME NEW k \in 1..Len(persisted)
          PROVE  /\ persisted[k].signal.id \in 1..n
                 /\ persisted[k] = new[persisted[k].signal.id]
      <3> DEFINE i == persisted[k].signal.id
      <3>1. i \in 1..n /\ persisted[k] = out[i] /\ out[i].state = "CLOSED"
        BY <1>6 DEF Among
      <3>2. new[i] = out[i]
        BY <1>11, <3>1 DEF Live
      <3> QED
        BY <3>1, <3>2
    <2> QED
      BY <1>6, <2>1 DEF Among
  <1>13. ASSUME NEW k \in 1..Len(persisted), Has(after, persisted[k].signal.id)
         PROVE  FALSE
    <2> DEFINE i == persisted[k].signal.id
    <2>1. i \in 1..n /\ out[i].state = "CLOSED"
      BY <1>6 DEF Among
    <2>2. PICK j \in 1..Len(after) : after[j].signal.id = i
      BY <1>13 DEF Has
    <2> HIDE DEF i
    <2> QED
      BY <1>9, <2>1, <2>2 DEF Live
  <1>14. ASSUME NEW i \in 1..n, new[i].state \in Live \cup {"CLOSED"}
         PROVE  Has(after, i) \/ Has(persisted, i)
    <2>1. CASE out[i].state \in Live
      <3>1. PICK k \in 1..Len(pending) : pending[k].signal.id = i
        BY <1>6, <2>1 DEF Has
      <3>2. k \in 1..Len(after) /\ after[k].signal.id = i
        BY <1>8, <1>9, <3>1
      <3> QED
        BY <3>2 DEF Has
    <2>2. CASE out[i].state \notin Live
      <3>1. new[i] = out[i]
        BY <1>11, <2>2
      <3>2. out[i].state = "CLOSED"
        BY <1>14, <2>2, <3>1
      <3> QED
        BY <1>6, <3>2
    <2> QED
      BY <2>1, <2>2
  <1>15. /\ Lists(InState(after, Live), n, new, Live)
         /\ Lists(persisted \o InState(after, {"CLOSED"}), n, new, {"CLOSED"})
    BY <1>5, <1>6, <1>8, <1>10, <1>12, <1>13, <1>14, Settled
  <1>16. RunnerInv(replayed, InState(after, Live), persisted \o InState(after, {"CLOSED"}),
                   signals, TRUE)
    BY <1>2, <1>15 DEF RunnerInv, new
  <1> QED
    BY <1>1, <1>16 DEF Inv

LEMMA RunnerInvariant == Spec => []Inv
  <1>1. Inv /\ [Next]_vars => Inv'
    <2> SUFFICES ASSUME Inv, [Next]_vars PROVE Inv'
      OBVIOUS
    <2>1. ASSUME NEW key \in Keys, NEW candle \in Candles, Replay(key, candle)
          PROVE  Inv'
      BY <2>1, ReplayStep
    <2>2. CASE EndOfData
      BY <2>2, EndStep
    <2>3. CASE UNCHANGED vars
      BY <2>3 DEF vars, Inv
    <2> QED
      BY <2>1, <2>2, <2>3 DEF Next
  <1> QED
    BY <1>1, InitHolds, PTL DEF Spec

-----------------------------------------------------------------------------
(* The properties *)

LEMMA FollowingIsAfter ==
    ASSUME NEW s
    PROVE  Following(s) = After(replayed, s) /\ Simulated(s) = SimulatedOver(s, After(replayed, s))
  <1>1. Following(s) = After(replayed, s)
    BY DEF Following, After
  <1> QED
    BY <1>1 DEF Simulated, SimulatedOver

\* Every trade is its signal's and was treated as its candles ask for.
LEMMA TradeIsFair ==
    ASSUME Inv, NEW t \in Trades
    PROVE  /\ Proper(t.signal) /\ Fair(t, t.signal, After(replayed, t.signal))
           /\ t \in Range(persisted) => t.state = "CLOSED"
           /\ \E i \in 1..Len(signals) : t.signal = signals[i]
  <1> DEFINE out == Outcomes(replayed, finished, signals)
  <1>1. /\ Lists(pending, Len(signals), out, Live) /\ Lists(persisted, Len(signals), out, {"CLOSED"})
        /\ \A i \in 1..Len(signals) : SignalOk(replayed, signals[i], i)
    BY DEF Inv, RunnerInv
  <1> HIDE DEF out
  <1>2. /\ \E i \in 1..Len(signals) : t = out[i]
        /\ t \in Range(persisted) => t.state = "CLOSED"
    <2>1. ASSUME t \in Range(persisted)
          PROVE  t.state = "CLOSED" /\ \E i \in 1..Len(signals) : t = out[i]
      <3>1. persisted \in Seq(TradeSet)
        BY <1>1 DEF Lists
      <3>2. PICK k \in 1..Len(persisted) : t = persisted[k]
        BY <2>1, <3>1 DEF Range
      <3> QED
        BY <1>1, <3>2 DEF Lists, Among
    <2>2. ASSUME t \in Range(pending)
          PROVE  \E i \in 1..Len(signals) : t = out[i]
      <3>1. pending \in Seq(TradeSet)
        BY <1>1 DEF Lists
      <3>2. PICK k \in 1..Len(pending) : t = pending[k]
        BY <2>2, <3>1 DEF Range
      <3> QED
        BY <1>1, <3>2 DEF Lists, Among
    <2> QED
      BY <2>1, <2>2 DEF Trades
  <1>3. PICK i \in 1..Len(signals) : t = out[i]
    BY <1>2
  <1> DEFINE s == signals[i]
             met == After(replayed, s)
  <1>4. SignalOk(replayed, s, i)
    BY <1>1
  <1>5. t = IF finished THEN SimulatedOver(s, met) ELSE Advanced(s, met)
    BY <1>3 DEF out, Outcomes, Outcome
  <1>6. Proper(s)
    BY <1>4 DEF SignalOk
  <1>7. /\ Good(Advanced(s, met), s, met) /\ Advanced(s, met).signal = s
        /\ Fair(SimulatedOver(s, met), s, met) /\ SimulatedOver(s, met).signal = s
    <2> HIDE DEF s
    <2> QED
      BY <1>4, OutcomeFacts
  <1> HIDE DEF s, met
  <1>8. Fair(t, s, met) /\ t.signal = s
    BY <1>5, <1>7, GoodIsFair
  <1> QED
    BY <1>2, <1>6, <1>8 DEF s, met

LEMMA MatchesSimulator ==
    ASSUME Inv
    PROVE  RunnerMatchesSimulator
  <1> SUFFICES ASSUME finished, NEW i \in 1..Len(signals)
               PROVE  LET rows == {k \in 1..Len(persisted) : persisted[k].signal.id = i}
                          alone == Simulated(signals[i])
                      IN  IF alone.state = "CLOSED"
                          THEN \E k \in rows : rows = {k} /\ persisted[k] = alone
                          ELSE rows = {}
    BY DEF RunnerMatchesSimulator
  <1> DEFINE rows == {k \in 1..Len(persisted) : persisted[k].signal.id = i}
             alone == Simulated(signals[i])
             out == Outcomes(replayed, finished, signals)
  <1>1. Lists(persisted, Len(signals), out, {"CLOSED"})
    BY DEF Inv, RunnerInv
  <1>2. out[i] = alone
    <2>1. out[i] = SimulatedOver(signals[i], After(replayed, signals[i]))
      BY DEF Outcomes, Outcome
    <2> QED
      BY <2>1, FollowingIsAfter
  <1> HIDE DEF out, alone
  <1>3. /\ \A k \in rows : persisted[k] = alone /\ alone.state = "CLOSED"
        /\ \A j, k \in rows : j = k
    BY <1>1, <1>2 DEF Lists, Among
  <1>4. alone.state = "CLOSED" => rows # {}
    BY <1>1, <1>2 DEF Lists, Has
  <1> HIDE DEF rows
  <1>5. IF alone.state = "CLOSED" THEN \E k \in rows : rows = {k} /\ persisted[k] = alone
        ELSE rows = {}
    <2>1. CASE alone.state = "CLOSED"
      <3>1. PICK k \in rows : TRUE
        BY <1>4, <2>1
      <3>2. rows = {k} /\ persisted[k] = alone
        BY <1>3, <3>1
      <3> QED
        BY <2>1, <3>2
    <2>2. CASE alone.state # "CLOSED"
      BY <1>3, <2>2
    <2> QED
      BY <2>1, <2>2
  <1> QED
    BY <1>5 DEF rows, alone

LEMMA MatchesFills ==
    ASSUME Inv
    PROVE  GrossMatchesFills
  <1>1. ASSUME NEW t \in Range(persisted)
        PROVE  t.since_entry # 0 /\
               LET s == t.signal
                   payment == [l \in LegNumbers |-> (TargetPrice(s, l) - s.reference) * Legs[l].size]
                   paid == SumFunctionOnSet(payment, Filled(t))
                   sold == SumFunctionOnSet(Sizes, Filled(t))
               IN  GrossR(t) = Sign(s) * RUnit * (paid + (t.exit - s.reference) * (100 - sold))
    <2> DEFINE s == t.signal
    <2>1. Proper(s) /\ Fair(t, s, After(replayed, s)) /\ t.state = "CLOSED"
      <3>1. t \in Trades
        BY DEF Trades
      <3> QED
        BY <3>1, TradeIsFair
    <2> HIDE DEF s
    <2>2. t.since_entry # 0
      <3>1. t.since_entry > 0
        BY <2>1 DEF Fair
      <3> QED
        BY <3>1
    <2>3. LET payment == [l \in LegNumbers |-> (TargetPrice(s, l) - s.reference) * Legs[l].size]
              paid == SumFunctionOnSet(payment, Filled(t))
              sold == SumFunctionOnSet(Sizes, Filled(t))
          IN  GrossR(t) = Sign(s) * RUnit * (paid + (t.exit - s.reference) * (100 - sold))
      BY <2>1, GrossIsPaid
    <2> QED
      BY <2>2, <2>3 DEF s
  <1> QED
    BY <1>1 DEF GrossMatchesFills

LEMMA FillsArePessimistic ==
    ASSUME Inv, LegsDiffer
    PROVE  PessimisticFills
  <1>1. ASSUME NEW t \in Trades
        PROVE  /\ \A l \in LegNumbers :
                     t.fills[l] # 0 =>
                         Sign(t.signal) * Worst(t.signal, BarSinceEntry(t, t.fills[l]))
                            > Sign(t.signal) * StopBefore(t, t.fills[l])
               /\ t.reason \in {"SL", "STOP_AFTER_PARTIAL_TP"} =>
                     /\ t.exit = StopBefore(t, t.since_entry)
                     /\ Sign(t.signal) * Worst(t.signal, BarSinceEntry(t, t.since_entry))
                           <= Sign(t.signal) * t.exit
    <2> DEFINE s == t.signal
               met == After(replayed, s)
    <2>1. Pessimist(t, s, met)
      <3>1. Fair(t, s, met)
        BY TradeIsFair
      <3> QED
        BY <3>1 DEF Fair
    <2>2. \A k : BarSinceEntry(t, k) = BarOf(t, met, k)
      BY FollowingIsAfter DEF BarSinceEntry, BarOf
    <2> HIDE DEF met
    <2> QED
      BY <2>1, <2>2 DEF Pessimist, Stopped
  <1> QED
    BY <1>1 DEF PessimisticFills

\* The candles after any candle of a replay.
LEMMA AfterIsTyped ==
    ASSUME NEW s, s.index \in Nat
    PROVE  \A seq \in Seq(EntrySet) : s.index <= Len(seq) => After(seq, s) \in Seq(Candles)
  <1> DEFINE P == {n \in Nat : \A seq \in Seq(EntrySet) :
                      Len(seq) = n /\ s.index <= n => After(seq, s) \in Seq(Candles)}
  <1>1. ASSUME NEW seq \in Seq(EntrySet), NEW e \in EntrySet, s.index = Len(seq)
        PROVE  After(seq, s) \in Seq(Candles)
    <2>1. After(seq, s) = <<>>
      <3>1. Len(seq) \in Nat /\ s.index <= Len(seq)
        BY <1>1
      <3> QED
        BY <1>1, <3>1, AfterRule
    <2> QED
      BY <2>1
  <1>2. 0 \in P
    <2>1. ASSUME NEW seq \in Seq(EntrySet), Len(seq) = 0, s.index <= 0
          PROVE  After(seq, s) \in Seq(Candles)
      <3>1. s.index = Len(seq) /\ Len(seq) \in Nat
        BY <2>1
      <3>2. After(seq, s) = <<>>
        <4>1. PICK g : IsAfter(g, seq, s) /\ After(seq, s) = g[Len(seq)]
          BY <3>1, AfterUnfolds
        <4> QED
          BY <3>1, <4>1, AfterUses
      <3> QED
        BY <3>2
    <2> QED
      BY <2>1
  <1>3. ASSUME NEW n \in Nat, n \in P
        PROVE  n + 1 \in P
    <2>1. ASSUME NEW seq \in Seq(EntrySet), Len(seq) = n + 1, s.index <= n + 1
          PROVE  After(seq, s) \in Seq(Candles)
      <3> DEFINE e == seq[n + 1]
                 cs == [k \in 1..n |-> seq[k]]
      <3>1. e \in EntrySet
        <4>1. n + 1 \in 1..Len(seq)
          BY <2>1
        <4> QED
          BY <4>1, ElementOfSeq
      <3>2. cs \in Seq(EntrySet) /\ Len(cs) = n
        <4>1. \A k \in 1..n : seq[k] \in EntrySet
          <5>1. \A k \in 1..n : k \in 1..Len(seq)
            BY <2>1
          <5> QED
            BY <5>1, ElementOfSeq
        <4> QED
          BY <4>1
      <3>3. seq = Append(cs, e)
        BY <2>1
      <3>4. CASE s.index = n + 1
        BY <1>1, <2>1, <3>1, <3>4
      <3>5. CASE s.index # n + 1
        <4>1. s.index <= n
          BY <2>1, <3>5
        <4> HIDE DEF cs, e
        <4>2. After(cs, s) \in Seq(Candles)
          BY <1>3, <3>2, <4>1
        <4>3. After(seq, s) = IF e.key = s.key THEN Append(After(cs, s), e.candle) ELSE After(cs, s)
          <5>1. s.index <= Len(cs)
            BY <3>2, <4>1
          <5>2. cs \in Seq(EntrySet)
            BY <3>2
          <5>3. After(Append(cs, e), s)
                  = IF e.key = s.key THEN Append(After(cs, s), e.candle) ELSE After(cs, s)
            BY <3>1, <5>1, <5>2, AfterRule
          <5> QED
            BY <3>3, <5>3
        <4>4. e.candle \in Candles
          BY <3>1 DEF EntrySet
        <4> DEFINE met == After(cs, s)
                   c == e.candle
        <4>5. met \in Seq(Candles) /\ c \in Candles
          BY <4>2, <4>4
        <4> HIDE DEF met, c
        <4>6. Append(met, c) \in Seq(Candles)
          BY <4>5
        <4> QED
          BY <4>3, <4>5, <4>6 DEF met, c
      <3> QED
        BY <3>4, <3>5
    <2> QED
      BY <2>1
  <1>4. ASSUME NEW seq \in Seq(EntrySet), s.index <= Len(seq)
        PROVE  After(seq, s) \in Seq(Candles)
    <2>1. Len(seq) \in Nat
      OBVIOUS
    <2>2. Len(seq) \in P
      <3> HIDE DEF P
      <3> QED
        BY <1>2, <1>3, <2>1, Induction
    <2> QED
      BY <1>4, <2>2
  <1> QED
    BY <1>4

\* A random entry has its template's risk, and is as good a signal.
LEMMA CandidateIsProper ==
    ASSUME Inv, NEW c \in RandomCandidates
    PROVE  /\ Proper(c) /\ c.index \in Nat /\ c.index <= Len(replayed)
           /\ \E i \in 1..Len(signals) : Risk(c) = Risk(signals[i])
  <1>1. /\ replayed \in Seq(EntrySet) /\ signals \in Seq(SignalSet)
        /\ \A i \in 1..Len(signals) : SignalOk(replayed, signals[i], i)
    BY DEF Inv, RunnerInv
  <1>2. signals # <<>> /\ \E i \in PrimaryIndexes : c = RandomCandidate(Template(i), i)
    BY DEF RandomCandidates
  <1>3. PICK i \in PrimaryIndexes : c = RandomCandidate(Template(i), i)
    BY <1>2
  <1>4. i \in 1..Len(replayed) /\ Len(replayed) \in Nat
    BY <1>1 DEF PrimaryIndexes
  <1>5. \E j \in 1..Len(signals) : Template(i) = signals[j]
    <2> DEFINE r == Cardinality(PrimaryIndexes \cap (1..i))
    <2>1. r \in Nat
      <3>1. IsFiniteSet(1..i)
        BY <1>4, FS_Interval
      <3>2. IsFiniteSet(PrimaryIndexes \cap (1..i))
        BY <3>1, FS_Subset
      <3> QED
        BY <3>2, FS_CardinalityType
    <2>2. Len(signals) \in Nat /\ Len(signals) > 0
      BY <1>1, <1>2
    <2>3. Template(i) = signals[((r - 1) % Len(signals)) + 1]
      BY DEF Template
    <2> HIDE DEF r
    <2>4. ((r - 1) % Len(signals)) + 1 \in 1..Len(signals)
      BY <2>1, <2>2
    <2> QED
      BY <2>3, <2>4
  <1>6. PICK j \in 1..Len(signals) : Template(i) = signals[j]
    BY <1>5
  <1> DEFINE p == signals[j]
             close == replayed[i].candle.close
  <1>7. Proper(p)
    BY <1>1 DEF SignalOk
  <1>8. replayed[i].key \in Keys /\ close \in Int
    <2>1. replayed[i] \in EntrySet
      BY <1>1, <1>4, ElementOfSeq
    <2> QED
      BY <2>1, DataAssumption DEF EntrySet
  <1>9. c = RandomCandidate(p, i)
    BY <1>3, <1>6
  <1> HIDE DEF p
  <1>10. /\ c.direction = p.direction /\ c.reference = close /\ c.stop = close - Sign(p) * Risk(p)
         /\ c.index = i
    BY <1>9 DEF RandomCandidate
  <1>11. /\ p.direction \in {"BULLISH", "BEARISH"} /\ p.low \in Int /\ p.high \in Int
         /\ p.reference \in Int
    BY <1>7 DEF Proper, SignalSet
  <1>12. Risk(p) \in Int /\ Sign(p) * Risk(p) \in Int /\ Sign(p) * (Sign(p) * Risk(p)) = Risk(p)
    <2>1. Directed(p)
      BY <1>11 DEF Directed
    <2>2. Risk(p) \in Int
      BY <1>7, PriceFacts
    <2> QED
      BY <2>1, <2>2, SignFacts
  <1>13. Risk(c) = Risk(p)
    <2>1. Sign(c) = Sign(p)
      BY <1>10 DEF Sign
    <2> DEFINE d == Sign(p) * Risk(p)
    <2>2. d \in Int
      BY <1>12
    <2>3. c.reference - c.stop = d
      <3> HIDE DEF d
      <3>1. c.stop = close - d
        BY <1>10 DEF d
      <3> QED
        BY <1>8, <1>10, <2>2, <3>1
    <2>4. Sign(p) * d = Risk(p)
      BY <1>12
    <2> HIDE DEF d
    <2> QED
      BY <2>1, <2>3, <2>4 DEF Risk
  <1>14. c \in SignalSet
    <2> DEFINE d == Sign(p) * Risk(p)
               x == close
               k == replayed[i].key
    <2>1. d \in Int /\ x \in Int /\ k \in Keys /\ i \in Nat
      BY <1>4, <1>8, <1>12
    <2>2. c = [direction |-> p.direction, low |-> x - (p.reference - p.low),
               high |-> x + (p.high - p.reference), reference |-> x,
               stop |-> x - d, key |-> k, index |-> i, id |-> 0]
      BY <1>9 DEF RandomCandidate
    <2> HIDE DEF d, x, k
    <2>3. x - (p.reference - p.low) \in Int /\ x + (p.high - p.reference) \in Int /\ x - d \in Int
      <3>1. p.low \in Int /\ p.high \in Int /\ p.reference \in Int
        BY <1>11
      <3> QED
        BY <2>1, <3>1
    <2> QED
      BY <1>11, <2>1, <2>2, <2>3 DEF SignalSet
  <1>15. Proper(c)
    BY <1>7, <1>13, <1>14 DEF Proper
  <1>16. Risk(c) = Risk(signals[j])
    BY <1>13 DEF p
  <1> QED
    BY <1>4, <1>10, <1>15, <1>16

LEMMA LossBounded ==
    ASSUME Inv, BreakevenKeepsStop
    PROVE  LossIsBounded
  <1>1. ASSUME NEW t \in Range(persisted)
        PROVE  GrossR(t) >= -(100 * RUnit * Risk(t.signal))
    <2> DEFINE s == t.signal
    <2>1. Proper(s) /\ Fair(t, s, After(replayed, s)) /\ t.state = "CLOSED"
      <3>1. t \in Trades
        BY DEF Trades
      <3> QED
        BY <3>1, TradeIsFair
    <2> HIDE DEF s
    <2>2. GrossR(t) >= -(100 * RUnit * Risk(s))
      BY <2>1, GrossIsBounded
    <2> QED
      BY <2>2 DEF s
  <1>2. ASSUME NEW c \in RandomCandidates
        PROVE  LET t == Simulated(c)
               IN  /\ \E i \in 1..Len(signals) : Risk(c) = Risk(signals[i])
                   /\ t.state = "CLOSED" => GrossR(t) >= -(100 * RUnit * Risk(c))
    <2> DEFINE t == Simulated(c)
               met == After(replayed, c)
    <2>1. /\ Proper(c) /\ c.index \in Nat /\ c.index <= Len(replayed)
          /\ \E i \in 1..Len(signals) : Risk(c) = Risk(signals[i])
      BY CandidateIsProper
    <2>2. replayed \in Seq(EntrySet)
      BY DEF Inv, RunnerInv
    <2>3. met \in Seq(Candles)
      BY <2>1, <2>2, AfterIsTyped
    <2>4. t = SimulatedOver(c, met)
      BY FollowingIsAfter
    <2> HIDE DEF met, t
    <2>5. ASSUME t.state = "CLOSED"
          PROVE  GrossR(t) >= -(100 * RUnit * Risk(c))
      <3>1. met # <<>>
        BY <2>4, <2>5 DEF SimulatedOver, OpenTrade
      <3>2. met[Len(met)] \in Candles
        <4>1. Len(met) \in 1..Len(met)
          BY <2>3, <3>1
        <4> QED
          BY <2>3, <4>1, ElementOfSeq
      <3>3. Good(Advanced(c, met), c, met)
        BY <2>1, <2>3, AdvancedIsGood
      <3>4. Fair(t, c, met)
        <4>1. t = CloseAtEndOfData(Advanced(c, met), met[Len(met)])
          BY <2>4, <3>1 DEF SimulatedOver
        <4> QED
          BY <2>1, <3>2, <3>3, <4>1, EndIsFair
      <3> QED
        BY <2>1, <2>5, <3>4, GrossIsBounded
    <2> QED
      BY <2>1, <2>5 DEF t
  <1> QED
    BY <1>1, <1>2 DEF LossIsBounded

-----------------------------------------------------------------------------

\* HistoricalBacktestRunner.run and CanonicalTradeSimulator.simulate agree on
\* every signal, however the candles of the pairs are interleaved.
THEOREM RunnerIsTheSimulator == Spec => []RunnerMatchesSimulator
  BY RunnerInvariant, MatchesSimulator, PTL

\* A stored trade earned what its fills paid for: gross_r of exits.py.
THEOREM GrossIsWhatFillsPaid == Spec => []GrossMatchesFills
  BY RunnerInvariant, MatchesFills, PTL

\* With legs that differ, ExitPolicyEngine treats a candle that reached both the
\* stop and a target as a stop, against the stop in force when it opened.
THEOREM StopComesFirst ==
    ASSUME LegsDiffer
    PROVE  Spec => []PessimisticFills
  BY RunnerInvariant, FillsArePessimistic, PTL

\* With a breakeven offset of at least -1 R, no trade of a replay and no random
\* entry loses more than the R it risked.
THEOREM LossStaysWithinRisk ==
    ASSUME BreakevenKeepsStop
    PROVE  Spec => []LossIsBounded
  BY RunnerInvariant, LossBounded, PTL

-----------------------------------------------------------------------------
(* The states of ResearchFigures *)

Trade == [gross : Int, risk : Nat \ {0}, stopped : BOOLEAN, boundaries : Nat, executed : BOOLEAN]
ReportSet ==
    [smokeTest : BOOLEAN, status : STRING, trades : Optional, tradeCount : Optional,
     expectancy : Optional, baseline : Optional, drawdown : Optional, ratio : Optional,
     inSample : Optional, outSample : Optional, symbols : Optional, symbolCount : Optional]

\* The types, and no more replays than windows.
FiguresTyped ==
    /\ firstDate \in Starts /\ months \in Nat /\ costs \in CostSettings
    /\ market \in Markets /\ replays \in Seq(SUBSET market)
    /\ Len(replays) <= Len(Windows)
    /\ closed \in Seq(ClosedTrades)
    /\ orderings \in Seq(Bijection(DOMAIN closed, DOMAIN closed))
    /\ report \in ReportSet

\* The windows are finitely many: those of the cursor's first positions.
LEMMA WindowsAre ==
    ASSUME NEW start, NEW end
    PROVE  \E n \in Nat : RollingWindows(start, end) = [k \in 1..n |-> Window(Cursor(start)[k])]
  <1> DEFINE cursor == Cursor(start)
             fits(k) == ~Precedes(end, AddMonths(cursor[k], InSampleMonths + OutSampleMonths))
             fitting == {k \in 1..WindowBound : \A j \in 1..k : fits(j)}
  <1>1. RollingWindows(start, end) = [k \in 1..Cardinality(fitting) |-> Window(cursor[k])]
    BY DEF RollingWindows
  <1>2. IsFiniteSet(1..WindowBound)
    <2>1. 1 \in Int /\ WindowBound \in Int
      BY CalendarAssumption
    <2> HIDE DEF fits, fitting, cursor
    <2> QED
      BY <2>1, FS_Interval
  <1>3. Cardinality(fitting) \in Nat
    <2>1. fitting \in SUBSET (1..WindowBound)
      OBVIOUS
    <2> HIDE DEF fitting
    <2> QED
      BY <1>2, <2>1, FS_Subset, FS_CardinalityType
  <1> HIDE DEF fitting
  <1> QED
    BY <1>1, <1>3

LEMMA WindowsCounted == ASSUME NEW start, NEW end PROVE Len(RollingWindows(start, end)) \in Nat
  <1>1. PICK n \in Nat : RollingWindows(start, end) = [k \in 1..n |-> Window(Cursor(start)[k])]
    BY WindowsAre
  <1> QED
    BY <1>1

LEMMA Improved ==
    ASSUME NEW field \in Optional
    PROVE  More(field) \in Optional /\ Less(field) \in Optional
  <1>1. CASE field = {}
    BY <1>1 DEF More, Less, Optional
  <1>2. CASE field # {}
    <2>1. PICK x \in Int : field = {x}
      BY <1>2 DEF Optional
    <2>2. More(field) = {x + 1} /\ Less(field) = {x - 1}
      BY <2>1 DEF More, Less
    <2> QED
      BY <2>2 DEF Optional
  <1> QED
    BY <1>1, <1>2

\* The report only changes in one of nine ways.
Betters(r) == {[r EXCEPT !.trades = More(@)], [r EXCEPT !.tradeCount = More(@)],
               [r EXCEPT !.expectancy = More(@)], [r EXCEPT !.outSample = More(@)],
               [r EXCEPT !.baseline = More(@)], [r EXCEPT !.symbols = More(@)],
               [r EXCEPT !.symbolCount = More(@)], [r EXCEPT !.drawdown = Less(@)],
               [r EXCEPT !.ratio = Less(@)]}

LEMMA BetterIsReport ==
    ASSUME NEW r \in ReportSet, NEW b \in Betters(r)
    PROVE  b \in ReportSet
  <1>1. \A field \in Optional : More(field) \in Optional /\ Less(field) \in Optional
    BY Improved
  <1> QED
    BY <1>1 DEF ReportSet, Betters

LEMMA FiguresInitTyped == FiguresInit => FiguresTyped
  <1> SUFFICES ASSUME FiguresInit PROVE FiguresTyped
    OBVIOUS
  <1>1. closed \in Seq(ClosedTrades) /\ orderings \in Seq(Bijection(DOMAIN closed, DOMAIN closed))
    BY DEF FiguresInit
  <1>2. report \in ReportSet
    BY GateAssumption DEF FiguresInit, ReportSet
  <1>3. replays \in Seq(SUBSET market) /\ Len(replays) = 0
    BY DEF FiguresInit
  <1>4. Len(Windows) \in Nat
    BY WindowsCounted DEF Windows
  <1>5. Len(replays) <= Len(Windows)
    BY <1>3, <1>4
  <1> QED
    BY <1>1, <1>2, <1>3, <1>5 DEF FiguresInit, FiguresTyped

LEMMA FiguresStepTyped == FiguresTyped /\ [FiguresNext]_figures => FiguresTyped'
  <1> SUFFICES ASSUME FiguresTyped, [FiguresNext]_figures PROVE FiguresTyped'
    OBVIOUS
  <1>0. ASSUME UNCHANGED <<firstDate, months>> PROVE Windows' = Windows
    BY <1>0 DEF Windows, End
  <1>1. CASE Extend
    <2>1. replays = <<>> /\ UNCHANGED <<firstDate, market, replays, costs, closed, orderings, report>>
          /\ months' = months + 1
      BY <1>1 DEF Extend
    <2>2. Len(Windows') \in Nat
      BY WindowsCounted DEF Windows
    <2>3. Len(replays') <= Len(Windows')
      BY <2>1, <2>2
    <2> QED
      BY <2>1, <2>3 DEF FiguresTyped
  <1>2. CASE ReplayWindow
    <2>1. PICK found \in SUBSET market : replays' = Append(replays, found)
      BY <1>2 DEF ReplayWindow
    <2>2. Len(replays) < Len(Windows) /\ UNCHANGED <<firstDate, months, market, costs, closed, orderings, report>>
      BY <1>2 DEF ReplayWindow
    <2>3. replays \in Seq(SUBSET market)
      BY DEF FiguresTyped
    <2>4. replays' \in Seq(SUBSET market) /\ Len(replays') = Len(replays) + 1 /\ Len(replays) \in Nat
      BY <2>1, <2>3
    <2>5. Len(Windows) \in Nat
      BY WindowsCounted DEF Windows
    <2>6. Len(replays') <= Len(Windows')
      BY <1>0, <2>2, <2>4, <2>5
    <2> QED
      BY <2>2, <2>4, <2>6 DEF FiguresTyped
  <1>3. ASSUME NEW trade \in ClosedTrades, FinishTrade(trade)
        PROVE  FiguresTyped'
    <2>1. closed' \in Seq(ClosedTrades)
      BY <1>3 DEF FinishTrade, FiguresTyped
    <2>2. orderings' = <<>>
      BY <1>3 DEF FinishTrade
    <2>3. <<>> \in Seq(Bijection(DOMAIN closed', DOMAIN closed'))
      OBVIOUS
    <2>4. UNCHANGED <<firstDate, months, market, replays, costs, report>>
      BY <1>3 DEF FinishTrade
    <2> QED
      BY <1>0, <2>1, <2>2, <2>3, <2>4 DEF FiguresTyped
  <1>4. CASE Shuffle
    <2> DEFINE B == Bijection(DOMAIN closed, DOMAIN closed)
    <2>1. PICK ordering \in B : orderings' = Append(orderings, ordering)
      BY <1>4 DEF Shuffle
    <2>2. orderings \in Seq(B)
      BY DEF FiguresTyped
    <2> HIDE DEF B
    <2>3. orderings' \in Seq(B)
      BY <2>1, <2>2
    <2> USE DEF B
    <2>4. UNCHANGED <<firstDate, months, market, replays, costs, closed, report>>
      BY <1>4 DEF Shuffle
    <2> QED
      BY <1>0, <2>3, <2>4 DEF FiguresTyped
  <1>5. CASE Improve
    <2>1. report' \in Betters(report)
      BY <1>5 DEF Improve, Betters
    <2>2. report' \in ReportSet
      BY <2>1, BetterIsReport DEF FiguresTyped
    <2>3. UNCHANGED <<firstDate, months, market, replays, costs, closed, orderings>>
      BY <1>5 DEF Improve
    <2> QED
      BY <1>0, <2>2, <2>3 DEF FiguresTyped
  <1>6. CASE UNCHANGED figures
    BY <1>0, <1>6 DEF figures, FiguresTyped
  <1> QED
    BY <1>1, <1>2, <1>3, <1>4, <1>5, <1>6 DEF FiguresNext

LEMMA FiguresAreTyped == FiguresSpec => []FiguresTyped
  BY FiguresInitTyped, FiguresStepTyped, PTL DEF FiguresSpec

-----------------------------------------------------------------------------
(* The go-live gate *)

\* What the criteria other than the ratio ask for.
FitsOthers(r) ==
    /\ ~r.smokeTest
    /\ r.status \in {"VALIDATED", "COMPLETE"}
    /\ ~(OrZero(Reported(r.trades, r.tradeCount)) < GateSettings.trades)
    /\ ~(OrZero(r.expectancy) < GateSettings.expectancy)
    /\ ~(OrZero(r.baseline) < GateSettings.baseline)
    /\ ~(OrZero(r.drawdown) > GateSettings.drawdown)
    /\ \E x \in Reported(r.symbols, r.symbolCount) : x >= GateSettings.symbols

LEMMA FailuresAre ==
    ASSUME NEW r
    PROVE  /\ Passes(r) <=> FitsOthers(r) /\ ~RatioFails(r)
           /\ FitsOthers(r) /\ RatioFails(r) => Failures(r) = {"ratio"}
  <1> DEFINE Criteria == {"scope", "status", "trades", "expectancy", "baseline", "drawdown",
                          "ratio", "symbols"}
  <1>1. /\ "scope" \in Failures(r) <=> r.smokeTest
        /\ "status" \in Failures(r) <=> r.status \notin {"VALIDATED", "COMPLETE"}
        /\ "trades" \in Failures(r)
              <=> OrZero(Reported(r.trades, r.tradeCount)) < GateSettings.trades
        /\ "expectancy" \in Failures(r) <=> OrZero(r.expectancy) < GateSettings.expectancy
    BY DEF Failures
  <1>2. /\ "baseline" \in Failures(r) <=> OrZero(r.baseline) < GateSettings.baseline
        /\ "drawdown" \in Failures(r) <=> OrZero(r.drawdown) > GateSettings.drawdown
        /\ "ratio" \in Failures(r) <=> RatioFails(r)
        /\ "symbols" \in Failures(r)
              <=> ~\E x \in Reported(r.symbols, r.symbolCount) : x >= GateSettings.symbols
    BY DEF Failures
  <1>3. Failures(r) \subseteq Criteria
    BY DEF Failures
  <1>4. FitsOthers(r) <=> \A c \in Criteria \ {"ratio"} : c \notin Failures(r)
    BY <1>1, <1>2 DEF FitsOthers
  <1>5. "ratio" \in Failures(r) <=> RatioFails(r)
    BY <1>2
  <1>6. "ratio" \in Criteria
    OBVIOUS
  <1> HIDE DEF Criteria
  <1> QED
    BY <1>3, <1>4, <1>5, <1>6 DEF Passes

\* A field after a step that may improve it.
Raised(field) == {field, More(field)}
Lowered(field) == {field, Less(field)}

NoWorse(r, b) ==
    /\ b.smokeTest = r.smokeTest /\ b.status = r.status /\ b.inSample = r.inSample
    /\ b.trades \in Raised(r.trades) /\ b.tradeCount \in Raised(r.tradeCount)
    /\ b.expectancy \in Raised(r.expectancy) /\ b.outSample \in Raised(r.outSample)
    /\ b.baseline \in Raised(r.baseline) /\ b.symbols \in Raised(r.symbols)
    /\ b.symbolCount \in Raised(r.symbolCount)
    /\ b.drawdown \in Lowered(r.drawdown) /\ b.ratio \in Lowered(r.ratio)

LEMMA BetterIsNoWorse ==
    ASSUME NEW r \in ReportSet, NEW b \in Betters(r)
    PROVE  NoWorse(r, b)
  BY DEF ReportSet, Betters, NoWorse, Raised, Lowered

LEMMA ValuesOf ==
    ASSUME NEW field \in Optional
    PROVE  \/ field = {} /\ OrZero(field) = 0 /\ More(field) = {} /\ Less(field) = {}
           \/ \E x \in Int : /\ field = {x} /\ OrZero(field) = x
                             /\ More(field) = {x + 1} /\ Less(field) = {x - 1}
  <1>1. CASE field = {}
    BY <1>1 DEF OrZero, More, Less
  <1>2. CASE field # {}
    <2>1. PICK x \in Int : field = {x}
      BY <1>2 DEF Optional
    <2>2. OrZero(field) = x /\ More(field) = {x + 1} /\ Less(field) = {x - 1}
      BY <2>1 DEF OrZero, More, Less
    <2> QED
      BY <2>1, <2>2
  <1> QED
    BY <1>1, <1>2

LEMMA FieldImproves ==
    ASSUME NEW field \in Optional
    PROVE  /\ OrZero(field) \in Int
           /\ \A more \in Raised(field) :
                 /\ OrZero(more) \in Int /\ OrZero(more) >= OrZero(field)
                 /\ \A n \in Int : (\E x \in field : x >= n) => \E x \in more : x >= n
           /\ \A less \in Lowered(field) : OrZero(less) \in Int /\ OrZero(less) <= OrZero(field)
  <1>0. \A x \in Int : OrZero({x}) = x
    BY DEF OrZero
  <1>1. CASE field = {}
    <2>1. OrZero(field) = 0 /\ More(field) = field /\ Less(field) = field
      BY <1>1 DEF OrZero, More, Less
    <2> QED
      BY <1>1, <2>1 DEF Raised, Lowered
  <1>2. CASE field # {}
    <2>1. PICK x \in Int : /\ field = {x} /\ OrZero(field) = x
                           /\ More(field) = {x + 1} /\ Less(field) = {x - 1}
      BY <1>2, ValuesOf
    <2>2. OrZero({x + 1}) = x + 1 /\ OrZero({x - 1}) = x - 1
      BY <1>0
    <2>3. OrZero(field) = x /\ OrZero(More(field)) = x + 1 /\ OrZero(Less(field)) = x - 1
      BY <2>1, <2>2
    <2>4. \A n \in Int : (\E y \in field : y >= n) => \E y \in More(field) : y >= n
      <3>1. field = {x} /\ More(field) = {x + 1}
        BY <2>1
      <3> QED
        BY <3>1
    <2> QED
      BY <2>3, <2>4 DEF Raised, Lowered
  <1> QED
    BY <1>1, <1>2

\* Of a figure and the one it falls back on, the same is looked at afterwards.
LEMMA ReportedImproves ==
    ASSUME NEW field \in Optional, NEW other \in Optional,
           NEW f \in Raised(field), NEW o \in Raised(other)
    PROVE  /\ Reported(field, other) \in Optional
           /\ Reported(f, o) \in Raised(Reported(field, other))
  <1>1. f = {} <=> field = {}
    BY DEF Raised, More
  <1> QED
    BY <1>1 DEF Reported, Raised

LEMMA OthersStillFit ==
    ASSUME NEW r \in ReportSet, NEW b, NoWorse(r, b), FitsOthers(r)
    PROVE  FitsOthers(b)
  <1>0. GateSettings.trades \in Int /\ GateSettings.expectancy \in Int
        /\ GateSettings.baseline \in Int /\ GateSettings.drawdown \in Int
        /\ GateSettings.symbols \in Int
    BY GateAssumption
  <1>1. /\ r.trades \in Optional /\ r.tradeCount \in Optional /\ r.expectancy \in Optional
        /\ r.baseline \in Optional /\ r.drawdown \in Optional
        /\ r.symbols \in Optional /\ r.symbolCount \in Optional
    BY DEF ReportSet
  <1>2. ~(OrZero(Reported(b.trades, b.tradeCount)) < GateSettings.trades)
    <2> DEFINE was == Reported(r.trades, r.tradeCount)
               is  == Reported(b.trades, b.tradeCount)
    <2>1. was \in Optional /\ is \in Raised(was)
      BY <1>1, ReportedImproves DEF NoWorse
    <2>2. ~(OrZero(was) < GateSettings.trades)
      BY DEF FitsOthers
    <2> HIDE DEF was, is
    <2>3. OrZero(was) \in Int /\ OrZero(is) \in Int /\ OrZero(is) >= OrZero(was)
      BY <2>1, FieldImproves
    <2>4. ~(OrZero(is) < GateSettings.trades)
      BY <1>0, <2>2, <2>3
    <2> QED
      BY <2>4 DEF is
  <1>3. \E x \in Reported(b.symbols, b.symbolCount) : x >= GateSettings.symbols
    <2> DEFINE was == Reported(r.symbols, r.symbolCount)
               is  == Reported(b.symbols, b.symbolCount)
    <2>1. was \in Optional /\ is \in Raised(was)
      BY <1>1, ReportedImproves DEF NoWorse
    <2>2. \E x \in was : x >= GateSettings.symbols
      BY DEF FitsOthers
    <2> HIDE DEF was, is
    <2>3. \E x \in is : x >= GateSettings.symbols
      BY <1>0, <2>1, <2>2, FieldImproves
    <2> QED
      BY <2>3 DEF is
  <1>4. ~(OrZero(b.expectancy) < GateSettings.expectancy)
    <2>1. OrZero(r.expectancy) \in Int /\ OrZero(b.expectancy) \in Int
          /\ OrZero(b.expectancy) >= OrZero(r.expectancy)
      BY <1>1, FieldImproves DEF NoWorse
    <2>2. ~(OrZero(r.expectancy) < GateSettings.expectancy)
      BY DEF FitsOthers
    <2> QED
      BY <1>0, <2>1, <2>2
  <1>5. ~(OrZero(b.baseline) < GateSettings.baseline)
    <2>1. OrZero(r.baseline) \in Int /\ OrZero(b.baseline) \in Int
          /\ OrZero(b.baseline) >= OrZero(r.baseline)
      BY <1>1, FieldImproves DEF NoWorse
    <2>2. ~(OrZero(r.baseline) < GateSettings.baseline)
      BY DEF FitsOthers
    <2> QED
      BY <1>0, <2>1, <2>2
  <1>6. ~(OrZero(b.drawdown) > GateSettings.drawdown)
    <2>1. OrZero(r.drawdown) \in Int /\ OrZero(b.drawdown) \in Int
          /\ OrZero(b.drawdown) <= OrZero(r.drawdown)
      BY <1>1, FieldImproves DEF NoWorse
    <2>2. ~(OrZero(r.drawdown) > GateSettings.drawdown)
      BY DEF FitsOthers
    <2> QED
      BY <1>0, <2>1, <2>2
  <1>7. ~b.smokeTest /\ b.status \in {"VALIDATED", "COMPLETE"}
    BY DEF FitsOthers, NoWorse
  <1> QED
    BY <1>2, <1>3, <1>4, <1>5, <1>6, <1>7 DEF FitsOthers

\* A profit out of sample that grows keeps the ratio low: a ratio that some
\* profit satisfies is not negative, and the denominator only grows.
LEMMA ProfitKeepsRatio ==
    ASSUME NEW i \in Int, NEW o \in Int, o > 0, ~Overfitted(i, o)
    PROVE  ~Overfitted(i, o + 1)
  <1>0. GateSettings.ratio \in Int
    BY GateAssumption
  <1>1. Size(o) = o /\ Size(o + 1) = o + 1 /\ Size(i) \in Int /\ Size(i) >= 0
    BY DEF Size
  <1>2. Size(i) <= GateSettings.ratio * o
    BY <1>0, <1>1 DEF Overfitted
  <1>3. \A p, q, s \in Int : q > 0 /\ s >= 0 /\ s <= p * q => s <= p * (q + 1)
    <2>1. ASSUME NEW p \in Int, NEW q \in Int, NEW s \in Int, q > 0, s >= 0, s <= p * q
          PROVE  s <= p * (q + 1)
      <3>1. p >= 0
        BY <2>1
      <3>2. p * (q + 1) = p * q + p
        OBVIOUS
      <3> QED
        BY <2>1, <3>1, <3>2
    <2> QED
      BY <2>1
  <1>4. Size(i) <= GateSettings.ratio * (o + 1)
    BY <1>0, <1>1, <1>2, <1>3
  <1>5. GateSettings.ratio * (o + 1) \in Int
    BY <1>0
  <1>6. o + 1 # 0 /\ ~(Size(i) > GateSettings.ratio * Size(o + 1))
    BY <1>1, <1>4, <1>5
  <1> QED
    BY <1>6 DEF Overfitted

LEMMA RatioStillFits ==
    ASSUME NEW r \in ReportSet, NEW b, NoWorse(r, b), ~RatioFails(r), RatioFails(b)
    PROVE  r.ratio = {} /\ \E x \in r.outSample : x < 0 /\ b.outSample = {x + 1}
  <1>0. /\ r.ratio \in Optional /\ r.inSample \in Optional /\ r.outSample \in Optional
        /\ GateSettings.ratio \in Int
    BY GateAssumption DEF ReportSet
  <1>1. r.ratio = {}
    <2> SUFFICES ASSUME r.ratio # {} PROVE FALSE
      OBVIOUS
    <2>1. PICK x \in Int : r.ratio = {x} /\ Less(r.ratio) = {x - 1}
      BY <1>0, ValuesOf
    <2>2. ~(x > GateSettings.ratio)
      BY <2>1 DEF RatioFails
    <2>3. b.ratio = {x} \/ b.ratio = {x - 1}
      BY <2>1 DEF NoWorse, Lowered
    <2>4. ~\E y \in b.ratio : y > GateSettings.ratio
      BY <1>0, <2>2, <2>3
    <2> QED
      BY <2>3, <2>4 DEF RatioFails
  <1>2. b.ratio = {}
    BY <1>1 DEF NoWorse, Lowered, Less
  <1>3. PICK i \in Int : r.inSample = {i}
    <2>1. r.inSample # {}
      BY <1>1 DEF RatioFails
    <2> QED
      BY <1>0, <2>1 DEF Optional
  <1>4. PICK o \in Int : r.outSample = {o} /\ More(r.outSample) = {o + 1}
    <2>1. r.outSample # {}
      BY <1>1 DEF RatioFails
    <2> QED
      BY <1>0, <2>1, ValuesOf
  <1>5. ~Overfitted(i, o)
    BY <1>1, <1>3, <1>4 DEF RatioFails
  <1>6. b.inSample = {i} /\ (b.outSample = {o} \/ b.outSample = {o + 1})
    BY <1>3, <1>4 DEF NoWorse, Raised
  <1>7. \A p \in b.inSample, q \in b.outSample : Overfitted(p, q)
    BY <1>2 DEF RatioFails
  <1>8. b.outSample = {o + 1} /\ Overfitted(i, o + 1)
    BY <1>5, <1>6, <1>7
  <1>9. ~(o > 0)
    BY <1>5, <1>8, ProfitKeepsRatio
  <1>10. o # 0
    BY <1>5 DEF Overfitted
  <1>11. o < 0
    BY <1>9, <1>10
  <1> QED
    BY <1>1, <1>4, <1>8, <1>11

\* The one step that takes a passing report off the gate.
LEMMA PassingStays ==
    ASSUME FiguresTyped, [FiguresNext]_figures, Passes(report), ~Passes(report')
    PROVE  /\ Failures(report') = {"ratio"}
           /\ report.ratio = {}
           /\ \E x \in report.outSample : x < 0 /\ report'.outSample = {x + 1}
  <1>1. Improve \/ report' = report
    BY DEF FiguresNext, figures, Extend, ReplayWindow, FinishTrade, Shuffle
  <1>2. Improve
    BY <1>1
  <1>3. report' \in Betters(report)
    BY <1>2 DEF Improve, Betters
  <1>4. report \in ReportSet
    BY DEF FiguresTyped
  <1>5. NoWorse(report, report')
    BY <1>3, <1>4, BetterIsNoWorse
  <1>6. FitsOthers(report) /\ ~RatioFails(report)
    BY FailuresAre
  <1>7. FitsOthers(report')
    BY <1>4, <1>5, <1>6, OthersStillFit
  <1>8. RatioFails(report')
    BY <1>7, FailuresAre
  <1>9. Failures(report') = {"ratio"}
    BY <1>7, <1>8, FailuresAre
  <1> QED
    BY <1>4, <1>5, <1>6, <1>8, <1>9, RatioStillFits

\* evaluate_gate turns a report down for a figure that got better in one case
\* only, whatever the settings: without a reported ratio, a shrinking loss out
\* of sample makes the in-sample result too large for it.
THEOREM GateIsMonotoneExceptForLosses == FiguresSpec => OnlyAShrinkingLossFails
  <1>1. FiguresTyped /\ [FiguresNext]_figures
           => [subject = "report" /\ Passes(report) /\ ~Passes(report') =>
                 /\ Failures(report') = {"ratio"}
                 /\ report.ratio = {}
                 /\ \E x \in report.outSample : x < 0 /\ report'.outSample = {x + 1}]_figures
    BY PassingStays
  <1> QED
    BY <1>1, FiguresAreTyped, PTL DEF FiguresSpec, OnlyAShrinkingLossFails

-----------------------------------------------------------------------------
(* The calendar *)

DateSet == [year : Nat, month : 1..12, day : Nat \ {0}]

\* Up to the 28th every month has the day: adding months moves by months only.
LEMMA EarlyDayStays ==
    ASSUME NEW date \in DateSet, date.day <= 28, NEW n \in Nat
    PROVE  /\ AddMonths(date, n) \in DateSet /\ AddMonths(date, n).day = date.day
           /\ AddMonths(date, n).year * 12 + AddMonths(date, n).month
                = date.year * 12 + date.month + n
  <1> DEFINE index == date.year * 12 + date.month - 1 + n
             year  == index \div 12
             month == (index % 12) + 1
  <1>1. date.year \in Nat /\ date.month \in 1..12 /\ date.day \in Nat \ {0}
    BY DEF DateSet
  <1>2. index \in Nat
    BY <1>1
  <1>3. MonthRange(year, month) >= 28 /\ MonthRange(year, month) \in Nat
    BY DEF MonthRange
  <1>4. Min({date.day, MonthRange(year, month)}) = date.day
    <2> DEFINE range == MonthRange(year, month)
    <2>1. date.day <= range /\ range \in Int
      BY <1>1, <1>3
    <2> HIDE DEF range
    <2>2. \A x \in {date.day, range} : (\A y \in {date.day, range} : x <= y) => x = date.day
      BY <1>1, <2>1
    <2>3. Min({date.day, range}) = date.day
      BY <1>1, <2>1, <2>2 DEF Min
    <2> QED
      BY <2>3 DEF range
  <1>5. AddMonths(date, n) = [year |-> year, month |-> month, day |-> date.day]
    BY <1>4 DEF AddMonths, Date
  <1> HIDE DEF index
  <1>6. year \in Nat /\ month \in 1..12 /\ year * 12 + month = index + 1
    BY <1>2
  <1> HIDE DEF year, month
  <1>7. year * 12 + month = date.year * 12 + date.month + n
    BY <1>1, <1>6 DEF index
  <1> QED
    BY <1>1, <1>5, <1>6, <1>7 DEF DateSet

LEMMA NumberOfLater ==
    ASSUME NEW date \in DateSet, date.day <= 28, NEW n \in Nat
    PROVE  Number(AddMonths(date, n)) = Number(date) + 31 * n /\ Number(date) \in Int
  <1> DEFINE later == AddMonths(date, n)
  <1>1. /\ later \in DateSet /\ later.day = date.day
        /\ later.year * 12 + later.month = date.year * 12 + date.month + n
    BY EarlyDayStays
  <1> HIDE DEF later
  <1>2. date.year \in Nat /\ date.month \in 1..12 /\ date.day \in Nat
    BY DEF DateSet
  <1>3. Number(later) = (date.year * 12 + date.month + n) * 31 + date.day
    BY <1>1 DEF Number
  <1>4. Number(date) = (date.year * 12 + date.month) * 31 + date.day
    BY DEF Number
  <1>5. \A x \in Int : (x + n) * 31 + date.day = (x * 31 + date.day) + 31 * n
    BY <1>2
  <1>6. Number(later) = Number(date) + 31 * n
    BY <1>2, <1>3, <1>4, <1>5
  <1> QED
    BY <1>2, <1>4, <1>6 DEF later

\* Two shifts are one; and none leaves the date.
LEMMA ShiftsAdd ==
    ASSUME NEW date \in DateSet, date.day <= 28, NEW n \in Nat, NEW m \in Nat
    PROVE  /\ AddMonths(AddMonths(date, n), m) = AddMonths(date, n + m)
           /\ AddMonths(date, 0) = date
  <1>1. \A x, y \in DateSet :
           x.day = y.day /\ x.year * 12 + x.month = y.year * 12 + y.month => x = y
    <2> SUFFICES ASSUME NEW x \in DateSet, NEW y \in DateSet, x.day = y.day,
                        x.year * 12 + x.month = y.year * 12 + y.month
                 PROVE  x = y
      OBVIOUS
    <2>1. x.year \in Nat /\ x.month \in 1..12 /\ y.year \in Nat /\ y.month \in 1..12
      BY DEF DateSet
    <2>2. x.year = y.year /\ x.month = y.month
      BY <2>1
    <2> QED
      BY <2>2 DEF DateSet
  <1> DEFINE later == AddMonths(date, n)
  <1>2. /\ later \in DateSet /\ later.day = date.day
        /\ later.year * 12 + later.month = date.year * 12 + date.month + n
    BY EarlyDayStays
  <1>3. /\ AddMonths(later, m) \in DateSet /\ AddMonths(later, m).day = date.day
        /\ AddMonths(later, m).year * 12 + AddMonths(later, m).month
             = later.year * 12 + later.month + m
    <2> HIDE DEF later
    <2> QED
      BY <1>2, EarlyDayStays
  <1>4. n + m \in Nat
    OBVIOUS
  <1>5. /\ AddMonths(date, n + m) \in DateSet /\ AddMonths(date, n + m).day = date.day
        /\ AddMonths(date, n + m).year * 12 + AddMonths(date, n + m).month
             = date.year * 12 + date.month + (n + m)
    BY <1>4, EarlyDayStays
  <1>6. /\ AddMonths(date, 0) \in DateSet /\ AddMonths(date, 0).day = date.day
        /\ AddMonths(date, 0).year * 12 + AddMonths(date, 0).month
             = date.year * 12 + date.month + 0
    BY EarlyDayStays
  <1>7. date.year \in Nat /\ date.month \in 1..12
    BY DEF DateSet
  <1> DEFINE a == AddMonths(later, m)
             b == AddMonths(date, n + m)
             c == AddMonths(date, 0)
  <1> HIDE DEF later, a, b, c
  <1>8. a = b
    <2>1. a.year * 12 + a.month = b.year * 12 + b.month
      BY <1>2, <1>3, <1>5, <1>7 DEF a, b
    <2>2. a \in DateSet /\ b \in DateSet /\ a.day = b.day
      BY <1>3, <1>5 DEF a, b
    <2> QED
      BY <1>1, <2>1, <2>2
  <1>9. c = date
    <2>1. c.year * 12 + c.month = date.year * 12 + date.month
      BY <1>6, <1>7 DEF c
    <2>2. c \in DateSet /\ c.day = date.day
      BY <1>6 DEF c
    <2> QED
      BY <1>1, <2>1, <2>2
  <1> QED
    BY <1>8, <1>9 DEF a, b, c, later

\* Cursor.
IsCursor(g, date) ==
    g = [k \in Nat \ {0} |-> IF k = 1 THEN date ELSE AddMonths(g[k - 1], StepMonths)]

LEMMA CursorExists ==
    ASSUME NEW date \in DateSet, date.day <= 28
    PROVE  \E g : IsCursor(g, date)
  <1> DEFINE g == [k \in Nat \ {0} |-> AddMonths(date, (k - 1) * StepMonths)]
  <1>0. StepMonths \in Nat
    BY CalendarAssumption
  <1>1. ASSUME NEW k \in Nat \ {0}
        PROVE  g[k] = IF k = 1 THEN date ELSE AddMonths(g[k - 1], StepMonths)
    <2>1. CASE k = 1
      <3>1. (k - 1) * StepMonths = 0
        BY <1>0, <2>1
      <3> QED
        BY <2>1, <3>1, ShiftsAdd
    <2>2. CASE k # 1
      <3> DEFINE n == (k - 2) * StepMonths
      <3>1. k - 1 \in Nat \ {0} /\ (k - 1) - 1 = k - 2 /\ k - 2 \in Nat
        BY <2>2
      <3>2. n \in Nat /\ (k - 1) * StepMonths = n + StepMonths
        <4>1. \A i, j \in Nat : i * j \in Nat /\ (i + 1) * j = i * j + j
          OBVIOUS
        <4>2. n \in Nat /\ ((k - 2) + 1) * StepMonths = n + StepMonths
          BY <1>0, <3>1, <4>1
        <4>3. k - 1 = (k - 2) + 1
          OBVIOUS
        <4> QED
          BY <4>2, <4>3
      <3>3. g[k - 1] = AddMonths(date, n) /\ g[k] = AddMonths(date, n + StepMonths)
        BY <3>1, <3>2
      <3> HIDE DEF n, g
      <3>4. AddMonths(AddMonths(date, n), StepMonths) = AddMonths(date, n + StepMonths)
        BY <1>0, <3>2, ShiftsAdd
      <3> QED
        BY <2>2, <3>3, <3>4
    <2> QED
      BY <2>1, <2>2
  <1>2. g = [k \in Nat \ {0} |-> g[k]]
    OBVIOUS
  <1> HIDE DEF g
  <1>3. IsCursor(g, date)
    BY <1>1, <1>2 DEF IsCursor
  <1> QED
    BY <1>3

LEMMA CursorUnfolds ==
    ASSUME NEW date \in DateSet, date.day <= 28
    PROVE  IsCursor(Cursor(date), date)
  BY CursorExists DEF Cursor, IsCursor

\* Up to the 28th the cursor moves in equal steps.
LEMMA CursorSteps ==
    ASSUME NEW date \in DateSet, date.day <= 28, NEW k \in Nat
    PROVE  Cursor(date)[k + 1] = AddMonths(date, k * StepMonths)
  <1> DEFINE g == Cursor(date)
             P == {n \in Nat : g[n + 1] = AddMonths(date, n * StepMonths)}
  <1>0. StepMonths \in Nat
    BY CalendarAssumption
  <1>1. IsCursor(g, date)
    BY CursorUnfolds
  <1> HIDE DEF g
  <1>2. g[1] = date
    BY <1>1 DEF IsCursor
  <1>3. \A n \in Nat : g[(n + 1) + 1] = AddMonths(g[n + 1], StepMonths)
    <2> TAKE n \in Nat
    <2>1. (n + 1) + 1 \in Nat \ {0} /\ (n + 1) + 1 # 1 /\ ((n + 1) + 1) - 1 = n + 1
      OBVIOUS
    <2>2. \A j \in Nat \ {0} : g[j] = IF j = 1 THEN date ELSE AddMonths(g[j - 1], StepMonths)
      BY <1>1 DEF IsCursor
    <2> QED
      BY <2>1, <2>2
  <1>4. 0 \in P
    <2>1. 0 * StepMonths = 0 /\ 0 + 1 = 1
      BY <1>0
    <2>2. AddMonths(date, 0) = date
      BY ShiftsAdd
    <2> QED
      BY <1>2, <2>1, <2>2
  <1>5. ASSUME NEW n \in Nat, n \in P
        PROVE  n + 1 \in P
    <2> DEFINE m == n * StepMonths
    <2>1. m \in Nat /\ (n + 1) * StepMonths = m + StepMonths
      BY <1>0
    <2>2. g[n + 1] = AddMonths(date, m)
      BY <1>5
    <2> HIDE DEF m
    <2>3. AddMonths(AddMonths(date, m), StepMonths) = AddMonths(date, m + StepMonths)
      BY <1>0, <2>1, ShiftsAdd
    <2>4. g[(n + 1) + 1] = AddMonths(date, (n + 1) * StepMonths)
      BY <1>3, <2>1, <2>2, <2>3
    <2> QED
      BY <2>4
  <1>6. k \in P
    <2> HIDE DEF P
    <2> QED
      BY <1>4, <1>5, Induction
  <1> QED
    BY <1>6 DEF g

-----------------------------------------------------------------------------
(* Out-of-sample trades *)

\* rolling_windows steps on by the out-of-sample months, as with its defaults.
WindowsMeet == StepMonths = OutSampleMonths

\* The day number at which the out-of-sample half of window k + 1 starts.
Edge(date, k) == Number(date) + 31 * (k * StepMonths + InSampleMonths)

LEMMA EdgesOf ==
    ASSUME WindowsMeet, NEW date \in DateSet, date.day <= 28, NEW k \in Nat
    PROVE  LET window == Window(Cursor(date)[k + 1])
           IN  /\ Number(window.inStart) <= Edge(date, k) /\ Number(window.inStart) \in Int
               /\ Number(window.outStart) = Edge(date, k) /\ Edge(date, k) \in Int
               /\ Number(window.outEnd) = Edge(date, k + 1) /\ Edge(date, k + 1) \in Int
               /\ Edge(date, k) <= Edge(date, k + 1)
  <1> DEFINE n == k * StepMonths
             from == AddMonths(date, n)
             boundary == AddMonths(from, InSampleMonths)
             window == Window(Cursor(date)[k + 1])
  <1>0. StepMonths \in Nat /\ InSampleMonths \in Nat /\ OutSampleMonths \in Nat
    BY CalendarAssumption
  <1>1. n \in Nat /\ (k + 1) * StepMonths = n + StepMonths
    BY <1>0
  <1>2. window = [inStart |-> from, outStart |-> boundary,
                  outEnd |-> AddMonths(boundary, OutSampleMonths)]
    BY CursorSteps DEF Window
  <1> HIDE DEF n, window
  <1>3. from \in DateSet /\ from.day <= 28 /\ Number(from) = Number(date) + 31 * n
        /\ Number(date) \in Int
    BY <1>1, EarlyDayStays, NumberOfLater
  <1> HIDE DEF from
  <1>4. boundary \in DateSet /\ boundary.day <= 28
        /\ Number(boundary) = Number(from) + 31 * InSampleMonths
    BY <1>0, <1>3, EarlyDayStays, NumberOfLater
  <1> HIDE DEF boundary
  <1>5. Number(AddMonths(boundary, OutSampleMonths)) = Number(boundary) + 31 * OutSampleMonths
    BY <1>0, <1>4, NumberOfLater
  <1>6. /\ Number(window.inStart) = Number(date) + 31 * n
        /\ Number(window.outStart) = Number(date) + 31 * n + 31 * InSampleMonths
        /\ Number(window.outEnd) = Number(date) + 31 * n + 31 * InSampleMonths + 31 * StepMonths
    BY <1>0, <1>1, <1>2, <1>3, <1>4, <1>5 DEF WindowsMeet
  <1>7. /\ Edge(date, k) = Number(date) + 31 * (n + InSampleMonths)
        /\ Edge(date, k + 1) = Number(date) + 31 * (n + StepMonths + InSampleMonths)
    BY <1>1 DEF Edge, n
  <1>8. /\ Number(window.inStart) <= Edge(date, k) /\ Number(window.inStart) \in Int
        /\ Number(window.outStart) = Edge(date, k) /\ Edge(date, k) \in Int
        /\ Number(window.outEnd) = Edge(date, k + 1) /\ Edge(date, k + 1) \in Int
        /\ Edge(date, k) <= Edge(date, k + 1)
    BY <1>0, <1>1, <1>3, <1>6, <1>7
  <1> QED
    BY <1>8 DEF window

LEMMA EdgesAscend ==
    ASSUME NEW date \in DateSet, NEW j \in Nat, NEW k \in Nat, j <= k
    PROVE  Edge(date, j) <= Edge(date, k) /\ Edge(date, j) \in Int /\ Edge(date, k) \in Int
  <1>0. StepMonths \in Nat /\ InSampleMonths \in Nat /\ Number(date) \in Int
    BY CalendarAssumption DEF DateSet, Number
  <1>1. \A p, q, s \in Nat : p <= q => p * s <= q * s
    <2> TAKE p, q, s \in Nat
    <2> HAVE p <= q
    <2>1. q - p \in Nat /\ (q - p) * s = q * s - p * s
      OBVIOUS
    <2>2. \A x, y \in Nat : x * y \in Nat
      OBVIOUS
    <2>3. (q - p) * s \in Nat /\ p * s \in Nat /\ q * s \in Nat
      BY <2>1, <2>2
    <2> QED
      BY <2>1, <2>3
  <1>2. j * StepMonths <= k * StepMonths /\ j * StepMonths \in Nat /\ k * StepMonths \in Nat
    BY <1>0, <1>1
  <1> QED
    BY <1>0, <1>2 DEF Edge

\* A day is in the out-of-sample half of window k.
InHalf(date, day, k) == Edge(date, k - 1) <= Number(day) /\ Number(day) < Edge(date, k)

\* The halves follow each other: no day is in two of them, and every day between
\* the start of the first and the end of the last is in one.
LEMMA HalvesApart ==
    ASSUME NEW date \in DateSet, NEW day \in DateSet, NEW j \in Nat \ {0}, NEW k \in Nat \ {0},
           InHalf(date, day, j), InHalf(date, day, k)
    PROVE  j = k
  <1>0. Number(day) \in Int
    BY DEF DateSet, Number
  <1>1. \A p, q \in Nat \ {0} : ~(p < q /\ InHalf(date, day, p) /\ InHalf(date, day, q))
    <2> SUFFICES ASSUME NEW p \in Nat \ {0}, NEW q \in Nat \ {0}, p < q,
                        InHalf(date, day, p), InHalf(date, day, q)
                 PROVE  FALSE
      OBVIOUS
    <2>1. q - 1 \in Nat /\ p <= q - 1 /\ p \in Nat
      OBVIOUS
    <2>2. /\ Edge(date, p) <= Edge(date, q - 1)
          /\ Edge(date, p) \in Int /\ Edge(date, q - 1) \in Int
      BY <2>1, EdgesAscend
    <2> QED
      BY <1>0, <2>2 DEF InHalf
  <1>2. ~(j < k) /\ ~(k < j)
    BY <1>1
  <1> QED
    BY <1>2

LEMMA HalvesCover ==
    ASSUME NEW date \in DateSet, NEW day \in DateSet, NEW n \in Nat,
           Edge(date, 0) <= Number(day), Number(day) < Edge(date, n)
    PROVE  \E k \in 1..n : InHalf(date, day, k)
  <1> DEFINE P == {m \in Nat : Number(day) < Edge(date, m) => \E k \in 1..m : InHalf(date, day, k)}
  <1>0. Number(day) \in Int
    BY DEF DateSet, Number
  <1>1. \A m \in Nat : Edge(date, m) \in Int
    BY EdgesAscend
  <1>2. 0 \in P
    <2>1. Edge(date, 0) \in Int
      BY <1>1
    <2>2. ~(Number(day) < Edge(date, 0))
      BY <1>0, <2>1
    <2> QED
      BY <2>2
  <1>3. ASSUME NEW m \in Nat, m \in P
        PROVE  m + 1 \in P
    <2> SUFFICES ASSUME Number(day) < Edge(date, m + 1)
                 PROVE  \E k \in 1..(m + 1) : InHalf(date, day, k)
      OBVIOUS
    <2>1. CASE Number(day) < Edge(date, m)
      <3>1. PICK k \in 1..m : InHalf(date, day, k)
        BY <1>3, <2>1
      <3>2. k \in 1..(m + 1)
        OBVIOUS
      <3> QED
        BY <3>1, <3>2
    <2>2. CASE ~(Number(day) < Edge(date, m))
      <3>1. Edge(date, m) <= Number(day)
        BY <1>0, <1>1, <2>2
      <3>2. m + 1 \in 1..(m + 1) /\ (m + 1) - 1 = m
        OBVIOUS
      <3>3. InHalf(date, day, m + 1)
        BY <3>1, <3>2 DEF InHalf
      <3> QED
        BY <3>2, <3>3
    <2> QED
      BY <2>1, <2>2
  <1>4. n \in P
    <2> HIDE DEF P
    <2> QED
      BY <1>2, <1>3, Induction
  <1> QED
    BY <1>4

\* The sizes of finite sets that have nothing in common add up to that of their union.
LEMMA SizesAddUp ==
    ASSUME NEW n \in Nat, NEW c, NEW w,
           \A k \in 1..n : IsFiniteSet(c[k]) /\ w[k] = Cardinality(c[k]),
           \A j, k \in 1..n : j # k => c[j] \cap c[k] = {},
           NEW u, \A x : x \in u <=> \E k \in 1..n : x \in c[k]
    PROVE  SumFunctionOnSet(w, 1..n) = Cardinality(u)
  <1> DEFINE I == 1..n
             U(m) == UNION {c[k] : k \in 1..m}
             P == {m \in Nat : m <= n =>
                      IsFiniteSet(U(m)) /\ SumFunctionOnSet(w, 1..m) = Cardinality(U(m))}
  <1>1. IsFiniteSet(I) /\ AreInts(w, I)
    <2>1. 1 \in Int /\ n \in Int
      OBVIOUS
    <2>2. IsFiniteSet(1..n)
      BY <2>1, FS_Interval
    <2>3. \A k \in 1..n : w[k] \in Int
      BY FS_CardinalityType
    <2> QED
      BY <2>2, <2>3 DEF AreInts
  <1>2. 0 \in P
    <2>1. SumFunctionOnSet(w, {}) = 0
      <3> HIDE DEF I
      <3> QED
        BY <1>1, SumRule
    <2>2. 1..0 = {}
      OBVIOUS
    <2>3. U(0) = {}
      BY <2>2
    <2> QED
      BY <2>1, <2>2, <2>3, FS_EmptySet
  <1>3. ASSUME NEW m \in Nat, m \in P
        PROVE  m + 1 \in P
    <2> SUFFICES ASSUME m + 1 <= n
                 PROVE  /\ IsFiniteSet(U(m + 1))
                        /\ SumFunctionOnSet(w, 1..(m + 1)) = Cardinality(U(m + 1))
      OBVIOUS
    <2> DEFINE a == U(m)
               b == c[m + 1]
    <2>1. m + 1 \in 1..n /\ 1..m \subseteq 1..n /\ 1..(m + 1) = (1..m) \cup {m + 1}
          /\ (1..(m + 1)) \ {m + 1} = 1..m /\ m + 1 \notin 1..m /\ m <= n
      OBVIOUS
    <2>2. IsFiniteSet(a) /\ SumFunctionOnSet(w, 1..m) = Cardinality(a)
      BY <1>3, <2>1
    <2>3. IsFiniteSet(b) /\ w[m + 1] = Cardinality(b)
      BY <2>1
    <2>4. U(m + 1) = a \cup b
      <3> DEFINE J == 1..(m + 1)
                 K == 1..m
                 l == m + 1
      <3>1. J = K \cup {l}
        BY <2>1
      <3> HIDE DEF J, K, l
      <3>2. UNION {c[k] : k \in J} = (UNION {c[k] : k \in K}) \cup c[l]
        BY <3>1
      <3> QED
        BY <3>2 DEF J, K, l
    <2>5. a \cap b = {}
      <3>1. \A k \in 1..m : c[k] \cap b = {}
        BY <2>1
      <3> QED
        BY <3>1
    <2>6. SumFunctionOnSet(w, 1..(m + 1)) = w[m + 1] + SumFunctionOnSet(w, 1..m)
      <3> DEFINE s == 1..(m + 1)
      <3>1. s \in SUBSET I /\ m + 1 \in s /\ m + 1 \in I
        BY <2>1
      <3>2. s \ {m + 1} = 1..m
        BY <2>1
      <3> HIDE DEF I, s
      <3>3. SumFunctionOnSet(w, s) = w[m + 1] + SumFunctionOnSet(w, s \ {m + 1})
        BY <1>1, <3>1, SumRule
      <3> QED
        BY <3>2, <3>3 DEF s
    <2> HIDE DEF a, b, U
    <2>7. Cardinality(a) \in Nat /\ Cardinality(b) \in Nat /\ IsFiniteSet(a \cup b)
      BY <2>2, <2>3, FS_CardinalityType, FS_Union
    <2>8. Cardinality(a \cup b) = Cardinality(a) + Cardinality(b)
      <3>1. Cardinality(a \cup b) = Cardinality(a) + Cardinality(b) - Cardinality(a \cap b)
        BY <2>2, <2>3, FS_Union
      <3>2. Cardinality(a \cap b) = 0
        BY <2>5, FS_EmptySet
      <3> QED
        BY <2>7, <3>1, <3>2
    <2>9. SumFunctionOnSet(w, 1..(m + 1)) = Cardinality(a \cup b)
      BY <2>2, <2>3, <2>6, <2>7, <2>8
    <2> QED
      BY <2>4, <2>7, <2>9
  <1>4. n \in P
    <2> HIDE DEF P
    <2> QED
      BY <1>2, <1>3, Induction
  <1>5. SumFunctionOnSet(w, 1..n) = Cardinality(U(n))
    BY <1>4
  <1>6. u = U(n)
    OBVIOUS
  <1> QED
    BY <1>5, <1>6

LEMMA CountsOnce ==
    ASSUME WindowsMeet, FiguresTyped
    PROVE  OutOfSampleOnce
  <1> SUFFICES ASSUME firstDate.day <= 28, replays # <<>>
               PROVE  OutOfSampleOnce
    BY DEF OutOfSampleOnce
  <1> DEFINE counted(k) == OutOfSample(Windows[k], replays[k])
  <1>0. firstDate \in DateSet
    BY DatesAssumption DEF FiguresTyped, DateSet
  <1>1. IsFiniteSet(market)
        /\ \A plan \in market : plan.signalled \in DateSet /\ Number(plan.signalled) \in Int
    <2>1. IsFiniteSet(market) /\ \A plan \in market : plan.signalled \in DateSet
      BY DatesAssumption DEF FiguresTyped, DateSet
    <2>2. \A day \in DateSet : Number(day) \in Int
      BY DEF DateSet, Number
    <2> QED
      BY <2>1, <2>2
  <1>2. PICK n \in Nat : Windows = [k \in 1..n |-> Window(Cursor(firstDate)[k])]
    BY WindowsAre DEF Windows
  <1> DEFINE m == Len(replays)
  <1>3. /\ m \in Nat \ {0} /\ m <= n /\ DOMAIN replays = 1..m
        /\ \A k \in 1..m : replays[k] \subseteq market
    <2>1. replays \in Seq(SUBSET market) /\ m <= Len(Windows)
      BY DEF FiguresTyped
    <2>2. Len(Windows) = n
      BY <1>2
    <2>3. m \in Nat /\ DOMAIN replays = 1..m /\ m # 0
      BY <2>1
    <2>4. \A k \in 1..m : replays[k] \in SUBSET market
      BY <2>1, <2>3, ElementOfSeq
    <2> QED
      BY <2>1, <2>2, <2>3, <2>4
  <1> HIDE DEF m
  <1>4. \A k \in 1..m : /\ Number(Windows[k].outStart) = Edge(firstDate, k - 1)
                        /\ Number(Windows[k].outEnd) = Edge(firstDate, k)
    <2> TAKE k \in 1..m
    <2>1. k - 1 \in Nat /\ (k - 1) + 1 = k /\ k \in 1..n
      BY <1>3
    <2>2. LET window == Window(Cursor(firstDate)[(k - 1) + 1])
          IN  /\ Number(window.outStart) = Edge(firstDate, k - 1)
              /\ Number(window.outEnd) = Edge(firstDate, (k - 1) + 1)
      <3>1. k - 1 \in Nat
        BY <2>1
      <3> QED
        BY <1>0, <3>1, EdgesOf
    <2>3. Windows[k] = Window(Cursor(firstDate)[k])
      BY <1>2, <2>1
    <2> QED
      BY <2>1, <2>2, <2>3
  <1>5. \A j, k \in 1..m, plan \in market :
           Within(plan.signalled, Windows[j].outStart, Windows[k].outEnd)
           <=> /\ Edge(firstDate, j - 1) <= Number(plan.signalled)
               /\ Number(plan.signalled) < Edge(firstDate, k)
    <2> TAKE j, k \in 1..m, plan \in market
    <2>1. j - 1 \in Nat /\ k \in Nat
      BY <1>3
    <2>2. Edge(firstDate, j - 1) \in Int /\ Edge(firstDate, k) \in Int
      BY <1>0, <2>1, EdgesAscend
    <2>3. Number(plan.signalled) \in Int
      BY <1>1
    <2>4. Number(Windows[j].outStart) = Edge(firstDate, j - 1)
          /\ Number(Windows[k].outEnd) = Edge(firstDate, k)
      BY <1>4
    <2> QED
      BY <2>2, <2>3, <2>4 DEF Within, Precedes
  <1>6. \A k \in 1..m, plan \in market :
           Within(plan.signalled, Windows[k].outStart, Windows[k].outEnd)
           <=> InHalf(firstDate, plan.signalled, k)
    BY <1>5 DEF InHalf
  <1>7. \A k \in 1..m : /\ counted(k) \subseteq market
                        /\ \A plan \in market : plan \in counted(k) <=>
                              /\ plan \in replays[k]
                              /\ Precedes(plan.filled, Windows[k].outEnd)
                              /\ InHalf(firstDate, plan.signalled, k)
    BY <1>3, <1>6 DEF OutOfSample, Replayed
  <1> HIDE DEF counted
  <1>8. \A j, k \in 1..m, plan \in market :
           InHalf(firstDate, plan.signalled, j) /\ InHalf(firstDate, plan.signalled, k) => j = k
    <2>1. \A k \in 1..m : k \in Nat \ {0}
      BY <1>3
    <2> QED
      BY <1>0, <1>1, <2>1, HalvesApart
  <1>9. OutOfSampleTrades(Windows, replays) = Cardinality(UNION {counted(k) : k \in DOMAIN replays})
    <2> DEFINE c == [k \in 1..m |-> counted(k)]
               w == [k \in 1..m |-> Cardinality(counted(k))]
    <2>1. OutOfSampleTrades(Windows, replays) = SumFunctionOnSet(w, 1..m)
      <3>1. w = [k \in DOMAIN replays |-> Cardinality(OutOfSample(Windows[k], replays[k]))]
        BY <1>3 DEF counted
      <3>2. DOMAIN w = 1..m
        OBVIOUS
      <3> HIDE DEF w
      <3> QED
        BY <3>1, <3>2 DEF OutOfSampleTrades, SumFunction
    <2>2. \A k \in 1..m : IsFiniteSet(c[k]) /\ w[k] = Cardinality(c[k])
      <3>1. \A k \in 1..m : counted(k) \in SUBSET market
        BY <1>7
      <3>2. \A k \in 1..m : IsFiniteSet(counted(k))
        BY <1>1, <3>1, FS_Subset
      <3> QED
        BY <3>2
    <2>3. \A j, k \in 1..m : j # k => c[j] \cap c[k] = {}
      <3>1. \A j, k \in 1..m : j # k => counted(j) \cap counted(k) = {}
        BY <1>7, <1>8
      <3> QED
        BY <3>1
    <2> DEFINE u == UNION {counted(k) : k \in DOMAIN replays}
    <2>4. \A x : x \in u <=> \E k \in 1..m : x \in c[k]
      BY <1>3
    <2>5. m \in Nat
      BY <1>3
    <2> HIDE DEF c, w, u
    <2>6. SumFunctionOnSet(w, 1..m) = Cardinality(u)
      BY <2>2, <2>3, <2>4, <2>5, SizesAddUp
    <2> QED
      BY <2>1, <2>6 DEF u
  <1>10. ASSUME NEW plan \in market,
                Within(plan.signalled, Windows[1].outStart, Windows[m].outEnd)
         PROVE  \E k \in DOMAIN replays :
                   /\ Within(plan.signalled, Windows[k].outStart, Windows[k].outEnd)
                   /\ \A j \in DOMAIN replays :
                         plan \in counted(j)
                         <=> /\ j = k
                             /\ plan \in replays[k]
                             /\ Precedes(plan.filled, Windows[k].outEnd)
    <2>1. 1 \in 1..m /\ m \in 1..m /\ 1 - 1 = 0 /\ m \in Nat
      BY <1>3
    <2>2. Edge(firstDate, 0) <= Number(plan.signalled) /\ Number(plan.signalled) < Edge(firstDate, m)
      BY <1>5, <1>10, <2>1
    <2>3. PICK k \in 1..m : InHalf(firstDate, plan.signalled, k)
      BY <1>0, <1>1, <2>1, <2>2, HalvesCover
    <2>4. Within(plan.signalled, Windows[k].outStart, Windows[k].outEnd)
      BY <1>6, <2>3
    <2>5. \A j \in 1..m : plan \in counted(j)
             <=> /\ j = k /\ plan \in replays[k] /\ Precedes(plan.filled, Windows[k].outEnd)
      BY <1>7, <1>8, <2>3
    <2> QED
      BY <1>3, <2>4, <2>5
  <1> QED
    BY <1>9, <1>10 DEF OutOfSampleOnce, counted, m

\* For any calendar of windows that meet, any plans and whatever each window's
\* replay finds of them: from a first candle up to the 28th of a month, the
\* out-of-sample trades of _walk_forward count once, and the plans that do not
\* count are those that their own window did not find or fill in time.
THEOREM OutOfSampleCountsOnce ==
    ASSUME WindowsMeet
    PROVE  FiguresSpec => []OutOfSampleOnce
  BY FiguresAreTyped, CountsOnce, PTL

-----------------------------------------------------------------------------
(* Totals of results *)

LEMMA SumOfEqual ==
    ASSUME NEW w, NEW v, NEW S, IsFiniteSet(S), AreInts(v, S), \A x \in S : w[x] = v[x]
    PROVE  SumFunctionOnSet(w, S) = SumFunctionOnSet(v, S)
  <1>1. 1 \in Int /\ Scaled(w, v, 1, S)
    BY DEF Scaled, AreInts
  <1>2. SumFunctionOnSet(w, S) = 1 * SumFunctionOnSet(v, S)
    BY <1>1, SumScales
  <1>3. SumFunctionOnSet(v, S) \in Int
    BY SumRule
  <1> QED
    BY <1>2, <1>3

LEMMA TotalIs ==
    ASSUME NEW values \in Seq(Int)
    PROVE  /\ Total(values) = SumFunctionOnSet(values, 1..Len(values))
           /\ IsFiniteSet(1..Len(values)) /\ AreInts(values, 1..Len(values))
           /\ Total(values) \in Int
  <1> DEFINE I == 1..Len(values)
  <1>1. Len(values) \in Nat /\ DOMAIN values = I
    OBVIOUS
  <1>2. IsFiniteSet(I)
    <2>1. 1 \in Int /\ Len(values) \in Int
      BY <1>1
    <2> QED
      BY <2>1, FS_Interval
  <1>3. AreInts(values, I)
    BY DEF AreInts
  <1>4. Total(values) = SumFunctionOnSet(values, I)
    BY <1>1 DEF Total, SumFunction
  <1> HIDE DEF I
  <1>5. SumFunctionOnSet(values, I) \in Int
    BY <1>2, <1>3, SumRule
  <1> QED
    BY <1>2, <1>3, <1>4, <1>5 DEF I

\* The sum of reordered values is theirs.
LEMMA ReorderedSum ==
    ASSUME NEW S, IsFiniteSet(S), NEW v, AreInts(v, S), NEW f \in Bijection(S, S),
           NEW w, \A x \in S : w[x] = v[f[x]]
    PROVE  SumFunctionOnSet(w, S) = SumFunctionOnSet(v, S)
  <1> DEFINE image(s) == {f[x] : x \in s}
             P == {s \in SUBSET S : SumFunctionOnSet(w, s) = SumFunctionOnSet(v, image(s))}
  <1>0. /\ f \in [S -> S] /\ \A x, y \in S : f[x] = f[y] => x = y
        /\ \A y \in S : \E x \in S : f[x] = y
    BY DEF Bijection, Injection, IsInjective, Surjection
  <1>1. AreInts(w, S)
    BY <1>0 DEF AreInts
  <1>2. ASSUME NEW s \in SUBSET S,
               \A u \in SUBSET S : Cardinality(u) < Cardinality(s) => u \in P
        PROVE  s \in P
    <2>1. CASE s = {}
      <3>1. image(s) = {}
        BY <2>1
      <3>2. SumFunctionOnSet(w, {}) = 0 /\ SumFunctionOnSet(v, {}) = 0
        BY <1>1, SumRule
      <3> QED
        BY <2>1, <3>1, <3>2
    <2>2. CASE s # {}
      <3>1. PICK x \in S : x \in s
        BY <2>2
      <3> DEFINE r == s \ {x}
      <3>2. r \in SUBSET S /\ Cardinality(r) < Cardinality(s)
        BY <3>1, Smaller
      <3>3. SumFunctionOnSet(w, r) = SumFunctionOnSet(v, image(r))
        BY <1>2, <3>2
      <3>4. SumFunctionOnSet(w, s) = w[x] + SumFunctionOnSet(w, r)
        BY <1>1, <3>1, SumRule
      <3>5. image(s) \in SUBSET S /\ f[x] \in image(s) /\ f[x] \in S
            /\ image(s) \ {f[x]} = image(r)
        BY <1>0, <3>1
      <3>6. SumFunctionOnSet(v, image(s)) = v[f[x]] + SumFunctionOnSet(v, image(s) \ {f[x]})
        <4> HIDE DEF image
        <4> QED
          BY <3>5, SumRule
      <3>7. w[x] = v[f[x]]
        BY <3>1
      <3> HIDE DEF image, r
      <3>8. SumFunctionOnSet(w, s) = SumFunctionOnSet(v, image(s))
        BY <3>3, <3>4, <3>5, <3>6, <3>7
      <3> QED
        BY <3>8
    <2> QED
      BY <2>1, <2>2
  <1>3. \A s \in SUBSET S : s \in P
    <2> HIDE DEF P
    <2> QED
      BY <1>2, SizeInduction
  <1>4. image(S) = S /\ S \in SUBSET S
    BY <1>0
  <1> HIDE DEF image
  <1>5. SumFunctionOnSet(w, S) = SumFunctionOnSet(v, image(S))
    BY <1>3, <1>4
  <1> QED
    BY <1>4, <1>5

LEMMA ReorderedIs ==
    ASSUME NEW values \in Seq(Int), NEW f \in Bijection(DOMAIN values, DOMAIN values)
    PROVE  /\ Reordered(values, f) \in Seq(Int) /\ Len(Reordered(values, f)) = Len(values)
           /\ \A i \in 1..Len(values) : f[i] \in 1..Len(values) /\ Reordered(values, f)[i] = values[f[i]]
           /\ Total(Reordered(values, f)) = Total(values)
  <1> DEFINE other == Reordered(values, f)
             I == 1..Len(values)
  <1>1. DOMAIN values = I /\ Len(values) \in Nat
    OBVIOUS
  <1>2. f \in [I -> I]
    BY <1>1 DEF Bijection, Injection
  <1>3. other = [i \in I |-> values[f[i]]]
    BY <1>1 DEF Reordered
  <1>4. other \in Seq(Int) /\ Len(other) = Len(values) /\ \A i \in I : other[i] = values[f[i]]
    <2>1. \A i \in I : f[i] \in I /\ values[f[i]] \in Int
      <3>1. \A i \in I : f[i] \in I
        BY <1>2
      <3>2. \A i \in I : values[i] \in Int
        BY <1>1
      <3> QED
        BY <3>1, <3>2
    <2>2. other \in [I -> Int]
      BY <1>3, <2>1
    <2>3. other \in Seq(Int) /\ Len(other) = Len(values)
      BY <1>1, <2>2
    <2> QED
      BY <1>3, <2>3
  <1> HIDE DEF other
  <1>5. Total(other) = SumFunctionOnSet(other, I) /\ Total(values) = SumFunctionOnSet(values, I)
        /\ IsFiniteSet(I) /\ AreInts(values, I)
    BY <1>4, TotalIs
  <1>6. f \in Bijection(I, I)
    BY <1>1
  <1>7. \A i \in I : f[i] \in I
    BY <1>2
  <1> HIDE DEF I
  <1>8. SumFunctionOnSet(other, I) = SumFunctionOnSet(values, I)
    BY <1>4, <1>5, <1>6, ReorderedSum
  <1> QED
    BY <1>4, <1>5, <1>7, <1>8 DEF other, I

-----------------------------------------------------------------------------
(* Drawdowns *)

FlatCurve == [equity |-> 0, peak |-> 0, drawdown |-> 0, streak |-> 0, longest |-> 0]

IsCurve(g, values) ==
    g = [n \in 0..Len(values) |-> IF n = 0 THEN FlatCurve ELSE Extended(g[n - 1], values[n])]

LEMMA CurveExists ==
    ASSUME NEW values, Len(values) \in Nat
    PROVE  \E g : IsCurve(g, values)
  <1> DEFINE Upto(g, m) == g[0] = FlatCurve /\ \A n \in 1..m : g[n] = Extended(g[n - 1], values[n])
             P == {m \in Nat : \E g : Upto(g, m)}
  <1>1. 0 \in P
    <2> DEFINE g == [n \in {0} |-> FlatCurve]
    <2>1. Upto(g, 0)
      OBVIOUS
    <2>2. \E h : Upto(h, 0)
      <3> HIDE DEF Upto
      <3> QED
        BY <2>1
    <2> QED
      BY <2>2
  <1>2. ASSUME NEW m \in Nat, m \in P
        PROVE  m + 1 \in P
    <2>1. PICK g : Upto(g, m)
      BY <1>2
    <2> DEFINE h == [n \in 0..(m + 1) |-> IF n <= m THEN g[n] ELSE Extended(g[m], values[m + 1])]
    <2>2. h[0] = g[0] /\ \A n \in 1..m : h[n] = g[n] /\ h[n - 1] = g[n - 1]
      OBVIOUS
    <2>3. h[m + 1] = Extended(h[m], values[m + 1]) /\ (m + 1) - 1 = m
      OBVIOUS
    <2> HIDE DEF h
    <2>4. ASSUME NEW n \in 1..(m + 1)
          PROVE  h[n] = Extended(h[n - 1], values[n])
      <3>1. CASE n = m + 1
        BY <2>3, <3>1
      <3>2. CASE n # m + 1
        <4>1. n \in 1..m
          BY <3>2
        <4>2. g[n] = Extended(g[n - 1], values[n])
          BY <2>1, <4>1
        <4> QED
          BY <2>2, <4>1, <4>2
      <3> QED
        BY <3>1, <3>2
    <2>5. Upto(h, m + 1)
      BY <2>1, <2>2, <2>4
    <2>6. \E k : Upto(k, m + 1)
      <3> HIDE DEF Upto
      <3> QED
        BY <2>5
    <2> QED
      BY <2>6
  <1>3. Len(values) \in P
    <2> HIDE DEF P
    <2> QED
      BY <1>1, <1>2, Induction
  <1>4. PICK g : Upto(g, Len(values))
    BY <1>3
  <1> DEFINE h == [n \in 0..Len(values) |-> g[n]]
  <1>5. ASSUME NEW n \in 0..Len(values)
        PROVE  h[n] = IF n = 0 THEN FlatCurve ELSE Extended(h[n - 1], values[n])
    <2>1. CASE n = 0
      BY <1>4, <2>1
    <2>2. CASE n # 0
      <3>1. n \in 1..Len(values) /\ n - 1 \in 0..Len(values)
        BY <2>2
      <3>2. g[n] = Extended(g[n - 1], values[n])
        BY <1>4, <3>1
      <3>3. h[n] = g[n] /\ h[n - 1] = g[n - 1]
        BY <3>1
      <3> QED
        BY <2>2, <3>2, <3>3
    <2> QED
      BY <2>1, <2>2
  <1>6. h = [n \in 0..Len(values) |-> h[n]]
    OBVIOUS
  <1> HIDE DEF h
  <1>7. IsCurve(h, values)
    BY <1>5, <1>6 DEF IsCurve
  <1> QED
    BY <1>7

LEMMA CurveUnfolds ==
    ASSUME NEW values, Len(values) \in Nat
    PROVE  \E g : /\ Curve(values) = g[Len(values)] /\ g[0] = FlatCurve
                  /\ \A n \in 1..Len(values) : g[n] = Extended(g[n - 1], values[n])
  <1> DEFINE g == CHOOSE h : IsCurve(h, values)
  <1>1. IsCurve(g, values)
    BY CurveExists
  <1>2. Curve(values) = g[Len(values)]
    BY DEF Curve, IsCurve, FlatCurve
  <1> HIDE DEF g
  <1>3. g[0] = FlatCurve
    BY <1>1 DEF IsCurve
  <1>4. ASSUME NEW n \in 1..Len(values)
        PROVE  g[n] = Extended(g[n - 1], values[n])
    <2>1. n \in 0..Len(values) /\ n # 0
      OBVIOUS
    <2> QED
      BY <1>1, <2>1 DEF IsCurve
  <1> QED
    BY <1>2, <1>3, <1>4

\* The running total, and the highest and the deepest it has been.
Level(values, n) == SumFunctionOnSet(values, 1..n)
Highest(values, n, p) ==
    /\ \E i \in 0..n : p = Level(values, i)
    /\ \A i \in 0..n : p >= Level(values, i)
Deepest(values, n, d) ==
    /\ \E i, j \in 0..n : i <= j /\ d = Level(values, i) - Level(values, j)
    /\ \A i, j \in 0..n : i <= j => d >= Level(values, i) - Level(values, j)

LEMMA LevelIs ==
    ASSUME NEW values \in Seq(Int)
    PROVE  /\ Level(values, 0) = 0
           /\ \A n \in 0..Len(values) : Level(values, n) \in Int
           /\ \A n \in 1..Len(values) : Level(values, n) = Level(values, n - 1) + values[n]
           /\ Level(values, Len(values)) = Total(values)
           /\ \A n \in 0..Len(values) : Total(SubSeq(values, 1, n)) = Level(values, n)
  <1> DEFINE I == 1..Len(values)
  <1>1. IsFiniteSet(I) /\ AreInts(values, I) /\ Total(values) = SumFunctionOnSet(values, I)
    BY TotalIs
  <1>2. Len(values) \in Nat
    OBVIOUS
  <1>3. \A n \in 0..Len(values) : 1..n \in SUBSET I
    BY <1>2
  <1>4. \A n \in I : 1..n \in SUBSET I /\ n \in 1..n /\ (1..n) \ {n} = 1..(n - 1)
    BY <1>2
  <1>5. 1..0 = {}
    OBVIOUS
  <1>6. ASSUME NEW n \in 0..Len(values)
        PROVE  Total(SubSeq(values, 1, n)) = Level(values, n)
    <2> DEFINE part == SubSeq(values, 1, n)
    <2>1. part \in Seq(Int) /\ Len(part) = n /\ \A i \in 1..n : part[i] = values[i]
      BY <1>2
    <2> HIDE DEF part
    <2>2. Total(part) = SumFunctionOnSet(part, 1..n) /\ IsFiniteSet(1..n)
      BY <2>1, TotalIs
    <2>3. AreInts(values, 1..n)
      BY <1>2 DEF AreInts
    <2>4. SumFunctionOnSet(part, 1..n) = SumFunctionOnSet(values, 1..n)
      <3> DEFINE J == 1..n
      <3>1. IsFiniteSet(J) /\ AreInts(values, J) /\ \A x \in J : part[x] = values[x]
        BY <2>1, <2>2, <2>3
      <3> HIDE DEF J
      <3>2. SumFunctionOnSet(part, J) = SumFunctionOnSet(values, J)
        BY <3>1, SumOfEqual
      <3> QED
        BY <3>2 DEF J
    <2> QED
      BY <2>2, <2>4 DEF part, Level
  <1>7. /\ SumFunctionOnSet(values, {}) = 0
        /\ \A s \in SUBSET I : SumFunctionOnSet(values, s) \in Int
        /\ \A s \in SUBSET I, x \in I :
              x \in s => SumFunctionOnSet(values, s) = values[x] + SumFunctionOnSet(values, s \ {x})
    <2> HIDE DEF I
    <2> QED
      BY <1>1, SumRule
  <1>8. \A n \in 0..Len(values) : Level(values, n) \in Int
    BY <1>3, <1>7 DEF Level
  <1>9. ASSUME NEW n \in I
        PROVE  Level(values, n) = Level(values, n - 1) + values[n]
    <2>1. Level(values, n) = values[n] + Level(values, n - 1)
      <3>1. 1..n \in SUBSET I /\ n \in 1..n
        BY <1>4
      <3>2. SumFunctionOnSet(values, 1..n) = values[n] + SumFunctionOnSet(values, (1..n) \ {n})
        <4> HIDE DEF I
        <4> QED
          BY <1>7, <3>1
      <3>3. (1..n) \ {n} = 1..(n - 1)
        BY <1>4
      <3> QED
        BY <3>2, <3>3 DEF Level
    <2>2. values[n] \in Int /\ n - 1 \in 0..Len(values)
      BY <1>2
    <2>3. Level(values, n - 1) \in Int
      BY <1>8, <2>2
    <2> QED
      BY <2>1, <2>2, <2>3
  <1> QED
    BY <1>1, <1>5, <1>6, <1>7, <1>8, <1>9 DEF Level

LEMMA BiggerOf ==
    ASSUME NEW x \in Int, NEW y \in Int
    PROVE  /\ Max({x, y}) \in {x, y} /\ Max({x, y}) \in Int
           /\ Max({x, y}) >= x /\ Max({x, y}) >= y
  <1>1. CASE x >= y
    <2>1. Max({x, y}) = x
      <3>1. {x, y} \subseteq Int /\ x \in {x, y} /\ \A z \in {x, y} : x >= z
        BY <1>1
      <3> QED
        BY <3>1, MaxIs
    <2> QED
      BY <1>1, <2>1
  <1>2. CASE ~(x >= y)
    <2>1. Max({x, y}) = y
      <3>1. {x, y} \subseteq Int /\ y \in {x, y} /\ \A z \in {x, y} : y >= z
        BY <1>2
      <3> QED
        BY <3>1, MaxIs
    <2> QED
      BY <1>2, <2>1
  <1> QED
    BY <1>1, <1>2

\* One more result: the peak and the drawdown are still the highest and deepest.
LEMMA PeakGrows ==
    ASSUME NEW values \in Seq(Int), NEW n \in Nat, n + 1 <= Len(values),
           NEW p \in Int, Highest(values, n, p)
    PROVE  Highest(values, n + 1, Max({p, Level(values, n + 1)}))
  <1> DEFINE e == Level(values, n + 1)
             q == Max({p, e})
  <1>0. Len(values) \in Nat
    OBVIOUS
  <1>1. e \in Int /\ \A i \in 0..(n + 1) : Level(values, i) \in Int
    BY <1>0, LevelIs
  <1>2. q \in {p, e} /\ q \in Int /\ q >= p /\ q >= e
    <2> HIDE DEF e
    <2> QED
      BY <1>1, BiggerOf
  <1> HIDE DEF q
  <1>3. \E i \in 0..(n + 1) : q = Level(values, i)
    <2>1. CASE q = p
      BY <2>1 DEF Highest
    <2>2. CASE q = e
      <3>1. n + 1 \in 0..(n + 1)
        OBVIOUS
      <3> QED
        BY <2>2, <3>1
    <2> QED
      BY <1>2, <2>1, <2>2
  <1>4. ASSUME NEW i \in 0..(n + 1)
        PROVE  q >= Level(values, i)
    <2>1. CASE i = n + 1
      BY <1>2, <2>1
    <2>2. CASE i # n + 1
      <3>1. i \in 0..n
        BY <2>2
      <3>2. p >= Level(values, i)
        BY <3>1 DEF Highest
      <3>3. Level(values, i) \in Int
        BY <1>1
      <3> QED
        BY <1>2, <3>2, <3>3
    <2> QED
      BY <2>1, <2>2
  <1> QED
    BY <1>3, <1>4 DEF Highest, q

LEMMA DrawdownGrows ==
    ASSUME NEW values \in Seq(Int), NEW n \in Nat, n + 1 <= Len(values),
           NEW d \in Int, Deepest(values, n, d),
           NEW q \in Int, Highest(values, n + 1, q)
    PROVE  Deepest(values, n + 1, Max({d, q - Level(values, n + 1)}))
  <1> DEFINE e == Level(values, n + 1)
             r == Max({d, q - e})
  <1>0. Len(values) \in Nat
    OBVIOUS
  <1>1. e \in Int /\ \A i \in 0..(n + 1) : Level(values, i) \in Int
    BY <1>0, LevelIs
  <1>2. r \in {d, q - e} /\ r \in Int /\ r >= d /\ r >= q - e
    <2> DEFINE f == q - e
    <2> HIDE DEF e
    <2>1. f \in Int
      BY <1>1
    <2> HIDE DEF f
    <2>2. Max({d, f}) \in {d, f} /\ Max({d, f}) \in Int /\ Max({d, f}) >= d /\ Max({d, f}) >= f
      BY <2>1, BiggerOf
    <2> QED
      BY <2>2 DEF f
  <1> HIDE DEF r
  <1>3. \E i, j \in 0..(n + 1) : i <= j /\ r = Level(values, i) - Level(values, j)
    <2>1. CASE r = d
      <3>1. PICK i \in 0..n, j \in 0..n : i <= j /\ d = Level(values, i) - Level(values, j)
        BY DEF Deepest
      <3>2. i \in 0..(n + 1) /\ j \in 0..(n + 1)
        OBVIOUS
      <3> QED
        BY <2>1, <3>1, <3>2
    <2>2. CASE r = q - e
      <3>1. PICK i \in 0..(n + 1) : q = Level(values, i)
        BY DEF Highest
      <3>2. n + 1 \in 0..(n + 1) /\ i <= n + 1
        OBVIOUS
      <3> QED
        BY <2>2, <3>1, <3>2
    <2> QED
      BY <1>2, <2>1, <2>2
  <1>4. ASSUME NEW i \in 0..(n + 1), NEW j \in 0..(n + 1), i <= j
        PROVE  r >= Level(values, i) - Level(values, j)
    <2>0. Level(values, i) \in Int /\ Level(values, j) \in Int
      BY <1>1
    <2>1. CASE j = n + 1
      <3>1. q >= Level(values, i)
        BY DEF Highest
      <3>2. q - e >= Level(values, i) - Level(values, j)
        BY <1>1, <2>0, <2>1, <3>1
      <3> QED
        BY <1>1, <1>2, <2>0, <3>2
    <2>2. CASE j # n + 1
      <3>1. i \in 0..n /\ j \in 0..n
        BY <1>4, <2>2
      <3>2. d >= Level(values, i) - Level(values, j)
        BY <1>4, <3>1 DEF Deepest
      <3> QED
        BY <1>2, <2>0, <3>2
    <2> QED
      BY <2>1, <2>2
  <1> QED
    BY <1>3, <1>4 DEF Deepest, r

LEMMA ExtendedFields ==
    ASSUME NEW curve, NEW x \in Int, NEW e \in Int, curve.equity \in Int, curve.equity + x = e
    PROVE  /\ Extended(curve, x).equity = e
           /\ Extended(curve, x).peak = Max({curve.peak, e})
           /\ Extended(curve, x).drawdown = Max({curve.drawdown, Max({curve.peak, e}) - e})
  BY DEF Extended

\* The state of _drawdown_and_streak's loop after some results.
Follows(curve, values, n) ==
    /\ curve.equity = Level(values, n)
    /\ curve.peak \in Int /\ Highest(values, n, curve.peak)
    /\ curve.drawdown \in Int /\ Deepest(values, n, curve.drawdown)

LEMMA CurveGoesOn ==
    ASSUME NEW values \in Seq(Int), NEW n \in Nat, n + 1 <= Len(values),
           NEW curve, Follows(curve, values, n)
    PROVE  Follows(Extended(curve, values[n + 1]), values, n + 1)
  <1> DEFINE next == Extended(curve, values[n + 1])
             level == Level(values, n + 1)
             peak == Max({curve.peak, level})
             fall == peak - level
  <1>0. n + 1 \in 1..Len(values) /\ (n + 1) - 1 = n /\ n + 1 \in 0..Len(values)
    OBVIOUS
  <1>1. curve.equity + values[n + 1] = level
    <2>1. Level(values, n + 1) = Level(values, (n + 1) - 1) + values[n + 1]
      BY <1>0, LevelIs
    <2> QED
      BY <1>0, <2>1 DEF Follows
  <1>2. level \in Int
    BY <1>0, LevelIs
  <1>3. next.equity = level /\ next.peak = peak /\ next.drawdown = Max({curve.drawdown, fall})
    <2> DEFINE x == values[n + 1]
    <2>1. x \in Int /\ curve.equity \in Int
      <3>1. n \in 0..Len(values)
        BY <1>0
      <3> QED
        BY <1>0, <3>1, LevelIs DEF Follows
    <2> HIDE DEF level, x
    <2>2. curve.equity + x = level
      BY <1>1 DEF x
    <2>3. /\ Extended(curve, x).equity = level
          /\ Extended(curve, x).peak = Max({curve.peak, level})
          /\ Extended(curve, x).drawdown = Max({curve.drawdown, Max({curve.peak, level}) - level})
      BY <1>2, <2>1, <2>2, ExtendedFields
    <2> QED
      BY <2>3 DEF x
  <1>4. peak \in Int
    <2> HIDE DEF level
    <2> QED
      BY <1>2, BiggerOf DEF Follows
  <1>5. Highest(values, n + 1, peak)
    BY PeakGrows DEF Follows
  <1> HIDE DEF peak
  <1>6. fall \in Int
    BY <1>2, <1>4
  <1>7. Max({curve.drawdown, fall}) \in Int
    <2> HIDE DEF fall
    <2> QED
      BY <1>6, BiggerOf DEF Follows
  <1>8. Deepest(values, n + 1, Max({curve.drawdown, fall}))
    BY <1>4, <1>5, DrawdownGrows DEF Follows
  <1> HIDE DEF next, level, fall
  <1>9. Follows(next, values, n + 1)
    BY <1>3, <1>4, <1>5, <1>7, <1>8 DEF Follows, level
  <1> QED
    BY <1>9 DEF next

\* _drawdown_and_streak's drawdown is the deepest fall of the running total.
LEMMA CurveFollows ==
    ASSUME NEW values \in Seq(Int)
    PROVE  Curve(values).drawdown \in Int /\ Deepest(values, Len(values), Curve(values).drawdown)
  <1>0. Len(values) \in Nat
    OBVIOUS
  <1>1. PICK g : /\ Curve(values) = g[Len(values)] /\ g[0] = FlatCurve
                 /\ \A n \in 1..Len(values) : g[n] = Extended(g[n - 1], values[n])
    BY <1>0, CurveUnfolds
  <1> DEFINE P == {n \in Nat : n <= Len(values) => Follows(g[n], values, n)}
  <1>2. 0 \in P
    <2>1. g[0].equity = 0 /\ g[0].peak = 0 /\ g[0].drawdown = 0
      BY <1>1 DEF FlatCurve
    <2>2. Level(values, 0) = 0
      BY LevelIs
    <2>3. \A i \in 0..0 : i = 0
      OBVIOUS
    <2>4. 0 \in 0..0 /\ 0 <= 0 /\ 0 >= 0 /\ 0 = 0 - 0
      OBVIOUS
    <2>5. Highest(values, 0, 0)
      BY <2>2, <2>3, <2>4 DEF Highest
    <2>6. Deepest(values, 0, 0)
      BY <2>2, <2>3, <2>4 DEF Deepest
    <2> QED
      BY <2>1, <2>2, <2>5, <2>6 DEF Follows
  <1>3. ASSUME NEW n \in Nat, n \in P
        PROVE  n + 1 \in P
    <2> SUFFICES ASSUME n + 1 <= Len(values)
                 PROVE  Follows(g[n + 1], values, n + 1)
      OBVIOUS
    <2>1. Follows(g[n], values, n)
      BY <1>0, <1>3
    <2>2. n + 1 \in 1..Len(values) /\ (n + 1) - 1 = n
      BY <1>0
    <2>3. g[n + 1] = Extended(g[n], values[n + 1])
      BY <1>1, <2>2
    <2> QED
      BY <2>1, <2>3, CurveGoesOn
  <1>4. Len(values) \in P
    <2> HIDE DEF P
    <2> QED
      BY <1>0, <1>2, <1>3, Induction
  <1> QED
    BY <1>0, <1>1, <1>4 DEF Follows

LEMMA DrawdownIsFall ==
    ASSUME NEW values \in Seq(Int)
    PROVE  Curve(values).drawdown = Fall(values)
  <1> DEFINE L == Len(values)
             d == Curve(values).drawdown
             level(i) == Total(SubSeq(values, 1, i))
             spans == {span \in (0..L) \X (0..L) : span[1] <= span[2]}
             falls == {level(span[1]) - level(span[2]) : span \in spans}
  <1>0. L \in Nat
    OBVIOUS
  <1>1. d \in Int /\ Deepest(values, L, d)
    BY CurveFollows
  <1>2. \A i \in 0..L : level(i) = Level(values, i) /\ Level(values, i) \in Int
    BY LevelIs
  <1> HIDE DEF L, d, level
  <1>3. \A x \in falls : \E i, j \in 0..L : i <= j /\ x = Level(values, i) - Level(values, j)
    <2> TAKE x \in falls
    <2>1. PICK span \in spans : x = level(span[1]) - level(span[2])
      OBVIOUS
    <2>2. span[1] \in 0..L /\ span[2] \in 0..L /\ span[1] <= span[2]
      OBVIOUS
    <2> QED
      BY <1>2, <2>1, <2>2
  <1>4. d \in falls
    <2>1. PICK i \in 0..L, j \in 0..L : i <= j /\ d = Level(values, i) - Level(values, j)
      BY <1>1 DEF Deepest
    <2>2. <<i, j>> \in spans
      BY <2>1
    <2>3. d = level(<<i, j>>[1]) - level(<<i, j>>[2])
      BY <1>2, <2>1
    <2> QED
      BY <2>2, <2>3
  <1>5. \A x \in falls : d >= x /\ x \in Int
    <2> TAKE x \in falls
    <2>1. PICK i \in 0..L, j \in 0..L : i <= j /\ x = Level(values, i) - Level(values, j)
      BY <1>3
    <2>2. x \in Int
      BY <1>2, <2>1
    <2> QED
      BY <1>1, <2>1, <2>2 DEF Deepest
  <1>6. Max(falls) = d
    <2> HIDE DEF falls
    <2>1. falls \subseteq Int
      BY <1>5
    <2> QED
      BY <1>4, <1>5, <2>1, MaxIs
  <1>7. Fall(values) = Max(falls)
    BY DEF Fall, L, level
  <1> QED
    BY <1>6, <1>7 DEF d

-----------------------------------------------------------------------------
(* Nearest-rank percentiles *)

Rising(v, f, n) == \A i, j \in 1..n : i <= j => v[f[i]] <= v[f[j]]

\* Some index of a value that none exceeds.
LEMMA HighestIndex ==
    ASSUME NEW n \in Nat, NEW v \in [1..(n + 1) -> Int]
    PROVE  \E m \in 1..(n + 1) : \A i \in 1..(n + 1) : v[i] <= v[m]
  <1> DEFINE P == {k \in Nat : k <= n => \E m \in 1..(k + 1) : \A i \in 1..(k + 1) : v[i] <= v[m]}
  <1>1. 0 \in P
    <2>1. \A i \in 1..(0 + 1) : i = 1
      OBVIOUS
    <2>2. 1 \in 1..(0 + 1) /\ v[1] <= v[1]
      OBVIOUS
    <2> QED
      BY <2>1, <2>2
  <1>2. ASSUME NEW k \in Nat, k \in P
        PROVE  k + 1 \in P
    <2> SUFFICES ASSUME k + 1 <= n
                 PROVE  \E m \in 1..(k + 2) : \A i \in 1..(k + 2) : v[i] <= v[m]
      OBVIOUS
    <2>1. PICK m \in 1..(k + 1) : \A i \in 1..(k + 1) : v[i] <= v[m]
      BY <1>2
    <2>2. k + 2 \in 1..(n + 1) /\ m \in 1..(n + 1) /\ m \in 1..(k + 2) /\ k + 2 \in 1..(k + 2)
      OBVIOUS
    <2>3. v[m] \in Int /\ v[k + 2] \in Int
      BY <2>2
    <2>4. \A i \in 1..(k + 2) : (i \in 1..(k + 1) \/ i = k + 2) /\ v[i] \in Int
      OBVIOUS
    <2>5. CASE v[k + 2] <= v[m]
      BY <2>1, <2>2, <2>4, <2>5
    <2>6. CASE ~(v[k + 2] <= v[m])
      <3>1. \A i \in 1..(k + 2) : v[i] <= v[k + 2]
        BY <2>1, <2>3, <2>4, <2>6
      <3> QED
        BY <2>2, <3>1
    <2> QED
      BY <2>5, <2>6
  <1>3. n \in P
    <2> HIDE DEF P
    <2> QED
      BY <1>1, <1>2, Induction
  <1> QED
    BY <1>3

\* The values of a sequence can be sorted: the highest last, the rest before.
LEMMA SortExists ==
    ASSUME NEW L \in Nat, NEW u \in [1..L -> Int]
    PROVE  \E f \in Bijection(1..L, 1..L) : Rising(u, f, L)
  <1> DEFINE P == {n \in Nat : \A v \in [1..n -> Int] :
                                   \E f \in Bijection(1..n, 1..n) : Rising(v, f, n)}
  <1>1. 0 \in P
    <2> SUFFICES ASSUME NEW v \in [1..0 -> Int]
                 PROVE  \E f \in Bijection(1..0, 1..0) : Rising(v, f, 0)
      OBVIOUS
    <2> DEFINE f == [i \in 1..0 |-> i]
    <2>1. f \in Bijection(1..0, 1..0)
      BY DEF Bijection, Injection, IsInjective, Surjection
    <2>2. Rising(v, f, 0)
      BY DEF Rising
    <2> QED
      BY <2>1, <2>2
  <1>2. ASSUME NEW n \in Nat, n \in P
        PROVE  n + 1 \in P
    <2> SUFFICES ASSUME NEW v \in [1..(n + 1) -> Int]
                 PROVE  \E f \in Bijection(1..(n + 1), 1..(n + 1)) : Rising(v, f, n + 1)
      OBVIOUS
    <2>1. PICK m \in 1..(n + 1) : \A i \in 1..(n + 1) : v[i] <= v[m]
      BY HighestIndex
    <2> DEFINE swap(i) == IF i = m THEN n + 1 ELSE i
               rest == [i \in 1..n |-> v[swap(i)]]
    <2>2. \A i \in 1..n : swap(i) \in 1..(n + 1)
      OBVIOUS
    <2>3. rest \in [1..n -> Int]
      BY <2>2
    <2>4. PICK f \in Bijection(1..n, 1..n) : Rising(rest, f, n)
      BY <1>2, <2>3
    <2>5. /\ f \in [1..n -> 1..n] /\ \A i, j \in 1..n : f[i] = f[j] => i = j
          /\ \A j \in 1..n : \E i \in 1..n : f[i] = j
      BY DEF Bijection, Injection, IsInjective, Surjection
    <2> DEFINE g == [i \in 1..(n + 1) |-> IF i = n + 1 THEN m ELSE swap(f[i])]
    <2>6. g[n + 1] = m /\ \A i \in 1..n : g[i] = swap(f[i]) /\ f[i] \in 1..n
      <3>1. n + 1 \in 1..(n + 1) /\ \A i \in 1..n : i \in 1..(n + 1) /\ i # n + 1
        OBVIOUS
      <3>2. \A i \in 1..n : f[i] \in 1..n
        BY <2>5
      <3> HIDE DEF swap
      <3>3. g[n + 1] = m /\ \A i \in 1..n : g[i] = swap(f[i])
        BY <3>1
      <3> QED
        BY <3>2, <3>3
    <2>7. \A i \in 1..(n + 1) : i \in 1..n \/ i = n + 1
      OBVIOUS
    <2>8. \A i \in 1..n : swap(i) # m /\ \A j \in 1..n : swap(i) = swap(j) => i = j
      OBVIOUS
    <2>9. g \in [1..(n + 1) -> 1..(n + 1)]
      BY <2>2, <2>5, <2>7
    <2> HIDE DEF g
    <2>10. ASSUME NEW i \in 1..(n + 1), NEW j \in 1..(n + 1), g[i] = g[j]
           PROVE  i = j
      <3>1. CASE i \in 1..n /\ j \in 1..n
        <4>1. swap(f[i]) = swap(f[j]) /\ f[i] \in 1..n /\ f[j] \in 1..n
          BY <2>6, <2>10, <3>1
        <4>2. f[i] = f[j]
          <5> HIDE DEF swap
          <5> QED
            BY <2>8, <4>1
        <4> QED
          BY <2>5, <3>1, <4>2
      <3>2. CASE i = n + 1 /\ j \in 1..n
        <4> HIDE DEF swap
        <4> QED
          BY <2>6, <2>8, <2>10, <3>2
      <3>3. CASE j = n + 1 /\ i \in 1..n
        <4> HIDE DEF swap
        <4> QED
          BY <2>6, <2>8, <2>10, <3>3
      <3> QED
        BY <2>7, <3>1, <3>2, <3>3
    <2>11. ASSUME NEW j \in 1..(n + 1)
           PROVE  \E i \in 1..(n + 1) : g[i] = j
      <3>0. \A i \in 1..n : i \in 1..(n + 1)
        OBVIOUS
      <3>1. CASE j = m
        BY <2>6, <3>1
      <3>2. CASE j # m /\ j = n + 1
        <4>1. m \in 1..n
          BY <3>2
        <4>2. PICK i \in 1..n : f[i] = m
          BY <2>5, <4>1
        <4> QED
          BY <2>6, <3>0, <3>2, <4>2
      <3>3. CASE j # m /\ j \in 1..n
        <4>1. PICK i \in 1..n : f[i] = j
          BY <2>5, <3>3
        <4> QED
          BY <2>6, <3>0, <3>3, <4>1
      <3> QED
        BY <2>7, <3>1, <3>2, <3>3
    <2>12. g \in Bijection(1..(n + 1), 1..(n + 1))
      BY <2>9, <2>10, <2>11 DEF Bijection, Injection, IsInjective, Surjection
    <2>13. ASSUME NEW i \in 1..(n + 1), NEW j \in 1..(n + 1), i <= j
           PROVE  v[g[i]] <= v[g[j]]
      <3>1. CASE j = n + 1
        <4>1. g[i] \in 1..(n + 1) /\ g[j] = m
          BY <2>6, <2>9, <3>1
        <4> QED
          BY <2>1, <4>1
      <3>2. CASE j \in 1..n
        <4>1. i \in 1..n
          BY <2>13, <3>2
        <4>2. rest[f[i]] <= rest[f[j]]
          BY <2>4, <2>13, <3>2, <4>1 DEF Rising
        <4>3. rest[f[i]] = v[g[i]] /\ rest[f[j]] = v[g[j]]
          BY <2>6, <3>2, <4>1
        <4> QED
          BY <4>2, <4>3
      <3> QED
        BY <2>7, <3>1, <3>2
    <2> QED
      BY <2>12, <2>13 DEF Rising
  <1>3. L \in P
    <2> HIDE DEF P
    <2> QED
      BY <1>1, <1>2, Induction
  <1> QED
    BY <1>3

LEMMA SortedIs ==
    ASSUME NEW values \in Seq(Int)
    PROVE  \E f \in Bijection(DOMAIN values, DOMAIN values) :
              Sorted(values) = Reordered(values, f) /\ Ascends(Sorted(values))
  <1> DEFINE I == 1..Len(values)
             f == CHOOSE ordering \in Bijection(DOMAIN values, DOMAIN values) :
                      Ascends(Reordered(values, ordering))
  <1>0. DOMAIN values = I /\ Len(values) \in Nat /\ values \in [I -> Int]
    OBVIOUS
  <1>1. PICK g \in Bijection(I, I) : Rising(values, g, Len(values))
    BY <1>0, SortExists
  <1>2. Ascends(Reordered(values, g))
    <2> DEFINE other == Reordered(values, g)
    <2>1. DOMAIN other = I /\ \A i \in I : other[i] = values[g[i]]
      BY <1>0 DEF Reordered
    <2> HIDE DEF other
    <2> QED
      BY <1>1, <2>1 DEF Ascends, Rising, other
  <1>3. f \in Bijection(DOMAIN values, DOMAIN values) /\ Ascends(Reordered(values, f))
    <2>1. g \in Bijection(DOMAIN values, DOMAIN values)
      BY <1>0, <1>1
    <2> HIDE DEF I
    <2> QED
      BY <1>2, <2>1
  <1>4. Sorted(values) = Reordered(values, f)
    BY DEF Sorted
  <1> HIDE DEF f
  <1> QED
    BY <1>3, <1>4

LEMMA LeastOf ==
    ASSUME NEW x \in Int, NEW y \in Int
    PROVE  Min({x, y}) = IF x <= y THEN x ELSE y
  <1> DEFINE m == IF x <= y THEN x ELSE y
  <1>1. m \in {x, y} /\ \A z \in {x, y} : m <= z
    OBVIOUS
  <1>2. \A w \in {x, y} : (\A z \in {x, y} : w <= z) => w = m
    OBVIOUS
  <1> HIDE DEF m
  <1>3. Min({x, y}) = m
    BY <1>1, <1>2 DEF Min
  <1> QED
    BY <1>3 DEF m

\* As many of the values exceed a threshold after sorting as before.
LEMMA SortedExceeds ==
    ASSUME NEW values \in Seq(Int), NEW f \in Bijection(DOMAIN values, DOMAIN values),
           NEW other, other = Reordered(values, f), NEW t \in Int
    PROVE  /\ Exceeding(other, t) = Exceeding(values, t)
           /\ IsFiniteSet({k \in DOMAIN other : other[k] > t})
  <1> DEFINE I == 1..Len(values)
             A == {k \in I : other[k] > t}
             B == {k \in I : values[k] > t}
             g == [k \in A |-> f[k]]
  <1>0. DOMAIN values = I /\ Len(values) \in Nat /\ Len(other) = Len(values) /\ other \in Seq(Int)
        /\ \A i \in I : f[i] \in I /\ other[i] = values[f[i]]
    BY ReorderedIs
  <1>1. DOMAIN other = I
    BY <1>0
  <1>2. (\A x, y \in I : f[x] = f[y] => x = y) /\ \A y \in I : \E x \in I : f[x] = y
    BY <1>0 DEF Bijection, Injection, IsInjective, Surjection
  <1>3. g \in Bijection(A, B)
    <2>1. g \in [A -> B]
      BY <1>0
    <2>2. \A x, y \in A : g[x] = g[y] => x = y
      BY <1>2
    <2>3. \A y \in B : \E x \in A : g[x] = y
      <3> TAKE y \in B
      <3>1. PICK x \in I : f[x] = y
        BY <1>2
      <3>2. x \in A
        BY <1>0, <3>1
      <3> QED
        BY <3>1, <3>2
    <2> HIDE DEF A, B, g
    <2> QED
      BY <2>1, <2>2, <2>3 DEF Bijection, Injection, IsInjective, Surjection
  <1>4. IsFiniteSet(I)
    BY TotalIs
  <1>5. IsFiniteSet(A)
    <2>1. A \in SUBSET I
      OBVIOUS
    <2> HIDE DEF I, A
    <2> QED
      BY <1>4, <2>1, FS_Subset
  <1>6. Cardinality(B) = Cardinality(A)
    <2> HIDE DEF A, B, g
    <2> QED
      BY <1>3, <1>5, FS_Bijection DEF ExistsBijection
  <1> QED
    BY <1>0, <1>1, <1>5, <1>6 DEF Exceeding

\* In ascending order the value at a rank exceeds a threshold when at least
\* those from the rank on do.
LEMMA RankExceeds ==
    ASSUME NEW other \in Seq(Int), Ascends(other), NEW r \in 1..Len(other), NEW t \in Int,
           IsFiniteSet({k \in DOMAIN other : other[k] > t})
    PROVE  /\ Exceeding(other, t) \in Nat
           /\ other[r] > t <=> Exceeding(other, t) >= Len(other) - r + 1
  <1> DEFINE L == Len(other)
             A == {k \in DOMAIN other : other[k] > t}
  <1>0. L \in Nat /\ DOMAIN other = 1..L /\ \A k \in 1..L : other[k] \in Int
    OBVIOUS
  <1>1. Exceeding(other, t) = Cardinality(A) /\ Cardinality(A) \in Nat
    <2>1. Exceeding(other, t) = Cardinality(A)
      BY DEF Exceeding
    <2> HIDE DEF A
    <2> QED
      BY <2>1, FS_CardinalityType DEF A
  <1>2. \A i, j \in 1..L : i <= j => other[i] <= other[j]
    BY <1>0 DEF Ascends
  <1>3. r \in 1..L /\ r \in Int /\ r + 1 \in Int /\ L \in Int
    BY <1>0
  <1>4. CASE other[r] > t
    <2>1. r..L \in SUBSET A
      BY <1>0, <1>2, <1>3, <1>4
    <2>2. Cardinality(r..L) = L - r + 1
      <3>1. Cardinality(r..L) = IF r > L THEN 0 ELSE L - r + 1
        BY <1>3, FS_Interval
      <3> QED
        BY <1>3, <3>1
    <2>3. Cardinality(r..L) <= Cardinality(A)
      <3> HIDE DEF A, L
      <3> QED
        BY <2>1, FS_Subset DEF A
    <2> HIDE DEF A, L
    <2>4. Cardinality(A) >= L - r + 1
      BY <1>0, <1>1, <1>3, <2>2, <2>3
    <2> QED
      BY <1>1, <1>4, <2>4 DEF L
  <1>5. CASE ~(other[r] > t)
    <2>1. A \in SUBSET ((r + 1)..L)
      <3> SUFFICES ASSUME NEW k \in 1..L, other[k] > t
                   PROVE  k \in (r + 1)..L
        BY <1>0
      <3>1. ~(k <= r)
        <4>1. k <= r => other[k] <= other[r]
          BY <1>2, <1>3
        <4>2. other[k] \in Int /\ other[r] \in Int
          BY <1>0, <1>3
        <4> QED
          BY <1>5, <4>1, <4>2
      <3> QED
        BY <1>0, <1>3, <3>1
    <2>2. IsFiniteSet((r + 1)..L) /\ Cardinality((r + 1)..L) = IF r + 1 > L THEN 0 ELSE L - (r + 1) + 1
      BY <1>3, FS_Interval
    <2>3. Cardinality(A) <= Cardinality((r + 1)..L)
      <3> HIDE DEF A
      <3> QED
        BY <2>1, <2>2, FS_Subset
    <2> HIDE DEF A, L
    <2>4. Cardinality(A) <= L - r
      BY <1>0, <1>1, <1>3, <2>2, <2>3
    <2>5. ~(Cardinality(A) >= L - r + 1)
      BY <1>0, <1>1, <1>3, <2>4
    <2> QED
      BY <1>1, <1>5, <2>5 DEF L
  <1> QED
    BY <1>1, <1>4, <1>5

\* The percentile exceeds a threshold when the share of values that do is more
\* than what the percentile leaves.
LEMMA PercentileTells ==
    ASSUME NEW values \in Seq(Int), values # <<>>, NEW p \in 1..100, NEW t \in Int
    PROVE  Percentile(values, p) > t
              <=> Exceeding(values, t) * 100 > (100 - p) * Len(values)
  <1> DEFINE n == Len(values)
             rank == (p * n + 99) \div 100
             other == Sorted(values)
  <1>0. n \in Nat \ {0}
    OBVIOUS
  <1>1. PICK f \in Bijection(DOMAIN values, DOMAIN values) :
           other = Reordered(values, f) /\ Ascends(other)
    BY SortedIs
  <1> HIDE DEF other
  <1>2. other \in Seq(Int) /\ Len(other) = n
    BY <1>1, ReorderedIs
  <1>3. Exceeding(other, t) = Exceeding(values, t)
        /\ IsFiniteSet({k \in DOMAIN other : other[k] > t})
    BY <1>1, SortedExceeds
  <1> DEFINE x == p * n
  <1>4. x \in Nat /\ x >= 1 /\ x <= 100 * n /\ (100 - p) * n = 100 * n - x
    <2>1. \A i \in 1..100, j \in Nat \ {0} :
             /\ i * j \in Nat /\ i * j >= 1 /\ i * j <= 100 * j
             /\ (100 - i) * j = 100 * j - i * j
      <3> SUFFICES ASSUME NEW i \in 1..100, NEW j \in Nat \ {0}
                   PROVE  /\ i * j \in Nat /\ i * j >= 1 /\ i * j <= 100 * j
                          /\ (100 - i) * j = 100 * j - i * j
        OBVIOUS
      <3>1. (100 - i) * j = 100 * j - i * j
        OBVIOUS
      <3>2. (100 - i) * j >= 0
        OBVIOUS
      <3>3. i * j \in Nat /\ i * j >= 1
        OBVIOUS
      <3> QED
        BY <3>1, <3>2, <3>3
    <2> HIDE DEF n
    <2> QED
      BY <1>0, <2>1
  <1> HIDE DEF n, x
  <1>5. rank \in 1..n /\ 100 * (rank - 1) < x /\ x <= 100 * rank
    <2>1. rank = (x + 99) \div 100
      BY DEF x
    <2> HIDE DEF rank
    <2> QED
      BY <1>0, <1>4, <2>1
  <1> HIDE DEF rank
  <1>6. Max({1, Min({n, rank})}) = rank
    <2>1. Min({n, rank}) = rank
      BY <1>0, <1>5, LeastOf
    <2>2. {1, rank} \subseteq Int /\ rank \in {1, rank} /\ \A y \in {1, rank} : rank >= y
      BY <1>0, <1>5
    <2> QED
      BY <2>1, <2>2, MaxIs
  <1>7. Percentile(values, p) = other[rank]
    BY <1>6 DEF Percentile, other, rank, n
  <1>8. /\ Exceeding(other, t) \in Nat
        /\ other[rank] > t <=> Exceeding(other, t) >= n - rank + 1
    <2>1. rank \in 1..Len(other)
      BY <1>2, <1>5
    <2> QED
      BY <1>1, <1>2, <1>3, <2>1, RankExceeds
  <1> DEFINE e == Exceeding(values, t)
  <1>9. e \in Nat /\ (Percentile(values, p) > t <=> e >= n - rank + 1)
    BY <1>3, <1>7, <1>8
  <1> HIDE DEF e
  <1>10. e >= n - rank + 1 <=> e * 100 > 100 * n - x
    BY <1>0, <1>4, <1>5, <1>9
  <1> QED
    BY <1>4, <1>9, <1>10 DEF e, n

-----------------------------------------------------------------------------
(* Random entries *)

LEMMA RandomCovers ==
    ASSUME NEW results \in Seq(Int), NEW size \in 1..Len(results),
           NEW orders \in Seq(Bijection(DOMAIN results, DOMAIN results))
    PROVE  LET random == RandomEntry(results, orders, size, results)
           IN  /\ random.below + random.above >= Len(orders)
               /\ size = Len(results) => random = [below |-> Len(orders), above |-> Len(orders)]
  <1> DEFINE n == Len(results)
             K == DOMAIN orders
             sums == [k \in K |-> Total(SubSeq(Reordered(results, orders[k]), 1, size))]
             compared(k) == sums[k] * n - Total(results) * size
             below == {k \in K : compared(k) <= 0}
             above == {k \in K : compared(k) >= 0}
  <1>0. n \in Nat /\ size \in Nat /\ size <= n /\ Len(orders) \in Nat /\ K = 1..Len(orders)
    OBVIOUS
  <1>1. \A k \in K : orders[k] \in Bijection(DOMAIN results, DOMAIN results)
    OBVIOUS
  <1>2. Total(results) \in Int
    BY TotalIs
  <1>3. ASSUME NEW k \in K
        PROVE  sums[k] \in Int /\ (size = n => sums[k] = Total(results))
    <2> DEFINE other == Reordered(results, orders[k])
    <2>1. other \in Seq(Int) /\ Len(other) = n /\ Total(other) = Total(results)
      BY <1>1, ReorderedIs
    <2> HIDE DEF other
    <2>2. /\ \A i \in 0..n : Level(other, i) \in Int
          /\ \A i \in 0..n : Total(SubSeq(other, 1, i)) = Level(other, i)
          /\ Level(other, n) = Total(other)
      BY <2>1, LevelIs
    <2>3. size \in 0..n /\ n \in 0..n
      BY <1>0
    <2>4. sums[k] = Total(SubSeq(other, 1, size))
      BY DEF other
    <2> HIDE DEF sums
    <2> QED
      BY <2>1, <2>2, <2>3, <2>4
  <1>4. \A k \in K : compared(k) \in Int
    <2> HIDE DEF sums, n
    <2> QED
      BY <1>0, <1>2, <1>3
  <1>5. below \cup above = K
    <2>1. \A k \in K : compared(k) <= 0 \/ compared(k) >= 0
      BY <1>4
    <2> HIDE DEF compared
    <2> QED
      BY <2>1, Zenon
  <1>6. size = n => below = K /\ above = K
    <2>1. \A k \in K : size = n => compared(k) = 0
      <3> HIDE DEF sums, n
      <3> QED
        BY <1>0, <1>2, <1>3
    <2>2. \A k \in K : size = n => compared(k) <= 0 /\ compared(k) >= 0
      BY <2>1
    <2> HIDE DEF compared, n
    <2> QED
      BY <2>2, Zenon
  <1>7. RandomEntry(results, orders, size, results)
           = [below |-> Cardinality(below), above |-> Cardinality(above)]
    BY DEF RandomEntry
  <1>8. below \in SUBSET K /\ above \in SUBSET K
    OBVIOUS
  <1> HIDE DEF below, above, compared, sums
  <1>9. IsFiniteSet(K) /\ Cardinality(K) = Len(orders)
    <2>1. 1 \in Int /\ Len(orders) \in Int
      BY <1>0
    <2>2. IsFiniteSet(1..Len(orders))
          /\ Cardinality(1..Len(orders)) = IF 1 > Len(orders) THEN 0 ELSE Len(orders) - 1 + 1
      BY <2>1, FS_Interval
    <2> QED
      BY <1>0, <2>2
  <1> HIDE DEF K
  <1>10. IsFiniteSet(below) /\ IsFiniteSet(above)
    BY <1>8, <1>9, FS_Subset
  <1>11. Cardinality(below) \in Nat /\ Cardinality(above) \in Nat
         /\ Cardinality(below \cap above) \in Nat
    BY <1>10, FS_CardinalityType, FS_Intersection
  <1>12. Cardinality(K) = Cardinality(below) + Cardinality(above) - Cardinality(below \cap above)
    <2>1. Cardinality(below \cup above)
            = Cardinality(below) + Cardinality(above) - Cardinality(below \cap above)
      BY <1>10, FS_Union
    <2> QED
      BY <1>5, <2>1
  <1>13. Cardinality(below) + Cardinality(above) >= Len(orders)
    BY <1>9, <1>11, <1>12
  <1>14. size = n => Cardinality(below) = Len(orders) /\ Cardinality(above) = Len(orders)
    BY <1>6, <1>9
  <1> HIDE DEF n
  <1>15. /\ RandomEntry(results, orders, size, results).below
              + RandomEntry(results, orders, size, results).above >= Len(orders)
         /\ size = n => RandomEntry(results, orders, size, results)
                           = [below |-> Len(orders), above |-> Len(orders)]
    BY <1>7, <1>13, <1>14
  <1> QED
    BY <1>15 DEF n

-----------------------------------------------------------------------------
(* The figures of the finished trades *)

LEMMA NetIsTyped ==
    ASSUME FiguresTyped
    PROVE  /\ Net \in Seq(Int) /\ DOMAIN Net = DOMAIN closed /\ Len(Net) = Len(closed)
           /\ CandidateResults \in Seq(Int) /\ DOMAIN CandidateResults = DOMAIN closed
           /\ Len(CandidateResults) = Len(closed)
  <1> DEFINE L == Len(closed)
  <1>0. L \in Nat /\ DOMAIN closed = 1..L /\ \A i \in 1..L : closed[i] \in ClosedTrades
    BY DEF FiguresTyped
  <1>1. \A t \in ClosedTrades : t \in Trade
    BY FiguresAssumption DEF Trade
  <1>2. AcceptedCosts(costs) /\ Unit \in Nat
    BY FiguresAssumption DEF FiguresTyped
  <1>3. ASSUME NEW t \in ClosedTrades
        PROVE  t.gross - CostR(costs, t) \in Int
    <2>1. t.gross \in Int /\ t.risk \in Nat \ {0} /\ t.boundaries \in Nat
      BY <1>1 DEF Trade
    <2>2. costs.fee \in Nat /\ costs.slippage \in Nat /\ costs.stopSlippage \in Nat /\ costs.rate \in Nat
      BY <1>2 DEF AcceptedCosts
    <2>3. FundingPercent(costs, t) \in Nat
      <3>1. \A a, b \in Nat : a * b \in Nat
        OBVIOUS
      <3> QED
        BY <2>1, <2>2, <3>1 DEF FundingPercent
    <2> DEFINE slippage == IF t.stopped THEN costs.stopSlippage ELSE costs.slippage
               percent == 2 * costs.fee + costs.slippage + slippage + FundingPercent(costs, t)
    <2>4. percent \in Nat
      BY <2>2, <2>3
    <2>5. CostR(costs, t) = (percent * Unit) \div t.risk
      BY DEF CostR
    <2> HIDE DEF percent
    <2>6. percent * Unit \in Nat
      BY <1>2, <2>4
    <2>7. CostR(costs, t) \in Int
      BY <2>1, <2>5, <2>6
    <2> QED
      BY <2>1, <2>7
  <1>4. \A i \in 1..L : closed[i].gross - CostR(costs, closed[i]) \in Int
    BY <1>0, <1>3
  <1>5. Net = [i \in 1..L |-> closed[i].gross - CostR(costs, closed[i])]
    BY <1>0 DEF Net
  <1>6. Net \in [1..L -> Int]
    BY <1>4, <1>5
  <1>7. CandidateResults = [i \in 1..L |-> IF closed[i].executed THEN Net[i] ELSE 0]
    BY <1>0 DEF CandidateResults
  <1>8. CandidateResults \in [1..L -> Int]
    BY <1>6, <1>7
  <1> HIDE DEF L
  <1>9. \A f \in [1..L -> Int] : f \in Seq(Int) /\ DOMAIN f = 1..L /\ Len(f) = L
    BY <1>0
  <1> QED
    BY <1>0, <1>6, <1>8, <1>9 DEF L

LEMMA Coherent ==
    ASSUME FiguresTyped
    PROVE  ResamplingIsCoherent
  <1> SUFFICES ASSUME orderings # <<>>
               PROVE  LET drawdowns == Drawdowns(Net, orderings)
                      IN  /\ \A k \in DOMAIN orderings :
                                /\ Total(Reordered(Net, orderings[k])) = Total(Net)
                                /\ drawdowns[k] = Fall(Reordered(Net, orderings[k]))
                          /\ \A percentile \in {34, 50, 90, 95} :
                                (Percentile(drawdowns, percentile) > DrawdownThreshold)
                                <=> (Exceeding(drawdowns, DrawdownThreshold) * 100
                                     > (100 - percentile) * Len(drawdowns))
                          /\ \A size \in DOMAIN closed :
                                LET random == RandomEntry(CandidateResults, orderings, size,
                                                          CandidateResults)
                                IN  /\ random.below + random.above >= Len(orderings)
                                    /\ size = Len(closed) =>
                                          random = [below |-> Len(orderings), above |-> Len(orderings)]
    BY DEF ResamplingIsCoherent
  <1> DEFINE drawdowns == Drawdowns(Net, orderings)
             K == DOMAIN orderings
  <1>0. /\ Net \in Seq(Int) /\ DOMAIN Net = DOMAIN closed
        /\ CandidateResults \in Seq(Int) /\ DOMAIN CandidateResults = DOMAIN closed
        /\ Len(CandidateResults) = Len(closed)
    BY NetIsTyped
  <1>1. orderings \in Seq(Bijection(DOMAIN closed, DOMAIN closed))
    BY DEF FiguresTyped
  <1>2. Len(orderings) \in Nat \ {0} /\ K = 1..Len(orderings)
        /\ \A k \in K : orderings[k] \in Bijection(DOMAIN closed, DOMAIN closed)
    BY <1>1
  <1>3. ASSUME NEW k \in K
        PROVE  /\ Reordered(Net, orderings[k]) \in Seq(Int)
               /\ Total(Reordered(Net, orderings[k])) = Total(Net)
    <2>1. orderings[k] \in Bijection(DOMAIN Net, DOMAIN Net)
      BY <1>0, <1>2
    <2> QED
      BY <1>0, <2>1, ReorderedIs
  <1>4. drawdowns = [k \in K |-> Curve(Reordered(Net, orderings[k])).drawdown]
    BY DEF Drawdowns
  <1> HIDE DEF drawdowns, K
  <1>5. ASSUME NEW k \in K
        PROVE  drawdowns[k] \in Int /\ drawdowns[k] = Fall(Reordered(Net, orderings[k]))
    <2>1. Curve(Reordered(Net, orderings[k])).drawdown = Fall(Reordered(Net, orderings[k]))
      BY <1>3, DrawdownIsFall
    <2>2. Curve(Reordered(Net, orderings[k])).drawdown \in Int
      BY <1>3, CurveFollows
    <2> QED
      BY <1>4, <2>1, <2>2
  <1>6. drawdowns \in Seq(Int) /\ drawdowns # <<>>
    <2> DEFINE L == Len(orderings)
    <2>1. L \in Nat \ {0} /\ DOMAIN drawdowns = 1..L
      BY <1>2, <1>4
    <2>2. drawdowns = [k \in 1..L |-> drawdowns[k]] /\ \A k \in 1..L : drawdowns[k] \in Int
      BY <1>2, <1>4, <1>5
    <2> HIDE DEF L
    <2>3. drawdowns \in [1..L -> Int]
      BY <2>2
    <2>4. drawdowns \in Seq(Int) /\ Len(drawdowns) = L
      BY <2>1, <2>3
    <2> QED
      BY <2>1, <2>4
  <1>7. ASSUME NEW percentile \in {34, 50, 90, 95}
        PROVE  (Percentile(drawdowns, percentile) > DrawdownThreshold)
               <=> (Exceeding(drawdowns, DrawdownThreshold) * 100
                    > (100 - percentile) * Len(drawdowns))
    <2>1. percentile \in 1..100
      OBVIOUS
    <2>2. DrawdownThreshold \in Int
      BY FiguresAssumption
    <2> QED
      BY <1>6, <2>1, <2>2, PercentileTells
  <1>8. ASSUME NEW size \in DOMAIN closed
        PROVE  LET random == RandomEntry(CandidateResults, orderings, size, CandidateResults)
               IN  /\ random.below + random.above >= Len(orderings)
                   /\ size = Len(closed) =>
                         random = [below |-> Len(orderings), above |-> Len(orderings)]
    <2>1. size \in 1..Len(CandidateResults)
      BY <1>0
    <2>2. orderings \in Seq(Bijection(DOMAIN CandidateResults, DOMAIN CandidateResults))
      BY <1>0, <1>1
    <2> QED
      BY <1>0, <2>1, <2>2, RandomCovers
  <1> QED
    BY <1>3, <1>5, <1>7, <1>8 DEF drawdowns, K

\* For any trades, costs and orderings: monte_carlo_ordering changes no total,
\* its drawdowns are the deepest falls, and its percentiles, its probability and
\* those of run_random_entry_experiment agree with each other.
THEOREM ResamplingCoheres == FiguresSpec => []ResamplingIsCoherent
  BY FiguresAreTyped, Coherent, PTL
=============================================================================

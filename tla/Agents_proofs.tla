---------------------------- MODULE Agents_proofs ----------------------------
(***************************************************************************)
(* Theorems of the two modules that show candles to the agents, for any    *)
(* candles and any parameters.  MarketSignals: the budget of the calls, the*)
(* alerts that reach a cycle, and what the agents' signals say of the      *)
(* candles.  Backtest: its books, its trades and its windows.              *)
(***************************************************************************)
EXTENDS MarketSignals, Backtest, SequenceTheorems, FiniteSetTheorems, WellFoundedInduction, TLAPS

-----------------------------------------------------------------------------
(* A sum is a fold: a function on the subsets of a domain, which takes the greatest  *)
(* index off a set until nothing is left.  Such a function exists, by induction over *)
(* the subsets of a finite set, and its values are numbers.                          *)

\* Induction over the subsets of a finite set.
LEMMA SubsetInduction ==
  ASSUME NEW D, IsFiniteSet(D), NEW T,
         \A s \in SUBSET D : (\A r \in SUBSET s : r # s => r \in T) => s \in T
  PROVE  SUBSET D \subseteq T
<1> DEFINE W == {s \in SUBSET D : s \notin T}
<1>1. SUFFICES ASSUME W # {} PROVE FALSE OBVIOUS
<1>2. IsWellFoundedOn(StrictSubsetOrdering(D), SUBSET D)
  BY FS_FiniteSubsetsOfFinite, FS_StrictSubsetOrderingWellFounded
<1>3. PICK s \in W : \A r \in W : <<r, s>> \notin StrictSubsetOrdering(D)
  <2>1. W \subseteq SUBSET D OBVIOUS
  <2> HIDE DEF W
  <2> QED BY <1>1, <1>2, <2>1, WFMin
<1>4. \A r \in SUBSET s : r # s => r \in T
  BY <1>3 DEF StrictSubsetOrdering
<1> QED BY <1>3, <1>4

\* A finite set of integers that is not empty has a greatest element.
LEMMA MaxOfFinite ==
  ASSUME NEW D \in SUBSET Int, IsFiniteSet(D)
  PROVE  \A s \in SUBSET D : s # {} => Max(s) \in s /\ \A y \in s : Max(s) >= y
<1> DEFINE HasMax(s) == \E x \in s : \A y \in s : x >= y
           T == {s \in SUBSET D : s # {} => HasMax(s)}
<1>1. ASSUME NEW s \in SUBSET D, \A r \in SUBSET s : r # s => r \in T, s # {}
      PROVE  HasMax(s)
  <2>1. PICK x \in s : TRUE BY <1>1
  <2>2. CASE s \ {x} = {}
    <3>1. s = {x} BY <2>1, <2>2
    <3>2. x \in Int /\ x >= x OBVIOUS
    <3> QED BY <3>1, <3>2
  <2>3. CASE s \ {x} # {}
    <3>1. s \ {x} \in T BY <1>1
    <3>2. PICK m \in s \ {x} : \A y \in s \ {x} : m >= y BY <2>3, <3>1
    <3>3. x \in Int /\ m \in Int OBVIOUS
    <3>4. CASE m >= x BY <3>2, <3>4
    <3>5. CASE ~(m >= x)
      <4>1. \A y \in s : x >= y BY <3>2, <3>3, <3>5
      <4> QED BY <4>1
    <3> QED BY <3>4, <3>5
  <2> QED BY <2>2, <2>3
<1>2. SUBSET D \subseteq T
  <2>1. \A s \in SUBSET D : (\A r \in SUBSET s : r # s => r \in T) => s \in T BY <1>1
  <2> HIDE DEF T
  <2> QED BY <2>1, SubsetInduction
<1> QED BY <1>2 DEF Max

Unwinds(f, D, base, step) ==
  \A s \in SUBSET D : f[s] = IF s = {} THEN base ELSE step[<<f[s \ {Max(s)}], Max(s)>>]

\* The function that takes the greatest element off a set exists, and its values are in V
\* if the first one is and each step stays there.
LEMMA RecursionOnSubsets ==
  ASSUME NEW D \in SUBSET Int, IsFiniteSet(D),
         NEW V, NEW base \in V, NEW step \in [V \X D -> V]
  PROVE  \E f \in [SUBSET D -> V] : Unwinds(f, D, base, step)
<1> DEFINE Good(s, f) == \A r \in SUBSET s :
                           f[r] = IF r = {} THEN base ELSE step[<<f[r \ {Max(r)}], Max(r)>>]
           Some(s) == \E f \in [SUBSET s -> V] : Good(s, f)
           A(s) == CHOOSE f \in [SUBSET s -> V] : Good(s, f)
           T == {s \in SUBSET D : Some(s)}
<1>1. ASSUME NEW s \in SUBSET D, NEW f, NEW h, Good(s, f), Good(s, h)
      PROVE  \A r \in SUBSET s : f[r] = h[r]
  <2> DEFINE U == {r \in SUBSET s : f[r] = h[r]}
  <2>1. ASSUME NEW r \in SUBSET s, \A q \in SUBSET r : q # r => q \in U
        PROVE  r \in U
    <3>1. CASE r = {} BY <1>1, <3>1
    <3>2. CASE r # {}
      <4>1. Max(r) \in r BY <3>2, MaxOfFinite
      <4>2. r \ {Max(r)} \in SUBSET r /\ r \ {Max(r)} # r BY <4>1
      <4>3. f[r \ {Max(r)}] = h[r \ {Max(r)}] BY <2>1, <4>2
      <4> QED BY <1>1, <3>2, <4>3
    <3> QED BY <3>1, <3>2
  <2>2. IsFiniteSet(s) BY FS_Subset
  <2>3. SUBSET s \subseteq U
    <3>1. \A r \in SUBSET s : (\A q \in SUBSET r : q # r => q \in U) => r \in U BY <2>1
    <3> HIDE DEF U
    <3> QED BY <2>2, <3>1, SubsetInduction
  <2> QED BY <2>3
<1>2. ASSUME NEW s \in SUBSET D, \A r \in SUBSET s : r # s => r \in T
      PROVE  s \in T
  <2> DEFINE h == [r \in SUBSET s |->
                     IF r = {} THEN base
                     ELSE IF r = s THEN step[<<A(s \ {Max(s)})[s \ {Max(s)}], Max(s)>>] ELSE A(r)[r]]
  <2>1. ASSUME NEW r \in SUBSET s, r # s
        PROVE  A(r) \in [SUBSET r -> V] /\ Good(r, A(r)) /\ A(r)[r] \in V
    <3>1. Some(r) BY <1>2, <2>1
    <3>2. A(r) \in [SUBSET r -> V] /\ Good(r, A(r)) BY <3>1
    <3> QED BY <3>2
  <2>2. ASSUME NEW r \in SUBSET s, r # s, NEW q \in SUBSET r
        PROVE  A(r)[q] = A(q)[q]
    <3>1. q # s /\ q \in SUBSET s /\ q \in SUBSET D BY <2>2
    <3>2. Good(r, A(r)) /\ Good(q, A(q)) BY <2>1, <2>2, <3>1
    <3> HIDE DEF A
    <3>3. Good(q, A(r)) BY <2>2, <3>2
    <3> HIDE DEF Good
    <3>4. \A p \in SUBSET q : A(r)[p] = A(q)[p] BY <1>1, <3>1, <3>2, <3>3
    <3> QED BY <3>4
  <2>3. \A r \in SUBSET s : r # {} => /\ Max(r) \in r
                                      /\ r \ {Max(r)} \in SUBSET s
                                      /\ r \ {Max(r)} # s /\ r \ {Max(r)} # r
    <3> SUFFICES ASSUME NEW r \in SUBSET s, r # {}
                 PROVE  Max(r) \in r
      OBVIOUS
    <3>1. r \in SUBSET D OBVIOUS
    <3> QED BY <3>1, MaxOfFinite
  <2>4. A({})[{}] = base \/ s = {}
    <3> SUFFICES ASSUME s # {} PROVE A({})[{}] = base OBVIOUS
    <3>1. {} \in SUBSET s /\ {} \in SUBSET {} OBVIOUS
    <3>2. Good({}, A({})) BY <2>1, <3>1
    <3> HIDE DEF A
    <3> QED BY <3>1, <3>2
  <2> HIDE DEF A
  <2>5. ASSUME NEW r \in SUBSET s, r # s PROVE h[r] = A(r)[r]
    <3>1. CASE r = {} BY <2>4, <2>5, <3>1
    <3>2. CASE r # {} BY <2>5, <3>2
    <3> QED BY <3>1, <3>2
  <2>6. h \in [SUBSET s -> V]
    <3>1. ASSUME s # {} PROVE step[<<A(s \ {Max(s)})[s \ {Max(s)}], Max(s)>>] \in V
      <4>1. Max(s) \in D BY <2>3, <3>1
      <4>2. A(s \ {Max(s)})[s \ {Max(s)}] \in V BY <2>1, <2>3, <3>1
      <4> QED BY <4>1, <4>2
    <3>2. \A r \in SUBSET s : r # s => A(r)[r] \in V BY <2>1
    <3> QED BY <3>1, <3>2
  <2>7. ASSUME NEW r \in SUBSET s, r # {}
        PROVE  h[r] = step[<<h[r \ {Max(r)}], Max(r)>>]
    <3>1. h[r \ {Max(r)}] = A(r \ {Max(r)})[r \ {Max(r)}] BY <2>3, <2>5, <2>7
    <3>2. CASE r = s BY <2>7, <3>1, <3>2
    <3>3. CASE r # s
      <4>1. h[r] = A(r)[r] BY <2>5, <3>3
      <4>2. A(r)[r] = step[<<A(r)[r \ {Max(r)}], Max(r)>>] BY <2>1, <2>7, <3>3
      <4>3. A(r)[r \ {Max(r)}] = A(r \ {Max(r)})[r \ {Max(r)}] BY <2>2, <2>3, <2>7, <3>3
      <4> QED BY <3>1, <4>1, <4>2, <4>3
    <3> QED BY <3>2, <3>3
  <2>8. \A r \in SUBSET s : r = {} => h[r] = base OBVIOUS
  <2> HIDE DEF h
  <2>9. Good(s, h) BY <2>7, <2>8
  <2> QED BY <2>6, <2>9
<1>3. SUBSET D \subseteq T
  <2>1. \A s \in SUBSET D : (\A r \in SUBSET s : r # s => r \in T) => s \in T BY <1>2
  <2> HIDE DEF T
  <2> QED BY <2>1, SubsetInduction
<1>4. Some(D)
  <2>1. D \in SUBSET D OBVIOUS
  <2> QED BY <1>3, <2>1
<1> QED BY <1>4 DEF Unwinds

\* Such a function that adds up the values of v.
Unrolled(f, v) ==
  \A s \in SUBSET DOMAIN v : f[s] = IF s = {} THEN 0 ELSE f[s \ {Max(s)}] + v[Max(s)]

LEMMA Indices ==
  ASSUME NEW S, NEW v \in Seq(S)
  PROVE  /\ DOMAIN v = 1..Len(v) /\ Len(v) \in Nat
         /\ DOMAIN v \in SUBSET Int /\ IsFiniteSet(DOMAIN v)
         /\ \A s \in SUBSET DOMAIN v : s # {} =>
              Max(s) \in s /\ s \ {Max(s)} \in SUBSET s /\ s \ {Max(s)} # s
<1>1. DOMAIN v = 1..Len(v) /\ Len(v) \in Nat BY EmptySeq
<1>2. DOMAIN v \in SUBSET Int /\ IsFiniteSet(DOMAIN v) BY <1>1, FS_Interval
<1>3. \A s \in SUBSET DOMAIN v : s # {} => Max(s) \in s BY <1>2, MaxOfFinite
<1> QED BY <1>1, <1>2, <1>3

LEMMA SumExists ==
  ASSUME NEW v \in Seq(Int)
  PROVE  \E f : f = [s \in SUBSET DOMAIN v |->
                       IF s = {} THEN 0 ELSE f[s \ {Max(s)}] + v[Max(s)]]
<1> DEFINE D == DOMAIN v
           step == [p \in Int \X D |-> p[1] + v[p[2]]]
<1>1. D \in SUBSET Int /\ IsFiniteSet(D) BY Indices
<1>2. \A s \in SUBSET D : s # {} => Max(s) \in s BY Indices
<1>3. step \in [Int \X D -> Int]
  <2>1. \A i \in D : v[i] \in Int BY Indices, ElementOfSeq
  <2> QED BY <2>1
<1>4. PICK f \in [SUBSET D -> Int] : Unwinds(f, D, 0, step)
  <2>1. 0 \in Int OBVIOUS
  <2> HIDE DEF step, D
  <2> QED BY <1>1, <1>3, <2>1, RecursionOnSubsets
<1>5. ASSUME NEW s \in SUBSET D, s # {}
      PROVE  f[s] = f[s \ {Max(s)}] + v[Max(s)]
  <2>1. Max(s) \in D /\ s \ {Max(s)} \in SUBSET D BY <1>2, <1>5
  <2>2. f[s \ {Max(s)}] \in Int BY <2>1
  <2>3. f[s] = step[<<f[s \ {Max(s)}], Max(s)>>] BY <1>4, <1>5 DEF Unwinds
  <2> QED BY <2>1, <2>2, <2>3
<1>6. f[{}] = 0 BY <1>4 DEF Unwinds
<1>7. f = [s \in SUBSET D |-> f[s]] BY <1>4
<1> HIDE DEF step
<1> QED BY <1>5, <1>6, <1>7

\* A sum of numbers of one kind is a number of that kind.
LEMMA SumTyped ==
  ASSUME NEW V \in {Nat, Int}, NEW v \in Seq(V), NEW f, Unrolled(f, v)
  PROVE  \A s \in SUBSET DOMAIN v : f[s] \in V
<1> DEFINE D == DOMAIN v
           U == {s \in SUBSET D : f[s] \in V}
<1>1. ASSUME NEW s \in SUBSET D, \A r \in SUBSET s : r # s => r \in U
      PROVE  s \in U
  <2>1. CASE s = {}
    <3>1. f[s] = 0 BY <2>1 DEF Unrolled
    <3> QED BY <3>1
  <2>2. CASE s # {}
    <3>1. Max(s) \in s /\ s \ {Max(s)} \in SUBSET s /\ s \ {Max(s)} # s BY <2>2, Indices
    <3>2. f[s \ {Max(s)}] \in V BY <1>1, <3>1
    <3>3. v[Max(s)] \in V
      <4>1. Max(s) \in 1..Len(v) BY <3>1, Indices
      <4> QED BY <4>1, ElementOfSeq
    <3>4. f[s] = f[s \ {Max(s)}] + v[Max(s)] BY <2>2 DEF Unrolled
    <3> QED BY <3>2, <3>3, <3>4
  <2> QED BY <2>1, <2>2
<1>2. SUBSET D \subseteq U
  <2>1. IsFiniteSet(D) BY Indices
  <2>2. \A s \in SUBSET D : (\A r \in SUBSET s : r # s => r \in U) => s \in U BY <1>1
  <2> HIDE DEF U, D
  <2> QED BY <2>1, <2>2, SubsetInduction
<1> QED BY <1>2

\* Two such functions, of sequences that agree on the indices of the one, agree there.
LEMMA SumsAgree ==
  ASSUME NEW S, NEW v \in Seq(S), NEW w, NEW f, NEW g, Unrolled(f, v), Unrolled(g, w),
         DOMAIN v \subseteq DOMAIN w, \A i \in DOMAIN v : v[i] = w[i]
  PROVE  \A s \in SUBSET DOMAIN v : f[s] = g[s]
<1> DEFINE D == DOMAIN v
           U == {s \in SUBSET D : f[s] = g[s]}
<1>1. ASSUME NEW s \in SUBSET D, \A r \in SUBSET s : r # s => r \in U
      PROVE  s \in U
  <2>1. s \in SUBSET DOMAIN w OBVIOUS
  <2>2. CASE s = {} BY <2>1, <2>2 DEF Unrolled
  <2>3. CASE s # {}
    <3>1. Max(s) \in s /\ s \ {Max(s)} \in SUBSET s /\ s \ {Max(s)} # s BY <2>3, Indices
    <3>2. f[s \ {Max(s)}] = g[s \ {Max(s)}] BY <1>1, <3>1
    <3>3. f[s] = f[s \ {Max(s)}] + v[Max(s)] BY <2>3 DEF Unrolled
    <3>4. g[s] = g[s \ {Max(s)}] + w[Max(s)] BY <2>1, <2>3 DEF Unrolled
    <3>5. v[Max(s)] = w[Max(s)] BY <3>1
    <3> QED BY <3>2, <3>3, <3>4, <3>5
  <2> QED BY <2>2, <2>3
<1>2. SUBSET D \subseteq U
  <2>1. IsFiniteSet(D) BY Indices
  <2>2. \A s \in SUBSET D : (\A r \in SUBSET s : r # s => r \in U) => s \in U BY <1>1
  <2> HIDE DEF U, D
  <2> QED BY <2>1, <2>2, SubsetInduction
<1> QED BY <1>2

\* A value more adds itself to the sum.
LEMMA SumAppend ==
  ASSUME NEW v \in Seq(Int), NEW x \in Int, NEW f, NEW g,
         Unrolled(f, v), Unrolled(g, Append(v, x))
  PROVE  g[DOMAIN Append(v, x)] = f[DOMAIN v] + x
<1> DEFINE w == Append(v, x)
           n == Len(v) + 1
           D == DOMAIN w
<1>1. /\ w \in Seq(Int) /\ Len(w) = n /\ w[n] = x
      /\ \A i \in 1..Len(v) : w[i] = v[i]
  BY AppendProperties
<1>2. DOMAIN v = 1..Len(v) /\ Len(v) \in Nat BY Indices
<1>3. D = 1..n BY <1>1, Indices
<1> HIDE DEF w
<1>4. Max(D) = n
  <2>1. n \in Nat /\ n >= 1 BY <1>2
  <2> HIDE DEF D, n
  <2>2. n \in D /\ \A y \in D : y \in Int /\ n >= y BY <1>3, <2>1
  <2>3. D \in SUBSET Int /\ IsFiniteSet(D) /\ D # {}
    <3>1. IsFiniteSet(1..n) BY <2>1, FS_Interval
    <3> QED BY <1>3, <2>2, <3>1
  <2>4. Max(D) \in D /\ \A y \in D : Max(D) >= y BY <2>3, MaxOfFinite
  <2>5. Max(D) >= n /\ n >= Max(D) /\ Max(D) \in Int BY <2>2, <2>4
  <2> QED BY <2>1, <2>5
<1>5. D \ {n} = DOMAIN v /\ D # {}
  <2> HIDE DEF D
  <2>1. \A i \in Int : i \in 1..Len(v) <=> i \in 1..n /\ i # n BY <1>2
  <2> QED BY <1>2, <1>3, <2>1
<1>6. g[D] = g[D \ {Max(D)}] + w[Max(D)]
  <2>1. D \in SUBSET D OBVIOUS
  <2>2. Unrolled(g, w) BY DEF w
  <2> QED BY <1>5, <2>1, <2>2 DEF Unrolled
<1>7. f[DOMAIN v] = g[DOMAIN v]
  <2>1. Unrolled(g, w) BY DEF w
  <2>2. DOMAIN v \subseteq DOMAIN w /\ \A i \in DOMAIN v : v[i] = w[i] BY <1>1, <1>2, <1>3
  <2>3. DOMAIN v \in SUBSET DOMAIN v OBVIOUS
  <2> QED BY <2>1, <2>2, <2>3, SumsAgree
<1>8. g[D] = f[DOMAIN v] + x BY <1>1, <1>4, <1>5, <1>6, <1>7
<1> QED BY <1>8 DEF D, w

\* The closes of any candles add up to a number.
LEMMA SumsAreNumbers == \A cs \in Seq(Candle) : Closes(cs) \in Nat
<1> SUFFICES ASSUME NEW cs \in Seq(Candle) PROVE Closes(cs) \in Nat OBVIOUS
<1> DEFINE D == DOMAIN cs
           v == [i \in D |-> cs[i].close]
           Sums(f) == f = [s \in SUBSET D |->
                             IF s = {} THEN 0 ELSE f[s \ {Max(s)}] + cs[Max(s)].close]
<1>1. D = 1..Len(cs) /\ Len(cs) \in Nat BY Indices
<1>2. \A i \in D : v[i] = cs[i].close /\ v[i] \in Nat
  <2>1. \A i \in D : cs[i] \in Candle BY <1>1, ElementOfSeq
  <2> QED BY <2>1 DEF Candle
<1>3. v \in Seq(Nat) /\ v \in Seq(Int) /\ DOMAIN v = D
  <2>1. v \in [1..Len(cs) -> Nat] /\ v \in [1..Len(cs) -> Int] BY <1>1, <1>2
  <2> QED BY <1>1, <2>1
<1> HIDE DEF v
<1>4. \A s \in SUBSET D : s # {} => Max(s) \in D BY <1>3, Indices
<1>5. \E f : Sums(f)
  <2>1. PICK f : f = [s \in SUBSET DOMAIN v |-> IF s = {} THEN 0 ELSE f[s \ {Max(s)}] + v[Max(s)]]
    BY <1>3, SumExists
  <2>2. ASSUME NEW s \in SUBSET D
        PROVE  f[s] = IF s = {} THEN 0 ELSE f[s \ {Max(s)}] + cs[Max(s)].close
    <3>1. f[s] = IF s = {} THEN 0 ELSE f[s \ {Max(s)}] + v[Max(s)] BY <1>3, <2>1
    <3> QED BY <1>2, <1>4, <3>1
  <2>3. f = [s \in SUBSET D |-> f[s]] BY <1>3, <2>1
  <2> QED BY <2>2, <2>3
<1> DEFINE g == CHOOSE f : Sums(f)
<1>6. Sums(g) BY <1>5
<1>7. Closes(cs) = g[D] BY DEF Closes, SumOf, FoldLeft, MapThenFoldSet
<1> HIDE DEF g
<1>8. Unrolled(g, v)
  <2>1. ASSUME NEW s \in SUBSET D
        PROVE  g[s] = IF s = {} THEN 0 ELSE g[s \ {Max(s)}] + v[Max(s)]
    <3>1. g[s] = IF s = {} THEN 0 ELSE g[s \ {Max(s)}] + cs[Max(s)].close BY <1>6
    <3> QED BY <1>2, <1>4, <3>1
  <2> QED BY <1>3, <2>1 DEF Unrolled
<1>9. g[D] \in Nat
  <2>1. D \in SUBSET DOMAIN v /\ Nat \in {Nat, Int} BY <1>3
  <2> QED BY <1>3, <1>8, <2>1, SumTyped
<1> QED BY <1>7, <1>9

-----------------------------------------------------------------------------
(* MarketSignals: the inductive invariant *)

\* The token bucket.
Budget ==
  /\ tokens \in 0..MaxTokens /\ waited \in Nat /\ calls \in Nat /\ clock \in Nat
  /\ CallBudget

\* The alerts of the queue are the last ones posted, without a gap; those a cycle took
\* are older.
Alert == [id : Nat, direction : {1, -1, 0}]
Ordered ==
  /\ posted \in Nat /\ queue \in Seq(Alert) /\ taken \in Seq(Nat)
  /\ Len(queue) <= QueueLimit /\ Len(queue) <= posted
  /\ \A i \in 1..Len(queue) : queue[i].id = posted - Len(queue) + i
  /\ \A i \in 1..Len(taken) : taken[i] <= posted - Len(queue)
  /\ \A i, j \in 1..Len(taken) : i < j => taken[i] < taken[j]
  /\ \A n \in 1..posted : \/ \E i \in 1..Len(taken) : taken[i] = n
                          \/ n > posted - Len(queue)
                          \/ n + QueueLimit <= posted

\* How far the cycle is.
Round ==
  /\ todo \in Seq(Symbols) /\ call \in 0..(Len(Calls) + 1)
  /\ call = 0 => todo = << >>

\* The candles at the exchange, in the hands of the loop and as the grid has seen them:
\* the grid remembers the level of the candles it last looked at.
Data == [klines : Seq(Candle), rate : Rates \union {None, 0}]
Gridded(cs) == Len(cs) >= Tuning.grid.candles /\ Closes(Recent(cs, Tuning.grid.candles)) # 0
Looked ==
  /\ market \in [Symbols -> Seq(Candle) \ {<< >>}]
  /\ \A s \in Symbols : Len(market[s]) <= KlinesLimit
  /\ data \in Data
  /\ shown \in [Symbols -> Seq(Candle)]
  /\ \A s \in Symbols : shown[s] # << >> => Gridded(shown[s])
  /\ grid = [s \in Symbols |-> IF shown[s] = << >> THEN None ELSE GridLevel(shown[s])]
  /\ lastRegime \in {None} \union Regimes

\* Nothing has been said of a symbol whose turn is still to come, if the configuration
\* lists no symbol twice.
Distinct(list) == \A i, j \in 1..Len(list) : list[i] = list[j] => i = j
Unsaid ==
  Distinct(SymbolList) =>
    Distinct(todo) /\ \A x \in signals : \A i \in 1..Len(todo) : todo[i] # x.symbol

IInv == Budget /\ Ordered /\ Round /\ Looked /\ Unsaid

-----------------------------------------------------------------------------
(* MarketSignals: sequences *)

LEMMA FrontSeq ==
  ASSUME NEW S, NEW s \in Seq(S), s # << >>
  PROVE  Front(s) \in Seq(S) /\ Last(s) \in S
<1>1. Len(s) \in Nat \ {0} BY EmptySeq
<1>2. \A i \in 1..Len(s) - 1 : s[i] \in S BY <1>1, ElementOfSeq
<1>3. Front(s) \in Seq(S) BY <1>1, <1>2, SubSeqProperties DEF Front
<1> QED BY <1>1, <1>3, ElementOfSeq DEF Last

LEMMA ReverseSeq ==
  ASSUME NEW S, NEW s \in Seq(S), s # << >>
  PROVE  Reverse(s) \in Seq(S) /\ Reverse(s) # << >>
<1>1. Len(s) \in Nat \ {0} BY EmptySeq
<1>2. \A i \in 1..Len(s) : s[(Len(s) - i) + 1] \in S BY <1>1, ElementOfSeq
<1>3. Reverse(s) \in [1..Len(s) -> S] BY <1>2 DEF Reverse
<1>4. Reverse(s) \in Seq(S) /\ Len(Reverse(s)) = Len(s) BY <1>1, <1>3
<1> QED BY <1>1, <1>4, EmptySeq

LEMMA RecentSeq ==
  ASSUME NEW S, NEW s \in Seq(S), NEW n \in Nat, n <= Len(s)
  PROVE  Recent(s, n) \in Seq(S) /\ Len(Recent(s, n)) = n
<1>1. Len(s) \in Nat BY EmptySeq
<1>2. Len(s) - n + 1 \in Int /\ \A i \in Len(s) - n + 1 .. Len(s) : s[i] \in S
  BY <1>1, ElementOfSeq
<1> QED BY <1>1, <1>2, SubSeqProperties DEF Recent

\* A symbol's turn is over: what is left is distinct, and the symbol is not among it.
LEMMA TurnOver ==
  ASSUME NEW S, NEW s \in Seq(S), s # << >>
  PROVE  /\ Tail(s) \in Seq(S) /\ Tail(s) # s
         /\ Head(s) \in S /\ Head(s) = s[1]
         /\ Len(s) \in Nat \ {0} /\ Len(Tail(s)) = Len(s) - 1
         /\ \A i \in 1..Len(Tail(s)) : i + 1 \in 1..Len(s) /\ Tail(s)[i] = s[i + 1]
         /\ Distinct(s) => /\ Distinct(Tail(s))
                           /\ \A i \in 1..Len(Tail(s)) : Tail(s)[i] # Head(s)
<1>1. Len(s) \in Nat \ {0} BY EmptySeq
<1>2. /\ Tail(s) \in Seq(S) /\ Len(Tail(s)) = Len(s) - 1 /\ Head(s) \in S
      /\ \A i \in 1..Len(Tail(s)) : Tail(s)[i] = s[i + 1]
  BY HeadTailProperties
<1>3. \A i \in 1..Len(Tail(s)) : i + 1 \in 1..Len(s) /\ i + 1 # 1 BY <1>1, <1>2
<1>4. Head(s) = s[1] /\ 1 \in 1..Len(s) BY <1>1
<1>5. ASSUME Distinct(s)
      PROVE  Distinct(Tail(s)) /\ \A i \in 1..Len(Tail(s)) : Tail(s)[i] # Head(s)
  <2>1. ASSUME NEW i \in 1..Len(Tail(s)), NEW j \in 1..Len(Tail(s)), Tail(s)[i] = Tail(s)[j]
        PROVE  i = j
    <3>1. s[i + 1] = s[j + 1] BY <1>2, <2>1
    <3>2. i + 1 = j + 1 BY <1>3, <1>5, <3>1 DEF Distinct
    <3> QED BY <1>1, <1>2, <3>2
  <2>2. ASSUME NEW i \in 1..Len(Tail(s)), Tail(s)[i] = Head(s) PROVE FALSE
    BY <1>2, <1>3, <1>4, <1>5, <2>2 DEF Distinct
  <2> QED BY <2>1, <2>2 DEF Distinct
<1>6. ASSUME Tail(s) = s PROVE FALSE
  <2>1. Len(Tail(s)) = Len(s) BY <1>6
  <2> QED BY <1>1, <1>2, <2>1
<1> QED BY <1>1, <1>2, <1>3, <1>4, <1>5, <1>6

-----------------------------------------------------------------------------
(* MarketSignals: the token bucket *)

LEMMA BudgetNext == ASSUME Budget, [Next]_vars PROVE Budget'
<1>0. /\ MaxTokens \in Nat /\ Refill \in Nat /\ CallCost \in Nat
      /\ tokens \in 0..MaxTokens /\ waited \in Nat /\ calls \in Nat /\ clock \in Nat
      /\ calls * CallCost + tokens <= MaxTokens + Refill * clock
  BY BucketAssumption DEF Budget, CallBudget
<1>1. CASE UNCHANGED bucket BY <1>0, <1>1 DEF Budget, CallBudget, bucket
<1>2. CASE Tick
  <2>1. clock' = clock + 1 /\ calls' = calls /\ waited' \in Nat /\ tokens' = Refilled
    BY <1>0, <1>2 DEF Tick
  <2>2. tokens' \in 0..MaxTokens /\ tokens' <= tokens + Refill
    BY <1>0, <2>1 DEF Refilled
  <2>3. Refill * clock' = Refill * clock + Refill /\ Refill * clock \in Nat
    BY <1>0, <2>1
  <2>4. calls' * CallCost = calls * CallCost /\ calls * CallCost \in Nat BY <1>0, <2>1
  <2>5. clock' \in Nat /\ calls' * CallCost + tokens' <= MaxTokens + Refill * clock'
    BY <1>0, <2>1, <2>2, <2>3, <2>4
  <2> QED BY <1>0, <2>1, <2>2, <2>5 DEF Budget, CallBudget
<1>3. CASE Acquire
  <2>1. /\ tokens' = tokens - CallCost /\ tokens >= CallCost /\ calls' = calls + 1
        /\ waited' = 0 /\ clock' = clock
    BY <1>3 DEF Acquire
  <2>2. calls' * CallCost = calls * CallCost + CallCost /\ calls * CallCost \in Nat
    BY <1>0, <2>1
  <2>3. Refill * clock' = Refill * clock /\ Refill * clock \in Nat BY <1>0, <2>1
  <2>4. tokens' \in 0..MaxTokens BY <1>0, <2>1
  <2>5. calls' \in Nat /\ calls' * CallCost + tokens' <= MaxTokens + Refill * clock'
    BY <1>0, <2>1, <2>2, <2>3, <2>4
  <2> QED BY <1>0, <2>1, <2>4, <2>5 DEF Budget, CallBudget
<1>4. CASE CallTimesOut
  <2>1. waited' = 0 /\ UNCHANGED <<tokens, clock, calls>> BY <1>4 DEF CallTimesOut
  <2> QED BY <1>0, <2>1 DEF Budget, CallBudget
<1> QED
  BY <1>1, <1>2, <1>3, <1>4
  DEF Next, Step, BeginCycle, CallReplies, CallFails, CallIsMalformed, Analyze, Coordinate,
      SetPaused, NewCandle, ReceiveAlert, vars

-----------------------------------------------------------------------------
(* MarketSignals: the queue of alerts *)

\* An alert that joins the queue, and one that pushes the oldest out.
LEMMA Joined ==
  ASSUME NEW q \in Seq(Alert), Len(q) <= QueueLimit, NEW x \in Alert
  PROVE  LET r == Enqueued(q, x)
         IN /\ r \in Seq(Alert)
            /\ \/ /\ Len(q) < QueueLimit /\ Len(r) = Len(q) + 1 /\ r[Len(r)] = x
                  /\ \A i \in 1..Len(q) : r[i] = q[i]
               \/ /\ Len(q) = QueueLimit /\ Len(r) = Len(q) /\ r[Len(r)] = x
                  /\ \A i \in 1..Len(q) : i # Len(q) => r[i] = q[i + 1]
<1>0. Len(q) \in Nat /\ QueueLimit \in Nat \ {0} BY EmptySeq, QueueAssumption
<1>1. CASE Len(q) < QueueLimit
  <2>1. Enqueued(q, x) = Append(q, x) BY <1>1 DEF Enqueued
  <2> QED BY <1>0, <1>1, <2>1, AppendProperties
<1>2. CASE ~(Len(q) < QueueLimit)
  <2>1. Enqueued(q, x) = Append(Tail(q), x) /\ Len(q) = QueueLimit BY <1>0, <1>2 DEF Enqueued
  <2>2. q # << >> BY <1>0, <2>1, EmptySeq
  <2>3. /\ Tail(q) \in Seq(Alert) /\ Len(Tail(q)) = Len(q) - 1
        /\ \A i \in 1..Len(Tail(q)) : Tail(q)[i] = q[i + 1]
    BY <2>2, HeadTailProperties
  <2> QED BY <1>0, <2>1, <2>3, AppendProperties
<1> QED BY <1>1, <1>2

LEMMA ReceiveKeeps == ASSUME Ordered, NEW a \in Actions, ReceiveAlert(a) PROVE Ordered'
<1> DEFINE x == [id |-> posted + 1, direction |-> ActionDirection(a)]
<1>0. posted \in Nat /\ Len(queue) \in Nat /\ QueueLimit \in Nat /\ Len(taken) \in Nat
  BY QueueAssumption, EmptySeq DEF Ordered
<1>1. posted' = posted + 1 /\ queue' = Enqueued(queue, x) /\ taken' = taken
  BY DEF ReceiveAlert
<1>2. x \in Alert /\ x.id = posted + 1 BY <1>0 DEF Alert, ActionDirection
<1> HIDE DEF x
<1>3. /\ queue' \in Seq(Alert)
      /\ \/ /\ Len(queue) < QueueLimit /\ Len(queue') = Len(queue) + 1 /\ queue'[Len(queue')] = x
            /\ \A i \in 1..Len(queue) : queue'[i] = queue[i]
         \/ /\ Len(queue) = QueueLimit /\ Len(queue') = Len(queue) /\ queue'[Len(queue')] = x
            /\ \A i \in 1..Len(queue) : i # Len(queue) => queue'[i] = queue[i + 1]
  BY <1>1, <1>2, Joined DEF Ordered
<1>4. Len(queue') \in Nat /\ Len(queue') <= QueueLimit /\ Len(queue') <= posted'
  BY <1>0, <1>1, <1>3 DEF Ordered
<1>5. ASSUME NEW i \in 1..Len(queue') PROVE queue'[i].id = posted' - Len(queue') + i
  <2>1. CASE i = Len(queue') BY <1>0, <1>1, <1>2, <1>3, <1>4, <2>1
  <2>2. CASE i # Len(queue') /\ Len(queue') = Len(queue) + 1
    <3>1. i \in 1..Len(queue) /\ queue'[i] = queue[i] BY <1>0, <1>3, <2>2
    <3> QED BY <1>0, <1>1, <2>2, <3>1 DEF Ordered
  <2>3. CASE i # Len(queue') /\ Len(queue') = Len(queue)
    <3>1. i + 1 \in 1..Len(queue) /\ queue'[i] = queue[i + 1] BY <1>0, <1>3, <2>3
    <3>2. queue[i + 1].id = posted - Len(queue) + (i + 1) BY <3>1 DEF Ordered
    <3> QED BY <1>0, <1>1, <2>3, <3>1, <3>2
  <2> QED BY <1>3, <2>1, <2>2, <2>3
<1>6. posted' - Len(queue') >= posted - Len(queue) BY <1>0, <1>1, <1>3
<1>7. ASSUME NEW i \in 1..Len(taken') PROVE taken'[i] <= posted' - Len(queue')
  <2>1. taken[i] \in Nat /\ taken[i] <= posted - Len(queue)
    BY <1>1, ElementOfSeq DEF Ordered
  <2> QED BY <1>0, <1>1, <1>4, <1>6, <2>1
<1>8. ASSUME NEW n \in 1..posted'
      PROVE  \/ \E i \in 1..Len(taken') : taken'[i] = n
             \/ n > posted' - Len(queue')
             \/ n + QueueLimit <= posted'
  <2>1. CASE n = posted + 1
    <3>1. Len(queue') >= 1 BY <1>0, <1>3, QueueAssumption
    <3> QED BY <1>0, <1>1, <1>4, <2>1, <3>1
  <2>2. CASE n # posted + 1
    <3>1. n \in 1..posted BY <1>0, <1>1, <2>2
    <3>2. \/ \E i \in 1..Len(taken) : taken[i] = n
          \/ n > posted - Len(queue)
          \/ n + QueueLimit <= posted
      BY <3>1 DEF Ordered
    <3> QED BY <1>0, <1>1, <1>3, <1>4, <3>1, <3>2
  <2> QED BY <2>1, <2>2
<1> QED BY <1>0, <1>1, <1>3, <1>4, <1>5, <1>7, <1>8 DEF Ordered

\* A cycle takes all of the queue: its alerts are newer than those taken before.
LEMMA BeginKeepsOrder == ASSUME Ordered, BeginCycle PROVE Ordered'
<1> DEFINE ids == [i \in DOMAIN queue |-> queue[i].id]
           m == Len(taken)
           k == Len(queue)
<1>0. posted \in Nat /\ k \in Nat /\ QueueLimit \in Nat /\ m \in Nat
  BY QueueAssumption, EmptySeq DEF Ordered
<1>1. posted' = posted /\ queue' = << >> /\ taken' = taken \o ids
  BY DEF BeginCycle
<1>2. Len(queue') = 0 /\ queue' \in Seq(Alert) BY <1>1, EmptySeq
<1>3. DOMAIN queue = 1..k BY LenProperties DEF Ordered
<1>4. \A i \in 1..k : ids[i] = posted - k + i /\ ids[i] \in Nat
  BY <1>0, <1>3 DEF Ordered
<1>5. ids \in Seq(Nat) /\ Len(ids) = k
  <2>1. ids \in [1..k -> Nat] BY <1>3, <1>4
  <2> QED BY <1>0, <2>1
<1> HIDE DEF ids
<1>6. /\ taken' \in Seq(Nat) /\ Len(taken') = m + k
      /\ \A i \in 1..m : taken'[i] = taken[i]
      /\ \A i \in 1..k : taken'[m + i] = posted - k + i
  <2>1. /\ taken \o ids \in Seq(Nat) /\ Len(taken \o ids) = m + Len(ids)
        /\ \A i \in 1..m + Len(ids) : (taken \o ids)[i] = IF i <= m THEN taken[i] ELSE ids[i - m]
    BY <1>5, ConcatProperties DEF Ordered
  <2>2. ASSUME NEW i \in 1..m PROVE taken'[i] = taken[i]
    BY <1>0, <1>1, <1>5, <2>1
  <2>3. ASSUME NEW i \in 1..k PROVE taken'[m + i] = posted - k + i
    <3>1. m + i \in 1..m + Len(ids) /\ ~(m + i <= m) /\ (m + i) - m = i BY <1>0, <1>5
    <3> QED BY <1>1, <1>4, <2>1, <3>1
  <2> QED BY <1>1, <1>5, <2>1, <2>2, <2>3
<1> DEFINE new(i) == i \in m + 1..m + k /\ taken'[i] = posted - k + (i - m)
           old(i) == i \in 1..m /\ taken'[i] = taken[i] /\ taken[i] \in Nat /\ taken[i] <= posted - k
<1>7. ASSUME NEW i \in 1..Len(taken') PROVE new(i) \/ old(i)
  <2>1. CASE i <= m
    <3>1. i \in 1..m BY <1>0, <1>6, <2>1
    <3>2. taken[i] \in Nat BY <3>1, ElementOfSeq DEF Ordered
    <3> QED BY <1>6, <3>1, <3>2 DEF Ordered
  <2>2. CASE i > m
    <3>1. i \in m + 1..m + k /\ i - m \in 1..k /\ m + (i - m) = i BY <1>0, <1>6, <2>2
    <3>2. taken'[m + (i - m)] = posted - k + (i - m) BY <1>6, <3>1
    <3> QED BY <3>1, <3>2
  <2> QED BY <1>0, <1>6, <2>1, <2>2
<1>8. ASSUME NEW i \in 1..Len(taken') PROVE taken'[i] <= posted' - Len(queue')
  BY <1>0, <1>1, <1>2, <1>7
<1>9. ASSUME NEW i \in 1..Len(taken'), NEW j \in 1..Len(taken'), i < j
      PROVE  taken'[i] < taken'[j]
  <2>1. CASE old(i) /\ old(j) BY <1>9, <2>1 DEF Ordered
  <2>2. CASE new(j) BY <1>0, <1>7, <1>9, <2>2
  <2>3. CASE new(i) /\ old(j) BY <1>0, <1>9, <2>3
  <2> QED BY <1>7, <2>1, <2>2, <2>3
<1>10. ASSUME NEW n \in 1..posted'
       PROVE  (\E i \in 1..Len(taken') : taken'[i] = n) \/ n + QueueLimit <= posted'
  <2>1. CASE n > posted - k
    <3>1. n - (posted - k) \in 1..k /\ posted - k + (n - (posted - k)) = n
      BY <1>0, <1>1, <2>1
    <3>2. m + (n - (posted - k)) \in 1..Len(taken') BY <1>0, <1>6, <3>1
    <3> QED BY <1>6, <3>1, <3>2
  <2>2. CASE ~(n > posted - k)
    <3>1. (\E i \in 1..m : taken[i] = n) \/ n + QueueLimit <= posted
      BY <1>1, <2>2 DEF Ordered
    <3>2. \A i \in 1..m : i \in 1..Len(taken') BY <1>0, <1>6
    <3> QED BY <1>1, <1>6, <3>1, <3>2
  <2> QED BY <2>1, <2>2
<1>11. /\ posted' \in Nat /\ Len(queue') <= QueueLimit /\ Len(queue') <= posted'
       /\ \A i \in 1..Len(queue') : queue'[i].id = posted' - Len(queue') + i
  BY <1>0, <1>1, <1>2
<1> QED BY <1>2, <1>6, <1>8, <1>9, <1>10, <1>11 DEF Ordered

LEMMA OrderedNext == ASSUME Ordered, [Next]_vars PROVE Ordered'
<1>1. CASE UNCHANGED <<posted, queue, taken>> BY <1>1 DEF Ordered
<1>2. CASE BeginCycle BY <1>2, BeginKeepsOrder
<1>3. CASE \E a \in Actions : ReceiveAlert(a) BY <1>3, ReceiveKeeps
<1> QED
  BY <1>1, <1>2, <1>3
  DEF Next, Step, CallReplies, CallFails, CallIsMalformed, CallTimesOut, Analyze, Coordinate,
      SetPaused, Tick, NewCandle, Untouched, alerts, vars

-----------------------------------------------------------------------------
(* MarketSignals: the cycle *)

LEMMA CallList ==
  /\ Len(Calls) \in {3, 4} /\ DOMAIN Calls = 1..Len(Calls)
  /\ \A i \in 1..Len(Calls) : Calls[i] \in {"klines", "funding", "ticker", "book"}
  /\ \A i \in 1..Len(Calls) : Calls[i] = "funding" => HasFunding(Dialect)
<1>1. CASE HasFunding(Dialect)
  <2>1. Calls = <<"klines", "funding", "ticker", "book">> BY <1>1 DEF Calls
  <2> QED BY <1>1, <2>1
<1>2. CASE ~HasFunding(Dialect)
  <2>1. Calls = <<"klines", "ticker", "book">> BY <1>2 DEF Calls
  <2> QED BY <1>2, <2>1
<1> QED BY <1>1, <1>2

\* What the loop makes of an answer is data again.
LEMMA WithData ==
  ASSUME data \in Data, call \in DOMAIN Calls, NEW r,
         Calls[call] = "klines" => r \in Seq(Candle),
         Calls[call] = "funding" => r \in Rates \union {0}
  PROVE  With(r) \in Data
<1>1. CASE Calls[call] = "klines" BY <1>1 DEF With, Data
<1>2. CASE Calls[call] = "funding" BY <1>2 DEF With, Data
<1>3. CASE Calls[call] # "klines" /\ Calls[call] # "funding" BY <1>3 DEF With
<1> QED BY <1>1, <1>2, <1>3

LEMMA ListedCandles ==
  ASSUME Looked, NEW s \in Symbols
  PROVE  Candles(s) \in Seq(Candle) /\ Candles(s) # << >>
<1>1. market[s] \in Seq(Candle) /\ market[s] # << >> BY DEF Looked
<1> QED BY <1>1, ReverseSeq DEF Candles

LEMMA ReplyIsData ==
  ASSUME Looked, call \in DOMAIN Calls, NEW s \in Symbols,
         NEW r \in Reply(Dialect, Calls[call], Candles(s), Rates)
  PROVE  With(r) \in Data
<1> DEFINE c == Calls[call]
<1>1. c = "klines" => r = Candles(s)
  BY MarketAssumption
  DEF Reply, Dialects, AsterReply, BinanceReply, BybitReply, CoinbaseReply, IbReply
<1>2. c = "funding" => HasFunding(Dialect) BY CallList
<1>3. c = "funding" => r \in Rates
  BY <1>2, MarketAssumption
  DEF Reply, Dialects, AsterReply, BinanceReply, BybitReply, HasFunding
<1> QED BY <1>1, <1>3, ListedCandles, WithData DEF Looked

LEMMA MalformedIsData ==
  ASSUME Looked, call \in DOMAIN Calls, NEW s \in Symbols,
         NEW r \in Malformed(Dialect, Calls[call], Candles(s))
  PROVE  With(r) \in Data
<1> DEFINE c == Calls[call]
           cs == Candles(s)
<1>1. cs \in Seq(Candle) /\ cs # << >> BY ListedCandles
<1> HIDE DEF cs
<1>2. Front(cs) \in Seq(Candle) /\ Last(cs) \in Candle BY <1>1, FrontSeq
<1>3. [Last(cs) EXCEPT !.close = 0] \in Candle BY <1>2 DEF Candle
<1>4. Append(Front(cs), [Last(cs) EXCEPT !.close = 0]) \in Seq(Candle)
  BY <1>2, <1>3, AppendProperties
<1>5. r \in Malformed(Dialect, c, cs) BY DEF cs
<1> HIDE DEF c
<1>6. /\ c = "klines" => r \in Seq(Candle)
      /\ c = "funding" => r \in {0}
  <2>1. CASE Dialect \in {"aster", "binance", "coinbase"}
    BY <1>5, <2>1 DEF Malformed, AsterMalformed, CoinbaseMalformed
  <2>2. CASE Dialect = "bybit"
    <3>1. r \in BybitMalformed(c, cs) BY <1>5, <2>2 DEF Malformed
    <3> QED BY <1>2, <1>4, <3>1 DEF BybitMalformed
  <2>3. CASE Dialect = "ib"
    <3>1. r \in IbMalformed(c, cs) BY <1>5, <2>3 DEF Malformed
    <3> QED BY <1>2, <3>1 DEF IbMalformed
  <2> QED BY <2>1, <2>2, <2>3, MarketAssumption DEF Dialects
<1> QED BY <1>6, WithData DEF Looked, c

\* A step, by what it does to the cycle: nothing, it begins one, it has an answer, it
\* passes a symbol over, the agents look at one, or the signals are handed over.
Aside == /\ UNCHANGED <<call, todo, data, signals, memory>>
         /\ UNCHANGED market \/ \E s \in Symbols, p \in Prices : NewCandle(s, p)
Fetched == /\ Fetching /\ call' = call + 1 /\ data' \in Data
           /\ UNCHANGED <<market, todo, signals, memory>>
PassedOver == todo # << >> /\ NextSymbol /\ UNCHANGED <<market, signals, memory>>

LEMMA Steps ==
  ASSUME Round, Looked, [Next]_vars
  PROVE  Aside \/ BeginCycle \/ Fetched \/ PassedOver \/ Analyze \/ Coordinate
<1> USE DEF feed, cycle, Untouched
<1>0. todo # << >> => Head(todo) \in Symbols BY TurnOver DEF Round
<1>1. CASE Tick \/ SetPaused \/ (\E a \in Actions : ReceiveAlert(a)) \/ UNCHANGED vars
  BY <1>1 DEF Tick, SetPaused, ReceiveAlert, vars, Aside
<1>2. ASSUME NEW s \in Symbols, NEW p \in Prices, NewCandle(s, p)
      PROVE  Aside
  BY <1>2 DEF NewCandle, Aside
<1>3. CASE CallReplies
  <2>1. PICK r \in Reply(Dialect, Calls[call], Candles(Head(todo)), Rates) : Answered(With(r))
    BY <1>3 DEF CallReplies
  <2>2. Fetching /\ UNCHANGED <<market, memory>> BY <1>3 DEF CallReplies
  <2>3. With(r) \in Data BY <1>0, <2>1, <2>2, ReplyIsData DEF Fetching
  <2> QED BY <2>1, <2>2, <2>3 DEF Answered, Fetched
<1>4. CASE CallFails BY <1>4 DEF CallFails, Answered, Fetched, Looked
<1>5. CASE CallIsMalformed
  <2>1. Fetching /\ UNCHANGED <<market, memory>> BY <1>5 DEF CallIsMalformed
  <2>2. CASE ParseFails BY <2>1, <2>2 DEF ParseFails, PassedOver, Fetching
  <2>3. CASE ~ParseFails
    <3>1. PICK r \in Malformed(Dialect, Calls[call], Candles(Head(todo))) : Answered(With(r))
      BY <1>5, <2>3 DEF CallIsMalformed
    <3>2. With(r) \in Data BY <1>0, <2>1, <3>1, MalformedIsData DEF Fetching
    <3> QED BY <2>1, <3>1, <3>2 DEF Answered, Fetched
  <2> QED BY <2>2, <2>3
<1>6. CASE CallTimesOut BY <1>6 DEF CallTimesOut, Answered, Fetched, Looked, Waits
<1> QED BY <1>1, <1>2, <1>3, <1>4, <1>5, <1>6 DEF Next, Step

LEMMA RoundNext == ASSUME Round, Looked, [Next]_vars PROVE Round'
<1>0. /\ SymbolList \in Seq(Symbols) /\ << >> \in Seq(Symbols) /\ Len(Calls) \in {3, 4}
      /\ DOMAIN Calls = 1..Len(Calls) /\ call \in 0..(Len(Calls) + 1)
  BY MarketAssumption, CallList, EmptySeq DEF Symbols, Round
<1>1. Len(Calls)' = Len(Calls) BY DEF Calls
<1>2. CASE UNCHANGED <<call, todo>> BY <1>1, <1>2 DEF Round
<1>3. CASE BeginCycle
  <2>1. todo' = SymbolList /\ call' = 1 BY <1>3 DEF BeginCycle
  <2> QED BY <1>0, <1>1, <2>1 DEF Round
<1>4. CASE Fetched
  <2>1. todo' = todo /\ call' = call + 1 /\ call \in 1..Len(Calls) BY <1>0, <1>4 DEF Fetched, Fetching
  <2>2. call' \in 0..(Len(Calls) + 1) /\ call' # 0 BY <1>0, <2>1
  <2> QED BY <1>1, <2>1, <2>2 DEF Round
<1>5. CASE PassedOver \/ Analyze
  <2>1. todo # << >> /\ todo' = Tail(todo) /\ call' = 1
    BY <1>5 DEF PassedOver, Analyze, NextSymbol
  <2>2. todo' \in Seq(Symbols) BY <2>1, TurnOver DEF Round
  <2> QED BY <1>0, <1>1, <2>1, <2>2 DEF Round
<1>6. CASE Coordinate
  <2>1. call' = 0 /\ todo' = << >> BY <1>6 DEF Coordinate
  <2> QED BY <1>0, <1>1, <2>1 DEF Round
<1> QED BY <1>2, <1>3, <1>4, <1>5, <1>6, Steps DEF Aside

-----------------------------------------------------------------------------
(* MarketSignals: the agents *)

LEMMA StatelessSays ==
  ASSUME NEW s, NEW cs, NEW rate, NEW a \in DOMAIN Stateless(s, cs, rate),
         NEW x \in Stateless(s, cs, rate)[a]
  PROVE  x.symbol = s /\ x.agent # "grid"
<1>1. a \in {"momentum", "reversion", "breakout", "divergence", "vwap", "pairs", "funding", "sentiment"}
  BY DEF Stateless
<1>2. \E d : x \in Opinions(s, a, d) BY <1>1 DEF Stateless
<1>3. x.agent = a /\ x.symbol = s BY <1>2 DEF Opinions
<1> QED BY <1>1, <1>3

LEMMA RegimeSays ==
  ASSUME lastRegime \in {None} \union Regimes, NEW s, NEW cs, NEW r \in RegimeAnalyze(s, cs)
  PROVE  /\ r.last \in {None} \union Regimes
         /\ \A x \in r.says : x.agent = "regime" /\ x.symbol = s
<1>1. CASE Len(cs) < Tuning.regime.candles
  <2>1. r = [model |-> model, last |-> lastRegime, says |-> {}] BY <1>1 DEF RegimeAnalyze
  <2> QED BY <2>1
<1>2. CASE ~(Len(cs) < Tuning.regime.candles)
  <2>1. \A mo : Predict(mo, cs) \subseteq Regimes
    BY DEF Predict, LabelRegime, Regimes
  <2> DEFINE models == IF model = None THEN Fit(cs) ELSE {model}
  <2>2. PICK mr \in UNION {{mo} \X Predict(mo, cs) : mo \in models} :
             r = [model |-> mr[1], last |-> mr[2],
                  says |-> {[agent |-> "regime", symbol |-> s, direction |-> d,
                             boosted |-> lastRegime # None /\ mr[2] # lastRegime]
                              : d \in RegimeDirection(mr[2])}]
    BY <1>2 DEF RegimeAnalyze
  <2> HIDE DEF models
  <2>3. mr[2] \in Regimes BY <2>1, <2>2
  <2> QED BY <2>2, <2>3
<1> QED BY <1>1, <1>2

\* What the agents add to the signals of the cycle, and what the grid remembers of it.
LEMMA AnalyzeSays ==
  ASSUME Looked, Analyze
  PROVE  LET s == Head(todo)
             cs == data.klines
             level == GridAnalyze(s, cs)
         IN /\ todo # << >> /\ todo' = Tail(todo) /\ data' = NoData /\ UNCHANGED market
            /\ shown' = [shown EXCEPT ![s] = level.shown]
            /\ grid' = [grid EXCEPT ![s] = level.level]
            /\ lastRegime' \in {None} \union Regimes
            /\ signals \subseteq signals' /\ level.says \subseteq signals'
            /\ \A x \in signals' \ signals :
                 /\ x.symbol = s
                 /\ x.agent = "grid" => x \in level.says
<1> DEFINE s == Head(todo)
           cs == data.klines
           says == Stateless(s, cs, data.rate)
           level == GridAnalyze(s, cs)
<1>1. PICK raised \in SUBSET Faulty, regime \in RegimeAnalyze(s, cs) :
           /\ signals' = signals \union level.says \union regime.says
                           \union UNION {says[a] : a \in DOMAIN says \ raised}
           /\ grid' = Remember(s, level.level)
           /\ shown' = [shown EXCEPT ![s] = level.shown]
           /\ model' = regime.model /\ lastRegime' = regime.last
  BY DEF Analyze
<1>2. /\ todo # << >> /\ todo' = Tail(todo) /\ data' = NoData /\ UNCHANGED market
  BY DEF Analyze, NextSymbol, feed
<1>3. /\ regime.last \in {None} \union Regimes
      /\ \A x \in regime.says : x.agent = "regime" /\ x.symbol = s
  BY RegimeSays DEF Looked
<1>4. \A x \in level.says : x.agent = "grid" /\ x.symbol = s
  BY DEF GridAnalyze, Opinions
<1>5. \A a \in DOMAIN says : \A x \in says[a] :
        /\ x.symbol = s /\ x.agent # "grid"
  BY StatelessSays
<1>6. grid' = [grid EXCEPT ![s] = level.level] BY <1>1 DEF Remember
<1> HIDE DEF s, cs, says, level
<1>7. ASSUME NEW x \in signals' \ signals
      PROVE  /\ x.symbol = s
             /\ x.agent = "grid" => x \in level.says
  <2>1. CASE x \in level.says BY <1>4, <2>1
  <2>2. CASE x \in regime.says BY <1>3, <2>2
  <2>3. CASE \E a \in DOMAIN says : x \in says[a] BY <1>5, <2>3
  <2> QED BY <1>1, <2>1, <2>2, <2>3
<1>8. signals \subseteq signals' /\ level.says \subseteq signals' BY <1>1
<1> QED BY <1>1, <1>2, <1>3, <1>6, <1>7, <1>8 DEF s, cs, level

-----------------------------------------------------------------------------
(* MarketSignals: the candles *)

LEMMA CandleKeeps ==
  ASSUME Looked, NEW s \in Symbols, NEW p \in Prices, NewCandle(s, p)
  PROVE  /\ market' \in [Symbols -> Seq(Candle) \ {<< >>}]
         /\ \A x \in Symbols : Len(market'[x]) <= KlinesLimit
<1> DEFINE c == [close |-> p, volume |-> 1]
           cs == Append(market[s], c)
<1>0. KlinesLimit \in Nat \ {0} BY QueueAssumption
<1>1. c \in Candle BY MarketAssumption DEF Candle
<1>2. market[s] \in Seq(Candle) BY DEF Looked
<1> HIDE DEF c
<1>3. cs \in Seq(Candle) /\ cs # << >> /\ Len(cs) \in Nat
  BY <1>1, <1>2, AppendProperties, EmptySeq
<1> HIDE DEF cs
<1>4. /\ LastCandles(cs) \in Seq(Candle) /\ LastCandles(cs) # << >>
      /\ Len(LastCandles(cs)) <= KlinesLimit
  <2>1. CASE Len(cs) <= KlinesLimit BY <1>3, <2>1 DEF LastCandles
  <2>2. CASE ~(Len(cs) <= KlinesLimit)
    <3>1. LastCandles(cs) = Recent(cs, KlinesLimit) BY <2>2 DEF LastCandles
    <3>2. Recent(cs, KlinesLimit) \in Seq(Candle) /\ Len(Recent(cs, KlinesLimit)) = KlinesLimit
      BY <1>0, <1>3, <2>2, RecentSeq
    <3> QED BY <1>0, <3>1, <3>2, EmptySeq
  <2> QED BY <2>1, <2>2
<1>5. market' = [market EXCEPT ![s] = LastCandles(cs)] BY DEF NewCandle, cs, c
<1> QED BY <1>4, <1>5 DEF Looked

LEMMA LookedNext == ASSUME Round, Looked, [Next]_vars PROVE Looked'
<1>0. NoData \in Data BY EmptySeq DEF NoData, Data
<1>1. CASE Aside
  <2>1. UNCHANGED <<data, shown, grid, lastRegime>> BY <1>1 DEF Aside, memory
  <2>2. /\ market' \in [Symbols -> Seq(Candle) \ {<< >>}]
        /\ \A s \in Symbols : Len(market'[s]) <= KlinesLimit
    BY <1>1, CandleKeeps DEF Aside, Looked
  <2> QED BY <2>1, <2>2 DEF Looked, Gridded
<1>2. CASE BeginCycle \/ Fetched \/ PassedOver \/ Coordinate
  <2>1. data' \in Data /\ UNCHANGED <<market, shown, grid, lastRegime>>
    BY <1>0, <1>2 DEF BeginCycle, Fetched, PassedOver, NextSymbol, Coordinate, Looked, feed, memory
  <2> QED BY <2>1 DEF Looked, Gridded
<1>3. CASE Analyze
  <2> DEFINE s == Head(todo)
             cs == data.klines
             level == GridAnalyze(s, cs)
  <2>1. /\ todo # << >> /\ data' = NoData /\ UNCHANGED market
        /\ shown' = [shown EXCEPT ![s] = level.shown]
        /\ grid' = [grid EXCEPT ![s] = level.level]
        /\ lastRegime' \in {None} \union Regimes
    BY <1>3, AnalyzeSays
  <2>2. s \in Symbols /\ cs \in Seq(Candle) BY <2>1, TurnOver DEF Round, Looked, Data
  <2>3. \/ level.shown = shown[s] /\ level.level = grid[s]
        \/ level.shown = cs /\ level.level = GridLevel(cs) /\ Gridded(cs) /\ cs # << >>
    <3>1. CASE Len(cs) < Tuning.grid.candles \/ Closes(Recent(cs, Tuning.grid.candles)) = 0
      BY <3>1 DEF GridAnalyze
    <3>2. CASE ~(Len(cs) < Tuning.grid.candles \/ Closes(Recent(cs, Tuning.grid.candles)) = 0)
      <4>1. level.shown = cs /\ level.level = GridLevel(cs) BY <3>2 DEF GridAnalyze
      <4>2. Len(cs) \in Nat /\ Tuning.grid.candles \in Nat \ {0}
        BY <2>2, EmptySeq, TuningAssumption
      <4> QED BY <3>2, <4>1, <4>2, EmptySeq DEF Gridded
    <3> QED BY <3>1, <3>2
  <2> HIDE DEF s, cs, level
  <2>4. shown' \in [Symbols -> Seq(Candle)] BY <2>1, <2>2, <2>3 DEF Looked
  <2>5. ASSUME NEW x \in Symbols
        PROVE  /\ shown'[x] # << >> => Gridded(shown'[x])
               /\ grid'[x] = IF shown'[x] = << >> THEN None ELSE GridLevel(shown'[x])
    <3>1. CASE x # s
      <4>1. shown'[x] = shown[x] /\ grid'[x] = grid[x] BY <2>1, <3>1 DEF Looked
      <4> QED BY <4>1 DEF Looked
    <3>2. CASE x = s
      <4>1. shown'[x] = level.shown /\ grid'[x] = level.level BY <2>1, <3>2 DEF Looked
      <4> QED BY <2>3, <3>2, <4>1 DEF Looked
    <3> QED BY <3>1, <3>2
  <2>6. grid' = [x \in Symbols |-> IF shown'[x] = << >> THEN None ELSE GridLevel(shown'[x])]
    <3>1. grid' = [x \in Symbols |-> grid'[x]] BY <2>1 DEF Looked
    <3> QED BY <2>5, <3>1
  <2> QED BY <1>0, <2>1, <2>4, <2>5, <2>6 DEF Looked, Gridded
<1> QED BY <1>1, <1>2, <1>3, Steps

\* A new signal is about the symbol whose turn it is, and that turn is over.
LEMMA UnsaidNext == ASSUME Round, Looked, Unsaid, [Next]_vars PROVE Unsaid'
<1> SUFFICES ASSUME Distinct(SymbolList)
             PROVE  Distinct(todo)' /\ \A x \in signals' : \A i \in 1..Len(todo') : todo'[i] # x.symbol
  BY DEF Unsaid, Distinct
<1>0. Distinct(todo) /\ \A x \in signals : \A i \in 1..Len(todo) : todo[i] # x.symbol
  BY DEF Unsaid
<1>1. CASE UNCHANGED <<todo, signals>> BY <1>0, <1>1 DEF Distinct
<1>2. CASE BeginCycle
  <2>1. todo' = SymbolList /\ signals' = {} BY <1>2 DEF BeginCycle
  <2> QED BY <2>1 DEF Distinct
<1>3. CASE PassedOver \/ Analyze
  <2>1. todo # << >> /\ todo' = Tail(todo) /\ \A x \in signals' : x \in signals \/ x.symbol = Head(todo)
    BY <1>3, AnalyzeSays DEF PassedOver, NextSymbol
  <2>2. /\ Distinct(todo') /\ \A i \in 1..Len(todo') : todo'[i] # Head(todo)
        /\ \A i \in 1..Len(todo') : i + 1 \in 1..Len(todo) /\ todo'[i] = todo[i + 1]
    BY <1>0, <2>1, TurnOver DEF Round
  <2>3. Distinct(todo)' BY <2>2 DEF Distinct
  <2> QED BY <1>0, <2>1, <2>2, <2>3
<1>4. CASE Coordinate
  <2>1. signals' = {} /\ todo' = todo BY <1>4 DEF Coordinate
  <2> QED BY <1>0, <2>1 DEF Distinct
<1> QED BY <1>1, <1>2, <1>3, <1>4, Steps DEF Aside, Fetched

LEMMA InitInv == Init => IInv
<1> SUFFICES ASSUME Init PROVE IInv OBVIOUS
<1>1. Budget
  <2>1. 0 * CallCost = 0 /\ Refill * 0 = 0 BY BucketAssumption
  <2> QED BY <2>1, BucketAssumption DEF Init, Budget, CallBudget
<1>2. Ordered
  <2>1. Len(queue) = 0 /\ Len(taken) = 0 /\ queue \in Seq(Alert) /\ taken \in Seq(Nat)
    BY EmptySeq DEF Init
  <2> QED BY <2>1, QueueAssumption DEF Init, Ordered
<1>3. Round BY EmptySeq, CallList DEF Init, Round
<1>4. Looked
  <2>1. << >> \in Seq(Candle) /\ NoData \in Data BY EmptySeq DEF NoData, Data
  <2>2. /\ market = [s \in Symbols |-> History] /\ data = NoData
        /\ grid = [s \in Symbols |-> None] /\ lastRegime = None
        /\ shown = [s \in Symbols |-> << >>]
    BY DEF Init
  <2>3. market \in [Symbols -> Seq(Candle) \ {<< >>}]
    BY <2>2, MarketAssumption
  <2>4. \A s \in Symbols : Len(market[s]) <= KlinesLimit BY <2>2, MarketAssumption
  <2>5. shown \in [Symbols -> Seq(Candle)] BY <2>1, <2>2
  <2>6. \A s \in Symbols : shown[s] = << >> BY <2>2
  <2>7. grid = [s \in Symbols |-> IF shown[s] = << >> THEN None ELSE GridLevel(shown[s])]
    BY <2>2, <2>6
  <2> QED BY <2>1, <2>2, <2>3, <2>4, <2>5, <2>6, <2>7 DEF Looked
<1>5. Unsaid
  <2>1. todo = << >> /\ signals = {} /\ 1..Len(todo) = {} BY EmptySeq DEF Init
  <2> QED BY <2>1 DEF Unsaid, Distinct
<1> QED BY <1>1, <1>2, <1>3, <1>4, <1>5 DEF IInv

LEMMA NextInv == IInv /\ [Next]_vars => IInv'
  BY BudgetNext, OrderedNext, RoundNext, LookedNext, UnsaidNext DEF IInv

\* The inductive invariant holds in every reachable state, whatever the market, the
\* exchange, the operator and the webhook do.
THEOREM Invariance == Spec => []IInv
<1>1. Init => IInv BY InitInv
<1>2. IInv /\ [Next]_vars => IInv' BY NextInv
<1> QED BY <1>1, <1>2, PTL DEF Spec

\* All calls of all symbols stay within what the bucket held and time has refilled, for
\* any size of the bucket, refill and cost.
THEOREM CallsWithinBudget == Spec => []CallBudget
<1>1. IInv => CallBudget BY DEF IInv, Budget
<1> QED BY <1>1, Invariance, PTL

\* Every accepted alert reaches a cycle in order, or waits, or was pushed out by a full
\* queue of newer ones, for any length of the queue and number of alerts.
THEOREM AlertsReachCycles == Spec => []AlertsInOrder
<1>1. ASSUME IInv PROVE AlertsInOrder
  <2>1. /\ DOMAIN taken = 1..Len(taken) /\ DOMAIN queue = 1..Len(queue)
        /\ Len(queue) \in Nat /\ posted \in Nat /\ Len(queue) <= posted
    BY <1>1, LenProperties DEF IInv, Ordered
  <2>2. ASSUME NEW n \in 1..posted
        PROVE  n \in Range(taken) \/ (\E i \in DOMAIN queue : queue[i].id = n) \/ n + QueueLimit <= posted
    <3>1. CASE \E i \in 1..Len(taken) : taken[i] = n BY <2>1, <3>1 DEF Range
    <3>2. CASE n > posted - Len(queue)
      <4>1. n - (posted - Len(queue)) \in 1..Len(queue) BY <2>1, <3>2
      <4>2. queue[n - (posted - Len(queue))].id = posted - Len(queue) + (n - (posted - Len(queue)))
        BY <1>1, <4>1 DEF IInv, Ordered
      <4>3. queue[n - (posted - Len(queue))].id = n BY <2>1, <4>2
      <4> QED BY <2>1, <4>1, <4>3
    <3> QED BY <1>1, <3>1, <3>2 DEF IInv, Ordered
  <2>3. \A i, j \in DOMAIN taken : i < j => taken[i] < taken[j]
    BY <1>1, <2>1 DEF IInv, Ordered
  <2> QED BY <2>2, <2>3 DEF AlertsInOrder
<1> QED BY <1>1, Invariance, PTL

-----------------------------------------------------------------------------
(* MarketSignals: what the signals say.  What the configuration has to be like is a  *)
(* hypothesis.                                                                       *)

\* The level of candles that the grid accepts is one of its levels.
LEMMA LevelOfGrid ==
  ASSUME NEW cs \in Seq(Candle), Gridded(cs)
  PROVE  GridLevel(cs) \in 0..Tuning.grid.levels
<1> DEFINE n == Tuning.grid.candles
           range == Tuning.grid.range
           levels == Tuning.grid.levels
           centre == Closes(Recent(cs, n))
           up == levels * (200 * n * Price(cs) - (200 - range) * centre)
           down == 2 * range * centre
           level == up \div down
<1>1. n \in Nat \ {0} /\ range \in Nat \ {0} /\ levels \in Nat BY TuningAssumption
<1>2. n <= Len(cs) /\ cs # << >>
  <2>1. Len(cs) \in Nat /\ Len(cs) >= n BY EmptySeq, <1>1 DEF Gridded
  <2> QED BY <1>1, <2>1, EmptySeq
<1>3. centre \in Nat /\ centre # 0
  <2>1. Recent(cs, n) \in Seq(Candle) BY <1>1, <1>2, RecentSeq
  <2>2. centre # 0 BY DEF Gridded
  <2> QED BY <2>1, <2>2, SumsAreNumbers
<1>4. Price(cs) \in Nat
  <2>1. Last(cs) \in Candle BY <1>2, FrontSeq
  <2> QED BY <2>1 DEF Price, Candle
<1> HIDE DEF n, range, levels, centre
<1>5. range * centre \in Nat \ {0} BY <1>1, <1>3
<1>6. down \in Nat \ {0}
  <2>1. down = 2 * (range * centre) BY <1>1, <1>3
  <2> HIDE DEF down
  <2> QED BY <1>5, <2>1
<1>7. up \in Int
  <2>1. 200 * n * Price(cs) \in Int /\ (200 - range) * centre \in Int BY <1>1, <1>3, <1>4
  <2> QED BY <1>1, <2>1
<1> HIDE DEF up, down
<1>8. level \in Int BY <1>6, <1>7
<1>9. GridLevel(cs) = IF level < 0 THEN 0 ELSE IF level > levels THEN levels ELSE level
  BY DEF GridLevel, up, down, n, range, levels, centre
<1> HIDE DEF level
<1>10. GridLevel(cs) \in 0..levels BY <1>1, <1>8, <1>9
<1> QED BY <1>10 DEF levels

\* The grid tells each move between the candles it looks at, once and in the contrary
\* direction, whatever lies between, if the configuration lists no symbol twice.
THEOREM GridTells ==
  ASSUME Distinct(SymbolList)
  PROVE  Spec => GridTellsMoves
<1> DEFINE Told(s) ==
      {x \in signals' : x.agent = "grid" /\ x.symbol = s}
        = IF shown'[s] = shown[s] THEN {}
          ELSE Opinions(s, "grid", GridMove(GridLevel(shown[s]), GridLevel(shown'[s])))
<1>1. ASSUME IInv, [Next]_vars, NEW s \in Symbols, shown[s] # << >>, todo # << >>,
             todo' = Tail(todo), s = Head(todo)
      PROVE  Told(s)
  <2>1. Tail(todo) # todo /\ Head(todo) = todo[1] /\ 1 \in 1..Len(todo)
    BY <1>1, TurnOver DEF IInv, Round
  <2>2. \A x \in signals : x.symbol # s BY <1>1, <2>1 DEF IInv, Unsaid
  <2>3. PassedOver \/ Analyze
    <3>1. ~BeginCycle BY <1>1 DEF BeginCycle, IInv, Round
    <3>2. ~Coordinate BY <1>1 DEF Coordinate
    <3> QED BY <1>1, <2>1, <3>1, <3>2, Steps DEF IInv, Aside, Fetched
  <2>4. CASE PassedOver
    <3>1. signals' = signals /\ shown' = shown BY <2>4 DEF PassedOver, memory
    <3> QED BY <2>2, <3>1
  <2>5. CASE Analyze
    <3> DEFINE cs == data.klines
               level == GridAnalyze(s, cs)
    <3>1. /\ shown' = [shown EXCEPT ![s] = level.shown] /\ level.says \subseteq signals'
          /\ \A x \in signals' \ signals : x.agent = "grid" => x \in level.says
      BY <1>1, <2>5, AnalyzeSays DEF IInv
    <3>2. \A x \in level.says : x.agent = "grid" /\ x.symbol = s BY DEF GridAnalyze, Opinions
    <3>3. {x \in signals' : x.agent = "grid" /\ x.symbol = s} = level.says
      <4> HIDE DEF level
      <4>1. \A x \in signals' : x.agent = "grid" /\ x.symbol = s => x \in level.says
        BY <2>2, <3>1
      <4>2. \A x \in level.says : x \in signals' /\ x.agent = "grid" /\ x.symbol = s
        BY <3>1, <3>2
      <4> QED BY <4>1, <4>2
    <3>4. shown'[s] = level.shown
      <4> HIDE DEF level
      <4> QED BY <1>1, <3>1 DEF IInv, Looked
    <3>5. cs \in Seq(Candle) /\ shown[s] \in Seq(Candle) /\ Gridded(shown[s])
          /\ grid[s] = GridLevel(shown[s])
      BY <1>1 DEF IInv, Looked, Data
    <3>6. GridLevel(shown[s]) \in Int /\ GridLevel(shown[s]) # None
      <4>1. GridLevel(shown[s]) \in 0..Tuning.grid.levels BY <3>5, LevelOfGrid
      <4> QED BY <4>1, MarketAssumption, TuningAssumption
    <3>7. CASE Len(cs) < Tuning.grid.candles \/ Closes(Recent(cs, Tuning.grid.candles)) = 0
      <4>1. level.says = {} /\ level.shown = shown[s] BY <3>7 DEF GridAnalyze
      <4> QED BY <3>3, <3>4, <4>1
    <3>8. CASE ~(Len(cs) < Tuning.grid.candles \/ Closes(Recent(cs, Tuning.grid.candles)) = 0)
      <4>1. /\ level.shown = cs
            /\ level.says = Opinions(s, "grid", GridMove(GridLevel(shown[s]), GridLevel(cs)))
        BY <3>5, <3>6, <3>8 DEF GridAnalyze
      <4>2. GridMove(GridLevel(shown[s]), GridLevel(shown[s])) = {}
        BY <3>6 DEF GridMove, Directions
      <4>3. Opinions(s, "grid", {}) = {} BY DEF Opinions
      <4> QED BY <3>3, <3>4, <4>1, <4>2, <4>3
    <3> QED BY <3>7, <3>8
  <2> QED BY <2>3, <2>4, <2>5
<1>2. IInv /\ [Next]_vars =>
        \A s \in Symbols : shown[s] # << >> /\ todo # << >> /\ todo' = Tail(todo) /\ s = Head(todo)
                             => Told(s)
  BY <1>1
<1> QED BY <1>2, Invariance, PTL DEF Spec, GridTellsMoves

\* Every variable keeps its type: in particular the grid's memory is a level or nothing.
THEOREM TypeCorrect == Spec => []TypeOK
<1>1. ASSUME IInv PROVE TypeOK
  <2>1. \A s \in Symbols : grid[s] \in {None} \union 0..Tuning.grid.levels
    BY <1>1, LevelOfGrid DEF IInv, Looked
  <2> QED BY <1>1, <2>1 DEF IInv, Budget, Ordered, Round, Looked, TypeOK
<1> QED BY <1>1, Invariance, PTL

-----------------------------------------------------------------------------
(* Backtest: money *)

Positions == [side : {"LONG", "SHORT"}, paid : Int, entry : Nat \ {0}]
Trades == [kind : {"open", "close"}, side : {"BUY", "SELL"}, paid : Int,
           entry : Nat \ {0}, pnl : Int]

\* The results of trades add up as one of the functions above does.
LEMMA PnlUnrolled ==
  ASSUME NEW ts \in Seq(Trades), NEW v, v = [i \in DOMAIN ts |-> ts[i].pnl]
  PROVE  /\ v \in Seq(Int) /\ DOMAIN v = DOMAIN ts /\ Len(v) = Len(ts)
         /\ \E f : Unrolled(f, v) /\ SumPnl(ts) = f[DOMAIN v]
<1> DEFINE D == DOMAIN ts
           Sums(f) == f = [s \in SUBSET D |->
                             IF s = {} THEN 0 ELSE f[s \ {Max(s)}] + ts[Max(s)].pnl]
<1>1. D = 1..Len(ts) /\ Len(ts) \in Nat /\ DOMAIN v = D BY Indices
<1>2. \A i \in D : v[i] = ts[i].pnl /\ v[i] \in Int
  <2>1. \A i \in D : ts[i] \in Trades BY <1>1, ElementOfSeq
  <2> QED BY <2>1 DEF Trades
<1>3. v \in Seq(Int) /\ Len(v) = Len(ts)
  <2>1. v \in [1..Len(ts) -> Int] BY <1>1, <1>2
  <2> QED BY <1>1, <2>1
<1>4. \E f : Sums(f)
  <2>1. PICK f : f = [s \in SUBSET DOMAIN v |-> IF s = {} THEN 0 ELSE f[s \ {Max(s)}] + v[Max(s)]]
    BY <1>3, SumExists
  <2>2. ASSUME NEW s \in SUBSET D
        PROVE  f[s] = IF s = {} THEN 0 ELSE f[s \ {Max(s)}] + ts[Max(s)].pnl
    <3>1. f[s] = IF s = {} THEN 0 ELSE f[s \ {Max(s)}] + v[Max(s)] BY <1>1, <2>1
    <3>2. s # {} => Max(s) \in D BY <1>1, <1>3, Indices
    <3> QED BY <1>2, <3>1, <3>2
  <2>3. f = [s \in SUBSET D |-> f[s]] BY <1>1, <2>1
  <2> QED BY <2>2, <2>3
<1> DEFINE g == CHOOSE f : Sums(f)
<1>5. Sums(g) BY <1>4
<1>6. SumPnl(ts) = g[D] BY DEF SumPnl, FoldLeft, MapThenFoldSet
<1>7. Unrolled(g, v)
  <2> HIDE DEF g
  <2>1. ASSUME NEW s \in SUBSET D
        PROVE  g[s] = IF s = {} THEN 0 ELSE g[s \ {Max(s)}] + v[Max(s)]
    <3>1. g[s] = IF s = {} THEN 0 ELSE g[s \ {Max(s)}] + ts[Max(s)].pnl BY <1>5
    <3>2. s # {} => Max(s) \in D BY <1>1, <1>3, Indices
    <3> QED BY <1>2, <3>1, <3>2
  <2> QED BY <1>1, <2>1 DEF Unrolled
<1> HIDE DEF g
<1> QED BY <1>1, <1>3, <1>6, <1>7

LEMMA PnlIsNumber ==
  ASSUME NEW ts \in Seq(Trades)
  PROVE  SumPnl(ts) \in Int /\ (ts = << >> => SumPnl(ts) = 0)
<1> DEFINE v == [i \in DOMAIN ts |-> ts[i].pnl]
<1>1. /\ v \in Seq(Int) /\ Len(v) = Len(ts)
      /\ \E f : Unrolled(f, v) /\ SumPnl(ts) = f[DOMAIN v]
  BY PnlUnrolled
<1> HIDE DEF v
<1>2. PICK f : Unrolled(f, v) /\ SumPnl(ts) = f[DOMAIN v] BY <1>1
<1>3. f[DOMAIN v] \in Int
  <2>1. DOMAIN v \in SUBSET DOMAIN v /\ Int \in {Nat, Int} OBVIOUS
  <2> QED BY <1>1, <1>2, <2>1, SumTyped
<1>4. ASSUME ts = << >> PROVE f[DOMAIN v] = 0
  <2>1. Len(v) = 0 BY <1>1, <1>4
  <2>2. DOMAIN v = {} BY <1>1, <2>1, Indices
  <2> QED BY <1>2, <2>2 DEF Unrolled
<1> QED BY <1>2, <1>3, <1>4

LEMMA NoPnl == SumPnl(<< >>) = 0
<1>1. << >> \in Seq(Trades) BY EmptySeq
<1> QED BY <1>1, PnlIsNumber

LEMMA PnlAppend ==
  ASSUME NEW ts \in Seq(Trades), NEW t \in Trades
  PROVE  SumPnl(Append(ts, t)) = SumPnl(ts) + t.pnl
<1> DEFINE us == Append(ts, t)
           v == [i \in DOMAIN ts |-> ts[i].pnl]
           w == [i \in DOMAIN us |-> us[i].pnl]
<1>1. /\ us \in Seq(Trades) /\ Len(us) = Len(ts) + 1 /\ us[Len(ts) + 1] = t
      /\ \A i \in 1..Len(ts) : us[i] = ts[i]
  BY AppendProperties
<1> HIDE DEF us
<1>2. v \in Seq(Int) /\ Len(v) = Len(ts) /\ \E f : Unrolled(f, v) /\ SumPnl(ts) = f[DOMAIN v]
  BY PnlUnrolled
<1>3. w \in Seq(Int) /\ Len(w) = Len(us) /\ \E g : Unrolled(g, w) /\ SumPnl(us) = g[DOMAIN w]
  BY <1>1, PnlUnrolled
<1>4. t.pnl \in Int BY DEF Trades
<1>5. w = Append(v, t.pnl)
  <2>1. Len(ts) \in Nat /\ DOMAIN ts = 1..Len(ts) /\ DOMAIN us = 1..Len(ts) + 1
    BY <1>1, Indices
  <2>2. \A i \in 1..Len(ts) : v[i] = ts[i].pnl BY <2>1
  <2>3. \A i \in 1..Len(ts) + 1 : w[i] = us[i].pnl BY <2>1
  <2> HIDE DEF v, w
  <2>4. /\ Append(v, t.pnl) \in Seq(Int) /\ Len(Append(v, t.pnl)) = Len(ts) + 1
        /\ Append(v, t.pnl)[Len(ts) + 1] = t.pnl
        /\ \A i \in 1..Len(ts) : Append(v, t.pnl)[i] = v[i]
    BY <1>2, <1>4, AppendProperties
  <2>5. \A i \in 1..Len(ts) + 1 : w[i] = Append(v, t.pnl)[i]
    <3> TAKE i \in 1..Len(ts) + 1
    <3>1. i \in 1..Len(ts) \/ i = Len(ts) + 1 BY <2>1
    <3> QED BY <1>1, <2>2, <2>3, <2>4, <3>1
  <2>6. Len(w) = Len(Append(v, t.pnl)) BY <1>1, <1>3, <2>4
  <2>7. \A i \in 1..Len(w) : w[i] = Append(v, t.pnl)[i] BY <1>1, <1>3, <2>5
  <2> QED BY <1>3, <2>4, <2>6, <2>7, SeqEqual
<1> HIDE DEF v, w
<1>6. PICK f : Unrolled(f, v) /\ SumPnl(ts) = f[DOMAIN v] BY <1>2
<1>7. PICK g : Unrolled(g, w) /\ SumPnl(us) = g[DOMAIN w] BY <1>3
<1>8. g[DOMAIN Append(v, t.pnl)] = f[DOMAIN v] + t.pnl BY <1>2, <1>4, <1>5, <1>6, <1>7, SumAppend
<1> QED BY <1>5, <1>6, <1>7, <1>8 DEF us

-----------------------------------------------------------------------------
(* Backtest: the inductive invariant *)

\* The engine within its window.
Engine ==
  /\ candles \in Seq(Bar) /\ start \in Nat /\ phase \in {"running", "done", "refused"}
  /\ bar \in Nat \ {0} /\ capital \in Int /\ fees \in Int
  /\ position \in {None} \union Positions
  /\ trades \in Seq(Trades) /\ curve \in Seq(Int) /\ Len(curve) = bar
  /\ phase = "running" => bar <= TestBars /\ 2 <= TestBars /\ start + MinBars <= Len(candles)

\* Opens and closes take turns, and a position is open after an open only.
Paired(ts) ==
  /\ \A i \in 1..Len(ts) : ts[i].kind = IF i % 2 = 1 THEN "open" ELSE "close"
  /\ \A i \in 1..Len(ts) : i % 2 = 0 =>
       /\ ts[i].side # ts[i - 1].side
       /\ ts[i].paid = ts[i - 1].paid /\ ts[i].entry = ts[i - 1].entry
Opening(t, p) ==
  /\ t.kind = "open" /\ t.paid = p.paid /\ t.entry = p.entry
  /\ t.side = IF p.side = "LONG" THEN "BUY" ELSE "SELL"
Closing(t, p) ==
  /\ t.kind = "close" /\ t.paid = p.paid /\ t.entry = p.entry /\ t.side = CloseSide(p)
InTurn(ts, p) ==
  /\ Paired(ts)
  /\ p = None => Len(ts) % 2 = 0
  /\ p # None => Len(ts) % 2 = 1 /\ Opening(ts[Len(ts)], p)
Trips == InTurn(trades, position)

Books ==
  /\ capital = InitialCapital + SumPnl(trades) - fees
  /\ phase = "running" /\ bar > 1
       => curve[Len(curve)] = MarkToMarket(capital, position, Test(bar).close)

\* A window that has ended, and the next window's place behind it.
Settled(w) ==
  /\ w.trades \in Seq(Trades) /\ w.curve \in Seq(Int) /\ w.train \in Nat
  /\ Len(w.curve) = TestBars /\ Len(w.curve) # 0 /\ w.curve[Len(w.curve)] = w.capital
  /\ w.capital = InitialCapital + SumPnl(w.trades) - w.fees
  /\ Paired(w.trades) /\ Len(w.trades) % 2 = 0
  /\ w.test = w.train + TrainBars /\ w.end = w.train + MinBars /\ w.end <= Len(candles)
Rolled ==
  /\ windows \in Seq(Range(windows))
  /\ \A i \in 1..Len(windows) : Settled(windows[i])
  /\ \A i \in 2..Len(windows) : windows[i].train = windows[i - 1].train + StepBars
  /\ Len(windows) > 0 => start = windows[Len(windows)].train + StepBars
  /\ phase = "done" => Len(windows) > 0 /\ start + MinBars > Len(candles)

BacktestInv == Engine /\ Trips /\ Books /\ Rolled

-----------------------------------------------------------------------------
(* Backtest: one bar *)

\* Less than the whole price slips away.
LEMMA SlippedIsPrice ==
  ASSUME NEW price \in Nat \ {0}, NEW d \in {-1, 0, 1}
  PROVE  Slipped(price, d) \in Nat \ {0}
<1> DEFINE slip == (price * SlippagePct) \div 100
<1>1. SlippagePct \in 0..99 BY CapitalAssumption
<1>2. price * SlippagePct \in Nat /\ price * SlippagePct <= price * 99 BY <1>1
<1>3. slip \in Nat /\ slip < price
  <2> DEFINE product == price * SlippagePct
  <2>1. product \in Nat /\ product <= price * 99 BY <1>2
  <2> HIDE DEF product
  <2>2. product \div 100 \in Nat /\ product \div 100 < price BY <2>1
  <2> QED BY <2>2 DEF product
<1>4. Slipped(price, d) = IF d >= 1 THEN price + slip ELSE price - slip BY DEF Slipped
<1> HIDE DEF slip
<1> QED BY <1>3, <1>4

LEMMA ResultIsNumber ==
  ASSUME NEW p \in Positions, NEW price \in Int
  PROVE  RealizedPnl(p, price) \in Int
<1>1. p.paid \in Int /\ p.entry \in Nat \ {0} BY DEF Positions
<1> DEFINE move == IF p.side = "LONG" THEN price - p.entry ELSE p.entry - price
<1>2. move \in Int BY <1>1
<1> HIDE DEF move
<1>3. move * p.paid \in Int BY <1>1, <1>2
<1> DEFINE product == move * p.paid
<1> HIDE DEF product
<1>4. product \in Int BY <1>3 DEF product
<1>5. product \div p.entry \in Int BY <1>1, <1>4
<1> QED BY <1>5 DEF RealizedPnl, move, product

LEMMA Charges == ASSUME Engine PROVE Notional \in Int /\ Commission \in Int
<1>1. capital \in Int /\ PositionPct \in Nat /\ CommissionPct \in Nat
  BY CapitalAssumption DEF Engine
<1>2. capital * PositionPct \in Int BY <1>1
<1>3. Notional \in Int BY <1>2 DEF Notional
<1>4. Notional * CommissionPct \in Int BY <1>1, <1>3
<1> QED BY <1>3, <1>4 DEF Commission

\* The bars of a window are bars.
LEMMA BarOfWindow ==
  ASSUME Engine, phase = "running", NEW i \in 1..TestBars
  PROVE  Test(i).close \in Nat \ {0}
<1>1. start \in Nat /\ TrainBars \in Nat /\ TestBars \in Nat /\ Len(candles) \in Nat
      /\ start + TrainBars + TestBars <= Len(candles)
  BY WindowAssumption, EmptySeq DEF Engine, MinBars
<1>2. start + TrainBars + i \in 1..Len(candles) BY <1>1
<1>3. candles[start + TrainBars + i] \in Bar BY <1>2, ElementOfSeq DEF Engine
<1> QED BY <1>3 DEF Test, Bar

LEMMA MarkIsNumber ==
  ASSUME NEW cash \in Int, NEW p \in {None} \union Positions, NEW price \in Int
  PROVE  MarkToMarket(cash, p, price) \in Int
BY ResultIsNumber DEF MarkToMarket

LEMMA OpenKeepsTurn ==
  ASSUME NEW ts \in Seq(Trades), InTurn(ts, None), NEW t \in Trades,
         NEW p \in Positions, Opening(t, p)
  PROVE  InTurn(Append(ts, t), p)
<1> DEFINE us == Append(ts, t)
           n == Len(ts)
<1>1. /\ n \in Nat /\ Len(us) = n + 1 /\ us[n + 1] = t /\ \A i \in 1..n : us[i] = ts[i]
  BY AppendProperties, EmptySeq
<1>2. n % 2 = 0 BY DEF InTurn
<1>3. (n + 1) % 2 = 1 BY <1>1, <1>2
<1> HIDE DEF us, n
<1>4. p # None BY NoneAssumption DEF Positions
<1>5. ASSUME NEW i \in 1..n + 1 PROVE us[i].kind = IF i % 2 = 1 THEN "open" ELSE "close"
  <2>1. CASE i = n + 1 BY <1>1, <1>3, <2>1 DEF Opening
  <2>2. CASE i # n + 1
    <3>1. i \in 1..Len(ts) /\ us[i] = ts[i] BY <1>1, <2>2 DEF n
    <3> QED BY <3>1 DEF InTurn, Paired
  <2> QED BY <2>1, <2>2
<1>6. ASSUME NEW i \in 1..n + 1, i % 2 = 0
      PROVE  us[i].side # us[i - 1].side /\ us[i].paid = us[i - 1].paid
             /\ us[i].entry = us[i - 1].entry
  <2>1. i # n + 1 BY <1>3, <1>6
  <2>2. i \in 1..n /\ i # 1 BY <1>1, <1>6, <2>1
  <2>3. i - 1 \in 1..n BY <1>1, <2>2
  <2>4. us[i] = ts[i] /\ us[i - 1] = ts[i - 1] BY <1>1, <2>2, <2>3
  <2> QED BY <1>6, <2>2, <2>4 DEF InTurn, Paired, n
<1>7. InTurn(us, p) BY <1>1, <1>3, <1>4, <1>5, <1>6 DEF InTurn, Paired
<1> QED BY <1>7 DEF us

LEMMA CloseKeepsTurn ==
  ASSUME NEW ts \in Seq(Trades), NEW p \in Positions, InTurn(ts, p),
         NEW t \in Trades, Closing(t, p)
  PROVE  InTurn(Append(ts, t), None)
<1> DEFINE us == Append(ts, t)
           n == Len(ts)
<1>1. /\ n \in Nat /\ Len(us) = n + 1 /\ us[n + 1] = t /\ \A i \in 1..n : us[i] = ts[i]
  BY AppendProperties, EmptySeq
<1>2. n % 2 = 1 /\ Opening(ts[n], p)
  <2>1. p # None BY NoneAssumption DEF Positions
  <2> QED BY <2>1 DEF InTurn
<1>3. (n + 1) % 2 = 0 /\ n \in 1..n BY <1>1, <1>2
<1> HIDE DEF us, n
<1>5. ASSUME NEW i \in 1..n + 1 PROVE us[i].kind = IF i % 2 = 1 THEN "open" ELSE "close"
  <2>1. CASE i = n + 1 BY <1>1, <1>3, <2>1 DEF Closing
  <2>2. CASE i # n + 1
    <3>1. i \in 1..Len(ts) /\ us[i] = ts[i] BY <1>1, <2>2 DEF n
    <3> QED BY <3>1 DEF InTurn, Paired
  <2> QED BY <2>1, <2>2
<1>6. ASSUME NEW i \in 1..n + 1, i % 2 = 0
      PROVE  us[i].side # us[i - 1].side /\ us[i].paid = us[i - 1].paid
             /\ us[i].entry = us[i - 1].entry
  <2>1. CASE i = n + 1
    <3>1. us[i] = t /\ us[i - 1] = ts[n] BY <1>1, <1>3, <2>1
    <3>2. t.side # ts[n].side BY <1>2 DEF Opening, Closing, CloseSide
    <3> QED BY <1>2, <3>1, <3>2 DEF Opening, Closing
  <2>2. CASE i # n + 1
    <3>2. i \in 1..n /\ i # 1 BY <1>1, <1>6, <2>2
    <3>3. i - 1 \in 1..n BY <1>1, <3>2
    <3>4. us[i] = ts[i] /\ us[i - 1] = ts[i - 1] BY <1>1, <3>2, <3>3
    <3> QED BY <1>6, <3>2, <3>4 DEF InTurn, Paired, n
  <2> QED BY <2>1, <2>2
<1>7. InTurn(us, None) BY <1>1, <1>3, <1>5, <1>6 DEF InTurn, Paired
<1> QED BY <1>7 DEF us

\* A bar's equity is booked with the cash and the position the bar leaves.
LEMMA BarBooked ==
  ASSUME Engine, Replaying, UNCHANGED <<candles, start, phase>>,
         capital' \in Int, position' \in {None} \union Positions,
         curve' = Append(curve, MarkToMarket(capital', position', Close)), bar' = bar + 1
  PROVE  /\ curve' \in Seq(Int) /\ Len(curve') = bar' /\ bar' \in Nat \ {0} /\ bar' <= TestBars
         /\ curve'[Len(curve')] = MarkToMarket(capital', position', Test(bar)'.close)
<1>1. bar \in Nat \ {0} /\ bar + 1 \in 1..TestBars /\ phase = "running"
  BY WindowAssumption DEF Engine, Replaying
<1>2. Close \in Int BY <1>1, BarOfWindow DEF Close
<1>3. MarkToMarket(capital', position', Close) \in Int BY <1>2, MarkIsNumber
<1>4. /\ curve' \in Seq(Int) /\ Len(curve') = Len(curve) + 1
      /\ curve'[Len(curve) + 1] = MarkToMarket(capital', position', Close)
  BY <1>3, AppendProperties DEF Engine
<1>5. Test(bar)'.close = Close BY DEF Test, Close
<1> QED BY <1>1, <1>4, <1>5 DEF Engine

LEMMA HeldKeeps ==
  ASSUME BacktestInv, Replaying, Booked(capital, position),
         UNCHANGED <<candles, start, phase, capital, position, trades, fees, windows>>
  PROVE  BacktestInv'
<1>1. /\ curve' \in Seq(Int) /\ Len(curve') = bar' /\ bar' \in Nat \ {0} /\ bar' <= TestBars
      /\ curve'[Len(curve')] = MarkToMarket(capital', position', Test(bar)'.close)
  <2>1. curve' = Append(curve, MarkToMarket(capital', position', Close)) /\ bar' = bar + 1
    BY DEF Booked
  <2>2. Engine /\ capital' \in Int /\ position' \in {None} \union Positions
    BY DEF BacktestInv, Engine
  <2> QED BY <2>1, <2>2, BarBooked
<1>2. Engine' BY <1>1 DEF BacktestInv, Engine
<1>3. Trips' BY DEF BacktestInv, Trips
<1>4. Books' BY <1>1 DEF BacktestInv, Books
<1>5. Rolled' BY DEF BacktestInv, Rolled, Settled
<1> QED BY <1>2, <1>3, <1>4, <1>5 DEF BacktestInv

LEMMA OpenKeeps ==
  ASSUME BacktestInv, NEW d \in {-1, 0, 1}, Open(d)
  PROVE  BacktestInv'
<1> DEFINE t == BacktestTrade("open", IF d >= 1 THEN "BUY" ELSE "SELL", Opened(d), 0)
<1>0. Engine /\ Replaying /\ position = None BY DEF BacktestInv, Open
<1>1. Commission \in Int /\ Notional \in Int BY <1>0, Charges
<1>2. Opened(d) \in Positions
  <2>1. bar + 1 \in 1..TestBars /\ phase = "running" BY <1>0, WindowAssumption DEF Engine, Replaying
  <2>2. Slipped(Close, d) \in Nat \ {0} BY <1>0, <2>1, BarOfWindow, SlippedIsPrice DEF Close
  <2> QED BY <1>1, <2>2 DEF Opened, Positions
<1>3. t \in Trades /\ Opening(t, Opened(d)) /\ t.pnl = 0
  <2>1. Opened(d).side = IF d >= 1 THEN "LONG" ELSE "SHORT" BY DEF Opened
  <2>2. Opened(d).paid \in Int /\ Opened(d).entry \in Nat \ {0} BY <1>2 DEF Positions
  <2> QED BY <2>1, <2>2 DEF BacktestTrade, Trades, Opening
<1>4. /\ position' = Opened(d) /\ capital' = capital - Commission /\ fees' = fees + Commission
      /\ trades' = Append(trades, t) /\ UNCHANGED <<candles, start, phase, windows>>
      /\ curve' = Append(curve, MarkToMarket(capital', position', Close)) /\ bar' = bar + 1
  BY DEF Open, Booked
<1> HIDE DEF t
<1>5. capital' \in Int /\ fees' \in Int /\ position' \in Positions
  BY <1>0, <1>1, <1>2, <1>4 DEF Engine
<1>6. trades' \in Seq(Trades) /\ SumPnl(trades') = SumPnl(trades)
  <2>1. trades' \in Seq(Trades) BY <1>0, <1>3, <1>4, AppendProperties DEF Engine
  <2>2. SumPnl(trades') = SumPnl(trades) + 0 BY <1>0, <1>3, <1>4, PnlAppend DEF Engine
  <2>3. SumPnl(trades) \in Int BY <1>0, PnlIsNumber DEF Engine
  <2> QED BY <2>1, <2>2, <2>3
<1>7. /\ curve' \in Seq(Int) /\ Len(curve') = bar' /\ bar' \in Nat \ {0} /\ bar' <= TestBars
      /\ curve'[Len(curve')] = MarkToMarket(capital', position', Test(bar)'.close)
  BY <1>0, <1>4, <1>5, BarBooked
<1>8. Engine' BY <1>0, <1>4, <1>5, <1>6, <1>7 DEF Engine
<1>9. Trips' 
  <2>1. InTurn(trades, None) BY <1>0 DEF BacktestInv, Trips
  <2> QED BY <1>0, <1>2, <1>3, <1>4, <2>1, OpenKeepsTurn DEF Trips, Engine
<1>10. Books'
  <2>1. capital = InitialCapital + SumPnl(trades) - fees BY DEF BacktestInv, Books
  <2>2. InitialCapital \in Int /\ SumPnl(trades) \in Int /\ fees \in Int
    BY <1>0, CapitalAssumption, PnlIsNumber DEF Engine
  <2>3. capital' = InitialCapital + SumPnl(trades') - fees'
    BY <1>1, <1>4, <1>6, <2>1, <2>2
  <2> QED BY <1>7, <2>3 DEF Books
<1>11. Rolled' BY <1>4 DEF BacktestInv, Rolled, Settled
<1> QED BY <1>8, <1>9, <1>10, <1>11 DEF BacktestInv

LEMMA CloseKeeps ==
  ASSUME BacktestInv, NEW d \in {-1, 0, 1}, CloseOut(d)
  PROVE  BacktestInv'
<1> DEFINE pnl == RealizedPnl(position, Slipped(Close, d))
           t == BacktestTrade("close", CloseSide(position), position, pnl)
<1>0. Engine /\ Replaying /\ position \in Positions BY DEF BacktestInv, CloseOut, Engine
<1>1. Commission \in Int BY <1>0, Charges
<1>2. pnl \in Int
  <2>1. bar + 1 \in 1..TestBars /\ phase = "running" BY <1>0, WindowAssumption DEF Engine, Replaying
  <2>2. Slipped(Close, d) \in Int BY <1>0, <2>1, BarOfWindow, SlippedIsPrice DEF Close
  <2> QED BY <1>0, <2>2, ResultIsNumber
<1>3. t \in Trades /\ Closing(t, position) /\ t.pnl = pnl
  <2> HIDE DEF pnl
  <2>1. position.paid \in Int /\ position.entry \in Nat \ {0} BY <1>0 DEF Positions
  <2>2. CloseSide(position) \in {"BUY", "SELL"} BY DEF CloseSide
  <2> QED BY <1>2, <2>1, <2>2 DEF BacktestTrade, Trades, Closing
<1>4. /\ position' = None /\ capital' = capital + pnl - Commission /\ fees' = fees + Commission
      /\ trades' = Append(trades, t) /\ UNCHANGED <<candles, start, phase, windows>>
      /\ curve' = Append(curve, MarkToMarket(capital', position', Close)) /\ bar' = bar + 1
  BY DEF CloseOut, Booked
<1> HIDE DEF t, pnl
<1>5. capital' \in Int /\ fees' \in Int BY <1>0, <1>1, <1>2, <1>4 DEF Engine
<1>6. trades' \in Seq(Trades) /\ SumPnl(trades') = SumPnl(trades) + pnl
  <2>1. trades' \in Seq(Trades) BY <1>0, <1>3, <1>4, AppendProperties DEF Engine
  <2>2. SumPnl(trades') = SumPnl(trades) + pnl BY <1>0, <1>3, <1>4, PnlAppend DEF Engine
  <2> QED BY <2>1, <2>2
<1>7. /\ curve' \in Seq(Int) /\ Len(curve') = bar' /\ bar' \in Nat \ {0} /\ bar' <= TestBars
      /\ curve'[Len(curve')] = MarkToMarket(capital', position', Test(bar)'.close)
  BY <1>0, <1>4, <1>5, BarBooked
<1>8. Engine' BY <1>0, <1>4, <1>5, <1>6, <1>7 DEF Engine
<1>9. Trips'
  <2>1. InTurn(trades, position) BY DEF BacktestInv, Trips
  <2> QED BY <1>0, <1>3, <1>4, <2>1, CloseKeepsTurn DEF Trips, Engine
<1>10. Books'
  <2>1. capital = InitialCapital + SumPnl(trades) - fees BY DEF BacktestInv, Books
  <2>2. InitialCapital \in Int /\ SumPnl(trades) \in Int /\ fees \in Int
    BY <1>0, CapitalAssumption, PnlIsNumber DEF Engine
  <2>3. capital' = InitialCapital + SumPnl(trades') - fees'
    BY <1>1, <1>2, <1>4, <1>6, <2>1, <2>2
  <2> QED BY <1>7, <2>3 DEF Books
<1>11. Rolled' BY <1>4 DEF BacktestInv, Rolled, Settled
<1> QED BY <1>8, <1>9, <1>10, <1>11 DEF BacktestInv

-----------------------------------------------------------------------------
(* Backtest: the end of a window *)

\* A sequence of anything, one longer.
LEMMA OneMore ==
  ASSUME NEW s, s \in Seq(Range(s)), NEW x
  PROVE  /\ Append(s, x) \in Seq(Range(Append(s, x))) /\ Len(s) \in Nat
         /\ Len(Append(s, x)) = Len(s) + 1 /\ Append(s, x)[Len(s) + 1] = x
         /\ \A i \in 1..Len(s) : Append(s, x)[i] = s[i]
<1> DEFINE S == Range(s) \union {x}
           a == Append(s, x)
<1>1. s \in Seq(S) /\ x \in S
  <2>1. Len(s) \in Nat /\ DOMAIN s = 1..Len(s) BY Indices
  <2>2. \A i \in 1..Len(s) : s[i] \in S BY <2>1 DEF Range
  <2>3. s \in [1..Len(s) -> S] BY <2>1, <2>2
  <2> HIDE DEF S
  <2>4. s \in Seq(S) BY <2>1, <2>3
  <2> QED BY <2>4 DEF S
<1> HIDE DEF S
<1>2. /\ a \in Seq(S) /\ Len(a) = Len(s) + 1 /\ a[Len(s) + 1] = x
      /\ \A i \in 1..Len(s) : a[i] = s[i] /\ Len(s) \in Nat
  BY <1>1, AppendProperties
<1> HIDE DEF a
<1>3. Len(a) \in Nat /\ DOMAIN a = 1..Len(a) BY <1>2, Indices
<1>4. \A i \in 1..Len(a) : a[i] \in Range(a) BY <1>3 DEF Range
<1>5. a = [i \in 1..Len(a) |-> a[i]] BY <1>2, <1>3
<1>6. a \in [1..Len(a) -> Range(a)] BY <1>4, <1>5
<1>7. a \in Seq(Range(a)) BY <1>3, <1>6
<1>8. Len(s) \in Nat BY EmptySeq
<1> QED BY <1>2, <1>7, <1>8 DEF a

\* What is left of a window is closed: nothing remains to be earned.
LEMMA ForcedSettles ==
  ASSUME Engine, Trips, Books, phase = "running", bar = TestBars
  PROVE  Settled(Result(Forced))
<1> DEFINE w == Result(Forced)
           f == Forced
<1>1. /\ w.train = start /\ w.test = start + TrainBars /\ w.end = start + TrainBars + TestBars
      /\ w.capital = f.capital /\ w.fees = fees /\ w.trades = f.trades /\ w.curve = f.curve
  BY DEF Result
<1>2. /\ TrainBars \in Nat /\ TestBars \in Nat /\ bar > 1 /\ bar \in Nat
      /\ start \in Nat /\ start + MinBars <= Len(candles)
  BY WindowAssumption DEF Engine
<1>3. curve[Len(curve)] = MarkToMarket(capital, position, Test(bar).close)
  BY <1>2 DEF Books
<1>4. /\ f.trades \in Seq(Trades) /\ f.curve \in Seq(Int) /\ Len(f.curve) = TestBars
      /\ f.curve[Len(f.curve)] = f.capital
      /\ f.capital = InitialCapital + SumPnl(f.trades) - fees
      /\ Paired(f.trades) /\ Len(f.trades) % 2 = 0
  <2>1. CASE position = None
    <3>1. f.trades = trades /\ f.capital = capital /\ f.curve = curve BY <2>1 DEF Forced
    <3>2. curve[Len(curve)] = capital BY <1>3, <2>1 DEF MarkToMarket
    <3>3. Paired(trades) /\ Len(trades) % 2 = 0 BY <2>1 DEF Trips, InTurn
    <3> HIDE DEF f
    <3> QED BY <3>1, <3>2, <3>3 DEF Engine, Books
  <2>2. CASE position # None
    <3> DEFINE pnl == RealizedPnl(position, Test(TestBars).close)
               t == BacktestTrade("close", CloseSide(position), position, pnl)
    <3>1. position \in Positions BY <2>2 DEF Engine
    <3>2. /\ f.trades = Append(trades, t) /\ f.capital = capital + pnl
          /\ f.curve = LastPoint(capital + pnl)
      BY <2>2 DEF Forced
    <3>3. pnl \in Int
      <4>1. TestBars \in 1..TestBars BY <1>2
      <4>2. Test(TestBars).close \in Int BY <4>1, BarOfWindow
      <4> QED BY <3>1, <4>2, ResultIsNumber
    <3> HIDE DEF f, pnl
    <3>4. t \in Trades /\ Closing(t, position) /\ t.pnl = pnl
      <4>1. position.paid \in Int /\ position.entry \in Nat \ {0} BY <3>1 DEF Positions
      <4>2. CloseSide(position) \in {"BUY", "SELL"} BY DEF CloseSide
      <4> QED BY <3>3, <4>1, <4>2 DEF BacktestTrade, Trades, Closing
    <3> HIDE DEF t
    <3>5. f.trades \in Seq(Trades) /\ SumPnl(f.trades) = SumPnl(trades) + pnl
      <4>1. f.trades \in Seq(Trades) BY <3>2, <3>4, AppendProperties DEF Engine
      <4>2. SumPnl(f.trades) = SumPnl(trades) + pnl BY <3>2, <3>4, PnlAppend DEF Engine
      <4> QED BY <4>1, <4>2
    <3>6. InTurn(f.trades, None)
      BY <3>1, <3>2, <3>4, CloseKeepsTurn DEF Trips, Engine
    <3>7. f.capital = InitialCapital + SumPnl(f.trades) - fees
      <4>1. InitialCapital \in Int /\ SumPnl(trades) \in Int /\ fees \in Int
        BY CapitalAssumption, PnlIsNumber DEF Engine
      <4> QED BY <3>2, <3>3, <3>5, <4>1 DEF Books
    <3>8. /\ f.curve \in Seq(Int) /\ Len(f.curve) = TestBars
          /\ f.curve[Len(f.curve)] = f.capital
      <4>1. capital + pnl \in Int BY <3>3 DEF Engine
      <4>2. Len(curve) \in 1..Len(curve) BY <1>2 DEF Engine
      <4>3. /\ LastPoint(capital + pnl) \in Seq(Int)
            /\ Len(LastPoint(capital + pnl)) = Len(curve)
            /\ LastPoint(capital + pnl)[Len(curve)] = capital + pnl
        BY <4>1, <4>2, ExceptSeq DEF LastPoint, Engine
      <4> QED BY <3>2, <4>3 DEF Engine
    <3> QED BY <3>5, <3>6, <3>7, <3>8 DEF InTurn
  <2> QED BY <2>1, <2>2
<1> HIDE DEF w, f
<1>5. w.train \in Nat /\ w.end = w.train + MinBars /\ w.end <= Len(candles) /\ Len(w.curve) # 0
  BY <1>1, <1>2, <1>4 DEF MinBars
<1>6. w.test = w.train + TrainBars BY <1>1
<1>7. Settled(w) BY <1>1, <1>4, <1>5, <1>6 DEF Settled
<1> QED BY <1>7 DEF w

LEMMA EndKeeps == ASSUME BacktestInv, EndWindow PROVE BacktestInv'
<1> DEFINE w == Result(Forced)
           n == Len(windows)
<1>1. /\ phase = "running" /\ bar = TestBars /\ windows' = Append(windows, w)
      /\ start' = start + StepBars /\ candles' = candles
      /\ phase' = IF start + StepBars + MinBars <= Len(candles) THEN "running" ELSE "done"
      /\ bar' = 1 /\ capital' = InitialCapital /\ position' = None
      /\ curve' = <<InitialCapital>> /\ trades' = << >> /\ fees' = 0
  BY DEF EndWindow, Advanced
<1>2. Settled(w) BY <1>1, ForcedSettles DEF BacktestInv
<1>3. w.train = start BY DEF Result
<1>4. /\ windows' \in Seq(Range(windows')) /\ n \in Nat /\ Len(windows') = n + 1
      /\ windows'[n + 1] = w /\ \A i \in 1..n : windows'[i] = windows[i]
  BY <1>1, OneMore DEF BacktestInv, Rolled
<1> HIDE DEF w
<1>5. Engine'
  <2>1. /\ start' \in Nat /\ TestBars \in Nat /\ 2 <= TestBars /\ InitialCapital \in Int
        /\ candles' \in Seq(Bar)
    BY <1>1, WindowAssumption, CapitalAssumption DEF BacktestInv, Engine
  <2>2. trades' \in Seq(Trades) /\ curve' \in Seq(Int) /\ Len(curve') = 1
    BY <1>1, <2>1, EmptySeq
  <2> QED BY <1>1, <2>1, <2>2 DEF Engine, MinBars
<1>6. Trips'
  <2>1. Len(trades') = 0 /\ position' = None BY <1>1
  <2> QED BY <2>1 DEF Trips, InTurn, Paired
<1>7. Books'
  <2>1. SumPnl(trades') = 0 /\ InitialCapital \in Int BY <1>1, NoPnl, CapitalAssumption
  <2> QED BY <1>1, <2>1 DEF Books
<1>8. Rolled'
  <2>1. \A i \in 1..n : Settled(windows[i]) BY DEF BacktestInv, Rolled
  <2>2. ASSUME NEW i \in 1..n + 1 PROVE Settled(windows[i])'
    <3>1. windows'[i] = IF i = n + 1 THEN w ELSE windows[i] BY <1>4
    <3>2. Settled(IF i = n + 1 THEN w ELSE windows[i]) BY <1>2, <1>4, <2>1
    <3> QED BY <1>1, <3>1, <3>2 DEF Settled
  <2>3. ASSUME NEW i \in 2..n + 1 PROVE windows'[i].train = windows'[i - 1].train + StepBars
    <3>1. CASE i = n + 1
      <4>1. i - 1 = n /\ n \in 1..n BY <1>4, <3>1
      <4> QED BY <1>3, <1>4, <3>1, <4>1 DEF BacktestInv, Rolled
    <3>2. CASE i # n + 1
      <4>1. i \in 2..n /\ i \in 1..n /\ i - 1 \in 1..n BY <1>4, <3>2
      <4> QED BY <1>4, <4>1 DEF BacktestInv, Rolled
    <3> QED BY <3>1, <3>2
  <2>4. start' = windows'[n + 1].train + StepBars BY <1>1, <1>3, <1>4
  <2>5. phase' = "done" => start' + MinBars > Len(candles')
    <3>1. /\ start \in Nat /\ StepBars \in Nat /\ MinBars \in Nat /\ Len(candles) \in Nat
      BY WindowAssumption, EmptySeq DEF BacktestInv, Engine, MinBars
    <3> QED BY <1>1, <3>1
  <2> QED BY <1>4, <2>2, <2>3, <2>4, <2>5 DEF Rolled
<1> QED BY <1>5, <1>6, <1>7, <1>8 DEF BacktestInv

LEMMA BacktestStarts == ASSUME BacktestInit PROVE BacktestInv
<1>1. /\ candles \in Seq(Bar) /\ start = 0 /\ bar = 1 /\ capital = InitialCapital
      /\ phase = IF Len(candles) < MinBars \/ TestBars < 2 THEN "refused" ELSE "running"
      /\ position = None /\ curve = <<InitialCapital>> /\ trades = << >> /\ fees = 0
      /\ windows = << >>
  BY MarketsAssumption DEF BacktestInit
<1>2. TestBars \in Nat /\ MinBars \in Nat /\ Len(candles) \in Nat /\ InitialCapital \in Int
  BY <1>1, WindowAssumption, CapitalAssumption, EmptySeq DEF MinBars
<1>3. trades \in Seq(Trades) /\ Len(trades) = 0 /\ curve \in Seq(Int) /\ Len(curve) = 1
  BY <1>1, <1>2, EmptySeq
<1>4. Engine BY <1>1, <1>2, <1>3 DEF Engine
<1>5. Trips BY <1>1, <1>3 DEF Trips, InTurn, Paired
<1>6. Books
  <2>1. SumPnl(trades) = 0 BY <1>1, NoPnl
  <2> QED BY <1>1, <1>2, <2>1 DEF Books
<1>7. Rolled BY <1>1, EmptySeq DEF Rolled
<1> QED BY <1>4, <1>5, <1>6, <1>7 DEF BacktestInv

\* The state of every backtest and walk-forward, on whatever markets and with whatever
\* generator: the books balance, trades pair up and the windows are in their places.
THEOREM BacktestInvariance == BacktestSpec => []BacktestInv
<1>1. BacktestInit => BacktestInv BY BacktestStarts
<1>2. BacktestInv /\ [BacktestNext]_backtest => BacktestInv'
  <2>1. SUFFICES ASSUME BacktestInv, [BacktestNext]_backtest PROVE BacktestInv' OBVIOUS
  <2>2. CASE NoSignal BY <2>1, <2>2, HeldKeeps DEF NoSignal
  <2>3. ASSUME NEW d \in {-1, 0, 1}, Open(d) PROVE BacktestInv' BY <2>1, <2>3, OpenKeeps
  <2>4. ASSUME NEW d \in {-1, 0, 1}, Hold(d) PROVE BacktestInv'
    BY <2>1, <2>4, HeldKeeps DEF Hold
  <2>5. ASSUME NEW d \in {-1, 0, 1}, CloseOut(d) PROVE BacktestInv' BY <2>1, <2>5, CloseKeeps
  <2>6. CASE EndWindow BY <2>1, <2>6, EndKeeps
  <2>7. CASE UNCHANGED backtest
    BY <2>1, <2>7 DEF backtest, engine, BacktestInv, Engine, Trips, Books, Rolled, Settled, Test
  <2> QED BY <2>1, <2>2, <2>3, <2>4, <2>5, <2>6, <2>7 DEF BacktestNext, Stopped
<1> QED BY <1>1, <1>2, PTL DEF BacktestSpec

LEMMA EachWindow ==
  ASSUME BacktestInv, NEW w \in Range(windows)
  PROVE  Settled(w)
<1>1. Len(windows) \in Nat /\ DOMAIN windows = 1..Len(windows)
  BY Indices DEF BacktestInv, Rolled
<1>2. PICK i \in 1..Len(windows) : w = windows[i] BY <1>1 DEF Range
<1> QED BY <1>2 DEF BacktestInv, Rolled

\* Cash is what the trades have earned less the commissions, bar by bar and at the end of
\* every window, where the curve ends in it.
THEOREM BooksBalanced == BacktestSpec => []BooksBalance
<1>1. ASSUME BacktestInv PROVE BooksBalance
  <2>1. \A w \in Range(windows) : Settled(w) BY <1>1, EachWindow
  <2>2. \A w \in Range(windows) :
          /\ w.capital = InitialCapital + SumPnl(w.trades) - w.fees
          /\ Last(w.curve) = w.capital /\ Len(w.curve) = TestBars
    BY <2>1 DEF Settled, Last
  <2>3. /\ capital = InitialCapital + SumPnl(trades) - fees
        /\ phase = "running" /\ bar > 1
             => Last(curve) = MarkToMarket(capital, position, Test(bar).close)
    BY <1>1 DEF BacktestInv, Books, Last
  <2> QED BY <2>2, <2>3 DEF BooksBalance
<1> QED BY <1>1, BacktestInvariance, PTL

\* Whatever the generator says and wherever a window ends, its positions are opened and
\* closed in turn, each one on the other side and as a whole.
THEOREM TripsClosed == BacktestSpec => []RoundTrips
<1>1. ASSUME BacktestInv PROVE RoundTrips
  <2>1. SUFFICES ASSUME NEW w \in Range(windows)
                 PROVE  /\ Len(w.trades) % 2 = 0
                        /\ \A i \in DOMAIN w.trades :
                             w.trades[i].kind = IF i % 2 = 1 THEN "open" ELSE "close"
                        /\ \A i \in DOMAIN w.trades : i % 2 = 0 =>
                             /\ w.trades[i].side # w.trades[i - 1].side
                             /\ w.trades[i].paid = w.trades[i - 1].paid
                             /\ w.trades[i].entry = w.trades[i - 1].entry
    BY DEF RoundTrips
  <2>2. w.trades \in Seq(Trades) /\ Paired(w.trades) /\ Len(w.trades) % 2 = 0
    BY <1>1, EachWindow DEF Settled
  <2>3. DOMAIN w.trades = 1..Len(w.trades) BY <2>2, Indices
  <2> QED BY <2>2, <2>3 DEF Paired
<1> QED BY <1>1, BacktestInvariance, PTL

\* With steps as long as the test windows, each test window begins where the one before it
\* ended, and fewer bars than a step are left at the end.
THEOREM BarsTestedOnce ==
  ASSUME StepBars = TestBars
  PROVE  BacktestSpec => []EachBarTestedOnce
<1>1. ASSUME BacktestInv PROVE EachBarTestedOnce
  <2>0. /\ TrainBars \in Nat /\ TestBars \in Nat /\ StepBars \in Nat /\ Len(windows) \in Nat
        /\ Len(candles) \in Nat
    BY <1>1, WindowAssumption, EmptySeq DEF BacktestInv, Rolled, Engine
  <2>1. \A w \in Range(windows) : w.test = w.train + TrainBars BY <1>1, EachWindow DEF Settled
  <2>2. \A i \in 1..Len(windows) : Settled(windows[i]) BY <1>1 DEF BacktestInv, Rolled
  <2>3. ASSUME NEW i \in 2..Len(windows) PROVE windows[i].test = windows[i - 1].end
    <3>1. i \in 1..Len(windows) /\ i - 1 \in 1..Len(windows) BY <2>0
    <3>2. windows[i].train = windows[i - 1].train + StepBars BY <1>1 DEF BacktestInv, Rolled
    <3>3. windows[i - 1].train \in Nat /\ windows[i - 1].end = windows[i - 1].train + MinBars
          /\ windows[i].test = windows[i].train + TrainBars
      BY <2>2, <3>1 DEF Settled
    <3> QED BY <2>0, <3>2, <3>3 DEF MinBars
  <2>4. ASSUME phase = "done" PROVE Len(candles) - Last(windows).end \in 0..(StepBars - 1)
    <3> DEFINE w == windows[Len(windows)]
    <3>1. Len(windows) > 0 /\ start = w.train + StepBars /\ start + MinBars > Len(candles)
      BY <1>1, <2>4 DEF BacktestInv, Rolled
    <3>2. Len(windows) \in 1..Len(windows) BY <2>0, <3>1
    <3>3. w.train \in Nat /\ w.end = w.train + MinBars /\ w.end <= Len(candles)
      BY <2>2, <3>2 DEF Settled
    <3> HIDE DEF w
    <3>4. Len(candles) - w.end \in 0..(StepBars - 1) BY <2>0, <3>1, <3>3 DEF MinBars
    <3> QED BY <3>4 DEF w, Last
  <2> QED BY <2>1, <2>3, <2>4 DEF EachBarTestedOnce
<1> QED BY <1>1, BacktestInvariance, PTL
=============================================================================

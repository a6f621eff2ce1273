----------------------------- MODULE ForecastProofs -----------------------------
(***************************************************************************)
(* What Good Time guarantees for every tariff, history, series, quote and   *)
(* order of ticks: a verdict is good exactly in the cheapest share of its   *)
(* comparable hours, and is suppressed only, and wherever it must be, for a *)
(* better hour to come.  And what the insights are: the windows shown are   *)
(* the earliest of the cheapest stretches without a gap, and the trend      *)
(* compares the exact costs of two hours.                                   *)
(*                                                                         *)
(* At the end the cache behind the forecast, for every number of days,      *)
(* ticks, timezones and mishaps: whatever Nord Pool answers and however the *)
(* ticks interleave, the cached delivery dates form one valid series, and a *)
(* date is dropped only when it is over.                                    *)
(***************************************************************************)
EXTENDS ForecastInsights, ForecastSeries, FiniteSetTheorems, WellFoundedInduction, TLAPS

-----------------------------------------------------------------------------
(* Sums.                                                                     *)

\* The member that MapThenSumSet takes first.
Pick(s) == CHOOSE x \in s : TRUE

\* g sums e over the subsets of S, a member at a time.
Summing(g, e, S) ==
    g = [s \in SUBSET S |-> IF s = {} THEN 0 ELSE e[Pick(s)] + g[s \ {Pick(s)}]]

\* SumOf evaluates the one function that sums e over the subsets of S.
LEMMA SumIsIterated ==
  ASSUME NEW S, NEW e
  PROVE  SumOf(S, e) = (CHOOSE g : Summing(g, e, S))[S]
BY DEF SumOf, MapThenSumSet, MapThenFoldSet, Pick, Summing

\* What is taken is a member.
LEMMA PickIn ==
  ASSUME NEW s, s # {}
  PROVE  Pick(s) \in s
BY Zenon DEF Pick

\* A set of subsets of a finite set has a member none of whose proper subsets is in it.
LEMMA SmallestSubset ==
  ASSUME NEW S, IsFiniteSet(S), NEW T, T \subseteq SUBSET S, T # {}
  PROVE  \E s \in T : \A r \in SUBSET s : r \in T => r = s
<1>1. IsWellFoundedOn(StrictSubsetOrdering(S), SUBSET S)
  BY FS_StrictSubsetOrderingWellFounded, FS_FiniteSubsetsOfFinite
<1>2. PICK s \in T : \A r \in T : <<r, s>> \notin StrictSubsetOrdering(S)
  BY <1>1, WFMin, Zenon
<1>3. ASSUME NEW r \in SUBSET s, r \in T PROVE r = s
  <2>1. <<r, s>> \in (SUBSET S) \X (SUBSET S)
    BY <1>3
  <2>2. ~(r \subseteq s /\ r # s)
    BY <1>2, <1>3, <2>1 DEF StrictSubsetOrdering
  <2> QED
    BY <1>3, <2>2
<1> QED
  BY <1>2, <1>3

\* Two functions that sum e agree on the sets that both are about.
LEMMA SumsAgree ==
  ASSUME NEW S, IsFiniteSet(S), NEW e, NEW A \in SUBSET S, NEW B \in SUBSET S, NEW f, NEW g,
         Summing(f, e, A), Summing(g, e, B),
         NEW s \in SUBSET (A \intersect B)
  PROVE  f[s] = g[s]
<1> DEFINE T == {r \in SUBSET (A \intersect B) : f[r] # g[r]}
<1> SUFFICES ASSUME T # {} PROVE FALSE
  OBVIOUS
<1>1. PICK r \in T : \A q \in SUBSET r : q \in T => q = r
  <2>1. T \subseteq SUBSET S
    OBVIOUS
  <2> HIDE DEF T
  <2> QED
    BY <2>1, SmallestSubset
<1>2. /\ f[r] = IF r = {} THEN 0 ELSE e[Pick(r)] + f[r \ {Pick(r)}]
      /\ g[r] = IF r = {} THEN 0 ELSE e[Pick(r)] + g[r \ {Pick(r)}]
  BY DEF Summing
<1>3. r # {}
  BY <1>2
<1>4. f[r \ {Pick(r)}] = g[r \ {Pick(r)}]
  BY <1>1, <1>3, PickIn
<1> QED
  BY <1>2, <1>3, <1>4

\* For every finite set there is a function that sums e over its subsets.
LEMMA SumsExist ==
  ASSUME NEW S, IsFiniteSet(S), NEW e
  PROVE  \E g : Summing(g, e, S)
<1> DEFINE T == {s \in SUBSET S : ~ \E g : Summing(g, e, s)}
<1> SUFFICES ASSUME T # {} PROVE FALSE
  OBVIOUS
<1>1. PICK s \in T : \A r \in SUBSET s : r \in T => r = s
  <2>1. T \subseteq SUBSET S
    OBVIOUS
  <2> HIDE DEF T
  <2> QED
    BY <2>1, SmallestSubset
<1> DEFINE G(r) == CHOOSE g : Summing(g, e, r)
           F    == [r \in SUBSET s |-> IF r = {} THEN 0
                                       ELSE e[Pick(r)] + G(r \ {Pick(r)})[r \ {Pick(r)}]]
<1>2. ASSUME NEW r \in SUBSET s, r # s PROVE Summing(G(r), e, r)
  <2>1. \E g : Summing(g, e, r)
    BY <1>1, <1>2
  <2> QED
    BY <2>1, Zenon
<1>3. ASSUME NEW r \in SUBSET s, r # {} 
      PROVE  G(r \ {Pick(r)})[r \ {Pick(r)}] = F[r \ {Pick(r)}]
  <2> DEFINE q == r \ {Pick(r)}
             p == q \ {Pick(q)}
  <2>1. q \in SUBSET s /\ q # s
    BY <1>3, PickIn
  <2>2. Summing(G(q), e, q)
    BY <1>2, <2>1
  <2>3. G(q)[q] = IF q = {} THEN 0 ELSE e[Pick(q)] + G(q)[p]
    <3> HIDE DEF q, G
    <3> QED
      BY <2>2 DEF Summing
  <2>4. F[q] = IF q = {} THEN 0 ELSE e[Pick(q)] + G(p)[p]
    BY <2>1
  <2>5. q # {} => p \in SUBSET s /\ p # s /\ p \subseteq q
    BY <2>1, PickIn
  <2>6. q # {} => Summing(G(p), e, p)
    BY <1>2, <2>5
  <2>7. q # {} => G(q)[p] = G(p)[p]
    <3> SUFFICES ASSUME q # {} PROVE G(q)[p] = G(p)[p]
      OBVIOUS
    <3>1. /\ q \in SUBSET S /\ p \in SUBSET S /\ p \in SUBSET (q \intersect p)
          /\ Summing(G(q), e, q) /\ Summing(G(p), e, p)
      BY <2>1, <2>2, <2>5, <2>6
    <3> HIDE DEF q, p
    <3>2. ASSUME NEW f, NEW h, Summing(f, e, q), Summing(h, e, p) PROVE f[p] = h[p]
      <4> HIDE DEF G, F, T
      <4> QED
        BY <3>1, <3>2, SumsAgree
    <3> HIDE DEF G
    <3> QED
      BY <3>1, <3>2, Zenon
  <2> HIDE DEF p, F, G
  <2>8. G(q)[q] = F[q]
    BY <2>3, <2>4, <2>7
  <2> QED
    BY <2>8
<1>4. F = [r \in SUBSET s |-> IF r = {} THEN 0 ELSE e[Pick(r)] + F[r \ {Pick(r)}]]
  <2> HIDE DEF G
  <2> QED
    BY <1>3
<1>5. Summing(F, e, s)
  <2> HIDE DEF F
  <2> QED BY <1>4 DEF Summing
<1> QED
  BY <1>1, <1>5

\* SumOf takes the members of a set one after the other.
LEMMA SumOfSums ==
  ASSUME NEW S, IsFiniteSet(S), NEW e, NEW R \in SUBSET S
  PROVE  /\ SumOf(R, e) = IF R = {} THEN 0 ELSE e[Pick(R)] + SumOf(R \ {Pick(R)}, e)
<1> DEFINE G(r) == CHOOSE g : Summing(g, e, r)
           Q == R \ {Pick(R)}
<1>1. \A r \in SUBSET S : Summing(G(r), e, r)
  <2> TAKE r \in SUBSET S
  <2>1. \E g : Summing(g, e, r)
    BY SumsExist, FS_Subset
  <2> QED
    BY <2>1, Zenon
<1>2. G(R)[R] = IF R = {} THEN 0 ELSE e[Pick(R)] + G(R)[Q]
  <2> Summing(G(R), e, R) BY <1>1
  <2> HIDE DEF G
  <2> QED BY DEF Summing
<1>3. G(R)[Q] = G(Q)[Q]
  <2>1. Summing(G(R), e, R) /\ Summing(G(Q), e, Q)
    BY <1>1
  <2>2. Q \in SUBSET S /\ Q \in SUBSET (R \intersect Q)
    OBVIOUS
  <2> HIDE DEF G, Q
  <2> QED
    BY <2>1, <2>2, SumsAgree
<1>4. SumOf(R, e) = G(R)[R] /\ SumOf(Q, e) = G(Q)[Q]
  <2> HIDE DEF Q
  <2> QED BY SumIsIterated, Zenon
<1> HIDE DEF G
<1> QED
  BY <1>2, <1>3, <1>4

\* Nothing sums to zero.
THEOREM SumEmpty ==
  ASSUME NEW e
  PROVE  SumOf({}, e) = 0
BY SumOfSums, FS_EmptySet

\* The sum of integers is an integer.
THEOREM SumInteger ==
  ASSUME NEW S, IsFiniteSet(S), NEW e, \A x \in S : e[x] \in Int
  PROVE  SumOf(S, e) \in Int
<1> DEFINE T == {s \in SUBSET S : SumOf(s, e) \notin Int}
<1> SUFFICES ASSUME T # {} PROVE FALSE
  OBVIOUS
<1>1. PICK s \in T : \A r \in SUBSET s : r \in T => r = s
  <2>1. T \subseteq SUBSET S
    OBVIOUS
  <2> HIDE DEF T
  <2> QED
    BY <2>1, SmallestSubset
<1>2. SumOf(s, e) = IF s = {} THEN 0 ELSE e[Pick(s)] + SumOf(s \ {Pick(s)}, e)
  BY SumOfSums
<1>3. s # {} => Pick(s) \in s /\ SumOf(s \ {Pick(s)}, e) \in Int
  BY <1>1, PickIn
<1> QED
  BY <1>2, <1>3

\* Any member can be taken out first.
THEOREM SumRemove ==
  ASSUME NEW S, IsFiniteSet(S), NEW e, \A x \in S : e[x] \in Int, NEW x \in S
  PROVE  SumOf(S, e) = e[x] + SumOf(S \ {x}, e)
<1> DEFINE T == {s \in SUBSET S : \E y \in s : SumOf(s, e) # e[y] + SumOf(s \ {y}, e)}
<1> SUFFICES ASSUME T # {} PROVE FALSE
  OBVIOUS
<1>1. PICK s \in T : \A r \in SUBSET s : r \in T => r = s
  <2>1. T \subseteq SUBSET S
    OBVIOUS
  <2> HIDE DEF T
  <2> QED
    BY <2>1, SmallestSubset
<1>2. PICK y \in s : SumOf(s, e) # e[y] + SumOf(s \ {y}, e)
  OBVIOUS
<1> DEFINE p == Pick(s)
<1>3. SumOf(s, e) = e[p] + SumOf(s \ {p}, e)
  BY SumOfSums
<1>4. p \in s /\ p # y
  BY <1>2, <1>3, PickIn
<1>5. ASSUME NEW r \in SUBSET s, r # s, NEW z \in r
      PROVE  SumOf(r, e) = e[z] + SumOf(r \ {z}, e)
  BY <1>1, <1>5
<1>6. SumOf(s \ {p}, e) = e[y] + SumOf((s \ {p}) \ {y}, e)
  <2>1. s \ {p} \in SUBSET s /\ s \ {p} # s /\ y \in s \ {p}
    BY <1>4
  <2> HIDE DEF p, T
  <2> QED
    BY <1>5, <2>1, Zenon
<1>7. SumOf(s \ {y}, e) = e[p] + SumOf((s \ {p}) \ {y}, e)
  <2>1. s \ {y} \in SUBSET s /\ s \ {y} # s /\ p \in s \ {y}
    BY <1>4
  <2>2. (s \ {y}) \ {p} = (s \ {p}) \ {y}
    OBVIOUS
  <2> HIDE DEF p, T
  <2> QED
    BY <1>5, <2>1, <2>2, Zenon
<1>8. e[p] \in Int /\ e[y] \in Int /\ SumOf((s \ {p}) \ {y}, e) \in Int
  <2>1. IsFiniteSet((s \ {p}) \ {y})
    BY FS_Subset
  <2> QED
    BY <1>4, <2>1, SumInteger
<1> HIDE DEF p, T
<1> QED
  BY <1>2, <1>3, <1>6, <1>7, <1>8
\* Functions that agree on a set have one sum over it.
LEMMA SumSame ==
  ASSUME NEW S, IsFiniteSet(S), NEW e, NEW f, \A x \in S : f[x] = e[x]
  PROVE  SumOf(S, f) = SumOf(S, e)
<1> DEFINE T == {s \in SUBSET S : SumOf(s, f) # SumOf(s, e)}
<1> SUFFICES ASSUME T # {} PROVE FALSE
  OBVIOUS
<1>1. PICK s \in T : \A r \in SUBSET s : r \in T => r = s
  <2>1. T \subseteq SUBSET S
    OBVIOUS
  <2> HIDE DEF T
  <2> QED
    BY <2>1, SmallestSubset
<1>2. /\ SumOf(s, e) = IF s = {} THEN 0 ELSE e[Pick(s)] + SumOf(s \ {Pick(s)}, e)
      /\ SumOf(s, f) = IF s = {} THEN 0 ELSE f[Pick(s)] + SumOf(s \ {Pick(s)}, f)
  BY SumOfSums
<1>3. s # {} => Pick(s) \in s /\ SumOf(s \ {Pick(s)}, e) = SumOf(s \ {Pick(s)}, f)
  BY <1>1, PickIn
<1> QED
  BY <1>2, <1>3

\* The sum of natural numbers is one, and no sum over a part is larger.
LEMMA SumOfPart ==
  ASSUME NEW S, IsFiniteSet(S), NEW e, \A x \in S : e[x] \in Nat, NEW A \in SUBSET S
  PROVE  SumOf(A, e) \in Nat /\ SumOf(A, e) <= SumOf(S, e)
<1>1. ASSUME NEW R \in SUBSET S PROVE SumOf(R, e) \in Nat
  <2> DEFINE T == {s \in SUBSET R : SumOf(s, e) \notin Nat}
  <2> SUFFICES ASSUME T # {} PROVE FALSE
    OBVIOUS
  <2>0. IsFiniteSet(R)
    BY FS_Subset
  <2>1. PICK s \in T : \A r \in SUBSET s : r \in T => r = s
    <3>1. T \subseteq SUBSET R
      OBVIOUS
    <3> HIDE DEF T
    <3> QED
      BY <2>0, <3>1, SmallestSubset
  <2>2. SumOf(s, e) = IF s = {} THEN 0 ELSE e[Pick(s)] + SumOf(s \ {Pick(s)}, e)
    BY SumOfSums
  <2>3. s # {} => Pick(s) \in s /\ SumOf(s \ {Pick(s)}, e) \in Nat
    BY <2>1, PickIn
  <2> QED
    BY <2>2, <2>3
<1> DEFINE T == {s \in SUBSET S : A \subseteq s /\ ~(SumOf(A, e) <= SumOf(s, e))}
<1>2. T = {}
  <2> SUFFICES ASSUME T # {} PROVE FALSE
    OBVIOUS
  <2>1. PICK s \in T : \A r \in SUBSET s : r \in T => r = s
    <3>1. T \subseteq SUBSET S
      OBVIOUS
    <3> HIDE DEF T
    <3> QED
      BY <3>1, SmallestSubset
  <2>2. SumOf(A, e) \in Nat /\ SumOf(s, e) \in Nat
    BY <1>1
  <2>3. PICK x \in s : x \notin A
    BY <2>2
  <2>4. SumOf(s, e) = e[x] + SumOf(s \ {x}, e)
    <3>1. IsFiniteSet(s) /\ \A y \in s : e[y] \in Int
      BY FS_Subset
    <3> QED
      BY <3>1, SumRemove
  <2>5. SumOf(A, e) <= SumOf(s \ {x}, e)
    BY <2>1, <2>3
  <2>6. SumOf(s \ {x}, e) \in Nat /\ e[x] \in Nat
    BY <1>1
  <2> QED
    BY <2>2, <2>4, <2>5, <2>6
<1> QED
  BY <1>1, <1>2

\* Positive numbers have a positive sum.
LEMMA SumPositive ==
  ASSUME NEW S, IsFiniteSet(S), S # {}, NEW e, \A x \in S : e[x] \in Nat \ {0}
  PROVE  SumOf(S, e) \in Nat \ {0}
<1>1. PICK x \in S : TRUE
  OBVIOUS
<1>2. SumOf(S, e) = e[x] + SumOf(S \ {x}, e)
  BY SumRemove
<1>3. SumOf(S \ {x}, e) \in Nat
  BY SumOfPart
<1> QED
  BY <1>2, <1>3

\* The sum over two sets apart is the sum of their sums.
LEMMA SumUnion ==
  ASSUME NEW A, NEW B, IsFiniteSet(A), IsFiniteSet(B), A \intersect B = {},
         NEW e, \A x \in A \union B : e[x] \in Int
  PROVE  SumOf(A \union B, e) = SumOf(A, e) + SumOf(B, e)
<1> DEFINE T == {s \in SUBSET B : SumOf(A \union s, e) # SumOf(A, e) + SumOf(s, e)}
<1> SUFFICES ASSUME T # {} PROVE FALSE
  OBVIOUS
<1>1. PICK s \in T : \A r \in SUBSET s : r \in T => r = s
  <2>1. T \subseteq SUBSET B
    OBVIOUS
  <2> HIDE DEF T
  <2> QED
    BY <2>1, SmallestSubset
<1>2. SumOf(A, e) \in Int
  BY SumInteger
<1>11. SumOf(A \union s, e) # SumOf(A, e) + SumOf(s, e)
  BY <1>1
<1>3. s # {}
  <2>1. ASSUME s = {} PROVE FALSE
    <3>1. A \union s = A
      BY <2>1
    <3>2. SumOf(s, e) = 0
      BY <2>1, SumEmpty
    <3>3. SumOf(A, e) = SumOf(A, e) + 0
      BY <1>2
    <3> HIDE DEF T
    <3> QED
      BY <1>11, <3>1, <3>2, <3>3, Zenon
  <2> QED
    BY <2>1
<1>4. PICK y : y \in s
  BY <1>3
<1>5. /\ IsFiniteSet(s) /\ IsFiniteSet(A \union s) /\ IsFiniteSet(s \ {y})
      /\ \A x \in A \union s : e[x] \in Int
  BY <1>1, FS_Subset, FS_Union, FS_RemoveElement
<1>6. SumOf(s, e) = e[y] + SumOf(s \ {y}, e)
  BY <1>4, <1>5, SumRemove
<1>7. SumOf(A \union s, e) = e[y] + SumOf(A \union (s \ {y}), e)
  <2>1. SumOf(A \union s, e) = e[y] + SumOf((A \union s) \ {y}, e)
    BY <1>4, <1>5, SumRemove
  <2>2. (A \union s) \ {y} = A \union (s \ {y})
    BY <1>1, <1>4
  <2> HIDE DEF T
  <2> QED
    BY <2>1, <2>2, Zenon
<1>9. SumOf(A \union (s \ {y}), e) = SumOf(A, e) + SumOf(s \ {y}, e)
  BY <1>1, <1>4
<1>10. e[y] \in Int /\ SumOf(s \ {y}, e) \in Int
  BY <1>4, <1>5, SumInteger
<1> HIDE DEF T
<1> QED
  BY <1>2, <1>6, <1>7, <1>9, <1>10, <1>11

\* A constant is summed as often as there are members.
LEMMA SumConstant ==
  ASSUME NEW S, IsFiniteSet(S), NEW c \in Int, NEW e, \A x \in S : e[x] = c
  PROVE  SumOf(S, e) = Cardinality(S) * c
<1> DEFINE T == {s \in SUBSET S : SumOf(s, e) # Cardinality(s) * c}
<1> SUFFICES ASSUME T # {} PROVE FALSE
  OBVIOUS
<1>1. PICK s \in T : \A r \in SUBSET s : r \in T => r = s
  <2>1. T \subseteq SUBSET S
    OBVIOUS
  <2> HIDE DEF T
  <2> QED
    BY <2>1, SmallestSubset
<1>2. IsFiniteSet(s) /\ \A x \in s : e[x] = c
  BY <1>1, FS_Subset
<1>10. SumOf(s, e) # Cardinality(s) * c
  BY <1>1
<1>3. s # {}
  <2>1. SumOf({}, e) = 0 /\ Cardinality({}) * c = 0
    BY SumEmpty, FS_EmptySet
  <2> HIDE DEF T
  <2> QED
    BY <1>10, <2>1, Zenon
<1>4. PICK y : y \in s
  BY <1>3
<1>5. SumOf(s, e) = c + SumOf(s \ {y}, e)
  BY <1>2, <1>4, SumRemove
<1>6. SumOf(s \ {y}, e) = Cardinality(s \ {y}) * c
  BY <1>1, <1>4
<1>7. PICK n : n = Cardinality(s \ {y})
  OBVIOUS
<1>8. n \in Nat /\ Cardinality(s) = n + 1
  <2>1. Cardinality(s \ {y}) = Cardinality(s) - 1 /\ IsFiniteSet(s \ {y})
    BY <1>2, <1>4, FS_RemoveElement
  <2>2. Cardinality(s) \in Nat /\ Cardinality(s \ {y}) \in Nat
    BY <1>2, <2>1, FS_CardinalityType
  <2> QED
    BY <1>7, <2>1, <2>2
<1>9. (n + 1) * c = c + n * c
  BY <1>8
<1> HIDE DEF T
<1> QED
  BY <1>5, <1>6, <1>7, <1>8, <1>9, <1>10

\* The units of time of an interval.
Span(x) == x.start .. x.end - 1

\* Intervals of which each begins after all that began before have ended.
Disjoint(X) ==
    \A i \in X : /\ i.start \in Int /\ i.end \in Int /\ i.start < i.end
                 /\ \A j \in X : i # j => i.end <= j.start \/ j.end <= i.start

(* What is due interval by interval is what is due unit of time by unit of   *)
(* time: a sum of lengths times prices is the sum of the prices of all units. *)
LEMMA SumOfSpans ==
  ASSUME NEW S, IsFiniteSet(S), Disjoint(S), NEW e, NEW f,
         \A x \in S : \E c \in Int : e[x] = (x.end - x.start) * c /\ \A u \in Span(x) : f[u] = c
  PROVE  SumOf(S, e) = SumOf(UNION {Span(x) : x \in S}, f)
<1> DEFINE All(s) == UNION {Span(x) : x \in s}
           T == {s \in SUBSET S : ~(IsFiniteSet(All(s)) /\ SumOf(s, e) = SumOf(All(s), f))}
<1> SUFFICES ASSUME T # {} PROVE FALSE
  OBVIOUS
<1>1. PICK s \in T : \A r \in SUBSET s : r \in T => r = s
  <2>1. T \subseteq SUBSET S
    OBVIOUS
  <2> HIDE DEF T
  <2> QED
    BY <2>1, SmallestSubset
<1>2. s # {}
  <2>1. IsFiniteSet(All({})) /\ SumOf({}, e) = 0 /\ SumOf(All({}), f) = 0
    <3>1. All({}) = {}
      OBVIOUS
    <3> QED
      BY <3>1, SumEmpty, FS_EmptySet
  <2> QED
    BY <1>1, <2>1
<1>3. PICK x : x \in s
  BY <1>2
<1> DEFINE r == s \ {x}
<1>4. IsFiniteSet(All(r)) /\ SumOf(r, e) = SumOf(All(r), f)
  <2>1. r \in SUBSET S /\ r \in SUBSET s /\ r # s
    BY <1>1, <1>3
  <2>2. r \notin T
    <3> HIDE DEF T, r
    <3> QED
      BY <1>1, <2>1
  <2> HIDE DEF r, All
  <2> QED
    BY <2>1, <2>2
<1>5. PICK c \in Int : e[x] = (x.end - x.start) * c /\ \A u \in Span(x) : f[u] = c
  BY <1>1, <1>3
<1>6. x.start \in Int /\ x.end \in Int /\ x.start < x.end
  BY <1>1, <1>3 DEF Disjoint
<1>7. IsFiniteSet(Span(x)) /\ SumOf(Span(x), f) = (x.end - x.start) * c
  <2>1. IsFiniteSet(Span(x)) /\ Cardinality(Span(x)) = x.end - x.start
    BY <1>6, FS_Interval DEF Span
  <2> QED
    BY <1>5, <2>1, SumConstant
<1>8. All(s) = Span(x) \union All(r)
  BY <1>3
<1>9. Span(x) \intersect All(r) = {}
  <2> SUFFICES ASSUME NEW y \in r, NEW u \in Span(x), u \in Span(y) PROVE FALSE
    OBVIOUS
  <2>1. /\ y.start \in Int /\ y.end \in Int /\ y # x
        /\ x.end <= y.start \/ y.end <= x.start
    BY <1>1, <1>3 DEF Disjoint
  <2>2. u \in Int /\ x.start <= u /\ u < x.end /\ y.start <= u /\ u < y.end
    BY <1>6, <2>1 DEF Span
  <2> QED
    BY <1>6, <2>1, <2>2
<1>10. \A u \in Span(x) \union All(r) : f[u] \in Int
  <2>1. ASSUME NEW u \in All(r) PROVE f[u] \in Int
    <3>1. PICK y \in r : u \in Span(y)
      OBVIOUS
    <3> QED
      BY <1>1, <3>1
  <2> QED
    BY <1>5, <2>1
<1>11. IsFiniteSet(All(s)) /\ SumOf(All(s), f) = SumOf(Span(x), f) + SumOf(All(r), f)
  <2> HIDE DEF r, All, T
  <2>1. /\ IsFiniteSet(Span(x) \union All(r))
        /\ SumOf(Span(x) \union All(r), f) = SumOf(Span(x), f) + SumOf(All(r), f)
    <3>1. IsFiniteSet(Span(x)) /\ IsFiniteSet(All(r))
      BY <1>4, <1>7
    <3>2. IsFiniteSet(Span(x) \union All(r))
      BY <3>1, FS_Union, Zenon
    <3>3. SumOf(Span(x) \union All(r), f) = SumOf(Span(x), f) + SumOf(All(r), f)
      <4>1. PICK A, B : A = Span(x) /\ B = All(r)
        OBVIOUS
      <4>2. /\ IsFiniteSet(A) /\ IsFiniteSet(B) /\ A \intersect B = {}
            /\ \A u \in A \union B : f[u] \in Int
        BY <3>1, <4>1, <1>9, <1>10, Zenon
      <4>3. SumOf(A \union B, f) = SumOf(A, f) + SumOf(B, f)
        BY <4>2, SumUnion
      <4> QED
        BY <4>1, <4>3, Zenon
    <3> QED
      BY <3>2, <3>3
  <2> QED
    BY <1>8, <2>1, Zenon
<1>12. SumOf(s, e) = e[x] + SumOf(r, e)
  <2>1. ASSUME NEW y \in s PROVE e[y] \in Int
    <3>1. y.start \in Int /\ y.end \in Int
      BY <1>1, <2>1 DEF Disjoint
    <3>2. PICK d \in Int : e[y] = (y.end - y.start) * d
      BY <1>1, <2>1
    <3>3. y.end - y.start \in Int
      BY <3>1
    <3>4. \A a, b \in Int : a * b \in Int
      OBVIOUS
    <3> QED
      BY <3>2, <3>3, <3>4
  <2>2. IsFiniteSet(s)
    BY <1>1, FS_Subset
  <2> QED
    BY <1>3, <2>1, <2>2, SumRemove
<1>13. ~(IsFiniteSet(All(s)) /\ SumOf(s, e) = SumOf(All(s), f))
  BY <1>1
<1> HIDE DEF T, All, r
<1> QED
  BY <1>4, <1>5, <1>7, <1>11, <1>12, <1>13

-----------------------------------------------------------------------------
(* Quantiles.                                                                *)

\* Observations that can be weighed at the day d.
Weighable(obs, d) ==
    /\ IsFiniteSet(obs)
    /\ \A o \in obs : o.price \in Int /\ o.covered * Recency[d - o.day] \in Nat \ {0}

\* Of a finite set of observations some are the cheapest and some the dearest.
LEMMA Extremes ==
  ASSUME NEW obs, IsFiniteSet(obs), obs # {}, \A o \in obs : o.price \in Int
  PROVE  /\ \E o \in obs : \A q \in obs : o.price <= q.price
         /\ \E o \in obs : \A q \in obs : q.price <= o.price
<1> DEFINE Low(s)  == \E o \in s : \A q \in s : o.price <= q.price
           High(s) == \E o \in s : \A q \in s : q.price <= o.price
           T       == {s \in SUBSET obs : s # {} /\ ~(Low(s) /\ High(s))}
<1> SUFFICES ASSUME T # {} PROVE FALSE
  OBVIOUS
<1>1. PICK s \in T : \A r \in SUBSET s : r \in T => r = s
  <2>1. T \subseteq SUBSET obs
    OBVIOUS
  <2> HIDE DEF T
  <2> QED
    BY <2>1, SmallestSubset
<1>2. PICK x \in s : TRUE
  OBVIOUS
<1>3. CASE s \ {x} = {}
  <2>1. \A q \in s : q = x
    BY <1>3
  <2> QED
    BY <1>2, <2>1
<1>4. CASE s \ {x} # {}
  <2>1. Low(s \ {x}) /\ High(s \ {x})
    <3>1. s \ {x} \in SUBSET s /\ s \ {x} # s /\ s \ {x} \in SUBSET obs
      OBVIOUS
    <3>2. s \ {x} \notin T
      <4> HIDE DEF T
      <4> QED
        BY <1>1, <3>1
    <3> HIDE DEF Low, High
    <3> QED
      BY <1>4, <3>1, <3>2
  <2>2. PICK l \in s \ {x} : \A q \in s \ {x} : l.price <= q.price
    BY <2>1
  <2>3. PICK h \in s \ {x} : \A q \in s \ {x} : q.price <= h.price
    BY <2>1
  <2>4. Low(s)
    BY <2>2, <1>2
  <2>5. High(s)
    BY <2>3, <1>2
  <2> QED
    BY <2>4, <2>5
<1> QED
  BY <1>3, <1>4

\* A part weighs no more than the whole, and whatever is weighed weighs something.
LEMMA WeightOfPart ==
  ASSUME NEW obs, NEW d, Weighable(obs, d), NEW A \in SUBSET obs
  PROVE  /\ Weight(A, d) \in Nat /\ Weight(obs, d) \in Nat
         /\ Weight(A, d) <= Weight(obs, d)
         /\ A # {} => Weight(A, d) > 0
         /\ A = {} => Weight(A, d) = 0
<1> DEFINE e == [o \in obs |-> o.covered * Recency[d - o.day]]
           a == [o \in A |-> o.covered * Recency[d - o.day]]
<1>1. IsFiniteSet(obs) /\ IsFiniteSet(A) /\ \A o \in obs : e[o] \in Nat \ {0}
  BY FS_Subset DEF Weighable
<1>2. \A o \in A : a[o] = e[o]
  OBVIOUS
<1>3. Weight(obs, d) = SumOf(obs, e) /\ Weight(A, d) = SumOf(A, a)
  BY DEF Weight
<1> HIDE DEF e, a
<1>4. SumOf(A, a) = SumOf(A, e)
  BY <1>1, <1>2, SumSame
<1>5. /\ SumOf(A, e) \in Nat /\ SumOf(A, e) <= SumOf(obs, e)
      /\ SumOf(obs, e) \in Nat
  BY <1>1, SumOfPart
<1>6. A # {} => SumOf(A, e) \in Nat \ {0}
  BY <1>1, SumPositive
<1>7. A = {} => SumOf(A, e) = 0
  BY SumEmpty
<1> QED
  BY <1>3, <1>4, <1>5, <1>6, <1>7

(* A price is at most the quantile exactly if what is cheaper weighs less    *)
(* than the target share, also where the cumulative weight reaches it        *)
(* exactly, or several observations have one price.                          *)
LEMMA QuantileShare ==
  ASSUME NEW obs, NEW d, Weighable(obs, d), obs # {}, NEW percent \in 1 .. 100, NEW price \in Int
  PROVE  price <= Quantile(obs, d, percent)
            <=> 100 * Weight({o \in obs : o.price < price}, d) < percent * Weight(obs, d)
<1> DEFINE Upto(q) == {r \in obs : r.price <= q.price}
           Reached == {q \in obs : 100 * Weight(Upto(q), d) >= percent * Weight(obs, d)}
           cheaper == {o \in obs : o.price < price}
           W == Weight(obs, d)
<1>1. W \in Nat /\ W > 0 /\ \A A \in SUBSET obs : Weight(A, d) \in Nat /\ Weight(A, d) <= W
  BY WeightOfPart
<1>2. \A q \in obs : q.price \in Int
  BY DEF Weighable
<1>3. Reached # {}
  <2>1. PICK q \in obs : \A r \in obs : r.price <= q.price
    BY <1>2, Extremes DEF Weighable
  <2>2. Upto(q) = obs
    BY <2>1
  <2>3. 100 * W >= percent * W
    BY <1>1
  <2>4. 100 * Weight(Upto(q), d) >= percent * Weight(obs, d)
    BY <2>2, <2>3
  <2> QED
    BY <2>4
<1>4. PICK q \in Reached : \A r \in Reached : q.price <= r.price
  <2>1. IsFiniteSet(Reached)
    BY FS_Subset DEF Weighable
  <2>2. \A r \in Reached : r.price \in Int
    BY <1>2
  <2> HIDE DEF Reached
  <2> QED
    BY <1>3, <2>1, <2>2, Extremes
<1>5. Quantile(obs, d, percent) = q.price
  <2>1. Quantile(obs, d, percent) = Min({o.price : o \in Reached})
    BY DEF Quantile
  <2> HIDE DEF Reached
  <2>2. \A r \in Reached : r.price \in Int
    BY <1>2 DEF Reached
  <2>3. \A p \in {o.price : o \in Reached} : p \in Int /\ q.price <= p
    BY <1>4, <2>2
  <2>4. q.price \in {o.price : o \in Reached}
    BY <1>4
  <2>5. Min({o.price : o \in Reached}) = q.price
    <3> DEFINE P == {o.price : o \in Reached}
    <3> HIDE DEF P
    <3>1. q.price \in P /\ \A p \in P : p \in Int /\ q.price <= p
      BY <2>3, <2>4 DEF P
    <3>2. Min(P) = q.price
      BY <3>1 DEF Min
    <3> QED
      BY <3>2 DEF P
  <2> QED
    BY <2>1, <2>5
<1>6. ASSUME price <= q.price PROVE 100 * Weight(cheaper, d) < percent * W
  <2>1. CASE cheaper = {}
    <3>1. Weight(cheaper, d) = 0
      BY <2>1, WeightOfPart
    <3>2. percent * W > 0
      BY <1>1
    <3> QED
      BY <3>1, <3>2
  <2>2. CASE cheaper # {}
    <3>1. PICK m \in cheaper : \A r \in cheaper : r.price <= m.price
      <4>1. IsFiniteSet(cheaper) /\ \A r \in cheaper : r.price \in Int
        BY <1>2, FS_Subset DEF Weighable
      <4> HIDE DEF cheaper
      <4> QED
        BY <2>2, <4>1, Extremes
    <3>2. Upto(m) = cheaper
      BY <1>2, <3>1
    <3>3. m \notin Reached
      BY <1>2, <1>4, <1>6, <3>1
    <3>4. ~(100 * Weight(cheaper, d) >= percent * W)
      BY <3>1, <3>2, <3>3
    <3>5. Weight(cheaper, d) \in Nat
      BY <1>1
    <3> HIDE DEF cheaper, W
    <3> QED
      BY <1>1, <3>4, <3>5
  <2> QED
    BY <2>1, <2>2
<1>7. ASSUME q.price < price PROVE ~(100 * Weight(cheaper, d) < percent * W)
  <2>1. Upto(q) \in SUBSET cheaper
    BY <1>2, <1>7
  <2>2. Weighable(cheaper, d)
    BY FS_Subset DEF Weighable
  <2>3. Weight(Upto(q), d) <= Weight(cheaper, d)
    BY <2>1, <2>2, WeightOfPart
  <2>4. 100 * Weight(Upto(q), d) >= percent * W
    BY <1>4
  <2>5. Weight(Upto(q), d) \in Nat /\ Weight(cheaper, d) \in Nat
    BY <1>1
  <2> HIDE DEF cheaper, W, Upto
  <2> QED
    BY <1>1, <2>3, <2>4, <2>5
<1> HIDE DEF cheaper, W
<1>8. q.price \in Int
  BY <1>2, <1>4
<1>9. price <= q.price <=> 100 * Weight(cheaper, d) < percent * W
  BY <1>6, <1>7, <1>8
<1> QED
  BY <1>5, <1>9 DEF cheaper, W

-----------------------------------------------------------------------------
(* Prices and scopes.                                                        *)

\* Additions that an entry can have in force.
Adjusting == [Adjustments -> SUBSET Int]

(* Whatever the tariff, the additions are whole; which of them there are does *)
(* not depend on the time or the Workday dates.                              *)
LEMMA InForce ==
  ASSUME NEW e \in Entries, NEW ex, NEW t
  PROVE  /\ AdjAt(Settings(e, ex), t) \in Adjusting
         /\ {c \in Adjustments : AdjAt(Settings(e, ex), t)[c] # {}}
               = {c \in Adjustments : IF c = "grid" THEN e.fee.low # {} ELSE e.adj[c] # {}}
<1>1. e.adj \in Adjusting /\ e.fee.low \in SUBSET Int /\ e.fee.high \in SUBSET Int
  BY InsightsAssumption DEF Adjusting
<1>2. FeeAt(e.fee, ex, t) \in SUBSET Int /\ (FeeAt(e.fee, ex, t) # {} <=> e.fee.low # {})
  BY <1>1 DEF FeeAt
<1>3. AdjAt(Settings(e, ex), t) = [e.adj EXCEPT !["grid"] = FeeAt(e.fee, ex, t)]
  BY DEF AdjAt, Settings
<1>4. "grid" \in Adjustments
  BY DEF Adjustments
<1>5. AdjAt(Settings(e, ex), t) \in Adjusting
  BY <1>1, <1>2, <1>3, <1>4 DEF Adjusting
<1>6. \A c \in Adjustments : AdjAt(Settings(e, ex), t)[c]
                               = IF c = "grid" THEN FeeAt(e.fee, ex, t) ELSE e.adj[c]
  BY <1>1, <1>3 DEF Adjusting
<1> QED
  BY <1>2, <1>5, <1>6

\* So a price keeps its scope over tariff changes and Workday answers.
LEMMA ScopeStays ==
  ASSUME NEW e \in Entries, NEW ex, NEW t, NEW fx, NEW u, NEW c, NEW meta
  PROVE  ScopeOf(c, meta, AdjAt(Settings(e, ex), t)) = ScopeOf(c, meta, AdjAt(Settings(e, fx), u))
<1>1. {a \in Adjustments : AdjAt(Settings(e, ex), t)[a] # {}}
         = {a \in Adjustments : AdjAt(Settings(e, fx), u)[a] # {}}
  BY InForce
<1> QED
  BY <1>1 DEF ScopeOf

\* Whole additions have a whole sum.
LEMMA AdditionsWhole ==
  ASSUME NEW meta, NEW adj \in Adjusting
  PROVE  AdditionSum(meta, adj) \in Int
<1> DEFINE e == [c \in Additions(meta, adj) |-> CHOOSE v \in adj[c] : TRUE]
<1>1. IsFiniteSet(Additions(meta, adj))
  <2>1. IsFiniteSet((({} \union {"markup"}) \union {"tax"}) \union {"grid"})
    BY FS_EmptySet, FS_AddElement
  <2> QED
    BY <2>1, FS_Subset DEF Additions, Adjustments
<1>2. ASSUME NEW c \in Additions(meta, adj) PROVE e[c] \in Int
  <2>1. adj[c] # {} /\ adj[c] \in SUBSET Int
    BY DEF Additions, Adjusting
  <2>2. (CHOOSE v \in adj[c] : TRUE) \in adj[c]
    BY <2>1, Zenon
  <2> QED
    BY <2>1, <2>2
<1>3. AdditionSum(meta, adj) = SumOf(Additions(meta, adj), e)
  BY DEF AdditionSum
<1> HIDE DEF e
<1> QED
  BY <1>1, <1>2, <1>3, SumInteger

\* An effective price of whole prices is whole.
LEMMA PriceWhole ==
  ASSUME NEW price \in SUBSET Int, NEW meta, meta.rate \in SUBSET Int, NEW adj \in Adjusting
  PROVE  EffectivePrice(price, meta, adj) \in SUBSET Int
<1>1. AdditionSum(meta, adj) \in Int
  BY AdditionsWhole
<1>2. ASSUME NEW p \in price PROVE Gross(p, meta) \in SUBSET Int
  <2>1. ASSUME NEW r \in meta.rate PROVE p + (p * r) \div 100 \in Int
    <3>1. p * r \in Int
      OBVIOUS
    <3> QED
      BY <3>1
  <2> QED
    BY <2>1 DEF Gross
<1> QED
  BY <1>1, <1>2 DEF EffectivePrice

-----------------------------------------------------------------------------
(* The inductive invariant.                                                  *)

Types ==
    /\ now \in Int /\ entry \in Entries /\ past \in Pasts /\ quote \in Quotes
    /\ data.price \in SUBSET Int

\* The scope of a live price in the currency c.
ScopeIn(c) == LiveScope(entry, excluded, [currency |-> c], now)

\* The live price has the entry's scope, in the currency it was read in.
ScopeRead == data.scope = ScopeIn(data.scope.currency)

(* The forecast was found comparable for the series, tariff and entry of now, *)
(* if with the live price's currency of then; its prices are those of now.   *)
ForecastCurrent ==
    /\ insights.comparable
          = (/\ series # {}
             /\ IsComparable(ForecastScope(entry, excluded, series))
             /\ ForecastScope(entry, excluded, series) = ScopeIn(taken.currency))
    /\ insights.prices
          = IF insights.comparable THEN ForecastPrices(entry, excluded, series) ELSE {}

\* The insights are those of the series, the tariff and the entry of now, at the time they were taken.
InsightsCurrent ==
    /\ series \subseteq Series /\ taken.at \in Int
    /\ insights.cheapest
          = [n \in Durations |-> CheapestWindow(series, taken.at, n * HourSlots, Present)]
    /\ insights.next
          = NextInexpensive(series, taken.at, entry.options.threshold, Present, insights.comparable)
    /\ insights.direction = PriceDirection(series, taken.at, Present)

IInv == Types /\ ScopeRead /\ ForecastCurrent /\ InsightsCurrent

LEMMA IInvInit == ASSUME Init PROVE IInv
<1>1. Types
  <2>1. entry.live.rate \in SUBSET Int /\ quote.price \in SUBSET Int /\ FirstTime \in Int
    BY InsightsAssumption DEF Init
  <2> QED
    BY <2>1, InForce, PriceWhole DEF Init, Types, ReadData
<1>2. ScopeRead
  BY DEF Init, ScopeRead, ScopeIn, ReadData, LiveScope, ScopeOf
<1>3. ForecastCurrent
  BY DEF Init, ForecastCurrent, ScopeIn, Recalculated, Comparable, LiveScope
<1>4. InsightsCurrent
  <2>1. series \subseteq Series /\ FirstTime \in Int
    BY InsightsAssumption DEF Init, Of
  <2> QED
    BY <2>1 DEF Init, InsightsCurrent, Present, Recalculated
<1> QED
  BY <1>1, <1>2, <1>3, <1>4 DEF IInv

(* A read, on any occasion, takes the entry's scope at the tariff of then.   *)
LEMMA ReadSound ==
  ASSUME Types, Types', entry' = entry, data' = ReadData(entry, excluded', quote', now)
  PROVE  ScopeRead'
<1>1. data'.scope = ScopeOf(quote'.currency, entry.live, AdjAt(Settings(entry, excluded'), now))
  BY DEF ReadData, LiveScope
<1>2. data'.scope.currency = quote'.currency
  BY <1>1 DEF ScopeOf
<1>3. ScopeIn(data.scope.currency)'
         = ScopeOf(quote'.currency, entry.live, AdjAt(Settings(entry, excluded'), now'))
  BY <1>2 DEF ScopeIn, LiveScope
<1> QED
  BY <1>1, <1>3, ScopeStays DEF ScopeRead, Types

\* A read gives a whole price.
LEMMA ReadWhole ==
  ASSUME entry \in Entries, NEW q \in Quotes, NEW ex
  PROVE  ReadData(entry, ex, q, now).price \in SUBSET Int
<1>1. entry.live.rate \in SUBSET Int /\ q.price \in SUBSET Int
  BY InsightsAssumption
<1> QED
  BY <1>1, InForce, PriceWhole DEF ReadData

\* A scope that was read stays the entry's while time passes and the tariff changes.
LEMMA ScopeKept ==
  ASSUME Types, entry' = entry, NEW c
  PROVE  ScopeIn(c)' = ScopeIn(c)
BY ScopeStays DEF ScopeIn, LiveScope, Types

\* A calculation leaves what it found for the series and the tariff it was made with.
LEMMA CalculatedSound ==
  ASSUME Types, entry' = entry, Recalculate(excluded', series')
  PROVE  ForecastCurrent'
<1>1. /\ insights' = Recalculated(entry, excluded', series', quote, now)
      /\ taken'.currency = quote.currency
  BY DEF Recalculate
<1>2. LiveScope(entry, excluded', quote, now)
         = ScopeOf(quote.currency, entry.live, AdjAt(Settings(entry, excluded'), now))
  BY DEF LiveScope
<1>3. ScopeIn(taken.currency)'
         = ScopeOf(quote.currency, entry.live, AdjAt(Settings(entry, excluded'), now'))
  BY <1>1 DEF ScopeIn, LiveScope
<1>4. ScopeIn(taken.currency)' = LiveScope(entry, excluded', quote, now)
  BY <1>2, <1>3, ScopeStays DEF Types
<1>5. /\ insights'.comparable = Comparable(entry, excluded', series', quote, now)
      /\ insights'.prices = IF Comparable(entry, excluded', series', quote, now)
                            THEN ForecastPrices(entry, excluded', series') ELSE {}
  BY <1>1 DEF Recalculated
<1>6. insights'.comparable
        = (/\ series' # {}
           /\ IsComparable(ForecastScope(entry, excluded', series'))
           /\ ForecastScope(entry, excluded', series') = ScopeIn(taken.currency)')
  BY <1>4, <1>5 DEF Comparable
<1> QED
  BY <1>5, <1>6 DEF ForecastCurrent

\* A calculation gives the insights of the series and the tariff it was made with.
LEMMA CalculatedNow ==
  ASSUME Types, entry' = entry, Recalculate(excluded', series'), series' \subseteq Series
  PROVE  InsightsCurrent'
<1>1. /\ insights' = Recalculated(entry, excluded', series', quote, now)
      /\ taken'.at = now
  BY DEF Recalculate
<1>2. Present' = Settings(entry, excluded')
  BY DEF Present
<1>3. insights'.comparable = Comparable(entry, excluded', series', quote, now)
  BY <1>1 DEF Recalculated
<1>4. /\ insights'.cheapest
            = [n \in Durations |-> CheapestWindow(series', taken'.at, n * HourSlots, Present')]
      /\ insights'.next = NextInexpensive(series', taken'.at, entry'.options.threshold, Present',
                                          insights'.comparable)
      /\ insights'.direction = PriceDirection(series', taken'.at, Present')
  BY <1>1, <1>2, <1>3 DEF Recalculated
<1> QED
  BY <1>1, <1>4 DEF InsightsCurrent, Types

LEMMA IInvStep == ASSUME IInv, [Next]_vars PROVE IInv'
<1> USE DEF IInv
<1>1. CASE TimePass
  <2>1. Types'
    BY <1>1 DEF TimePass, Types
  <2>2. ScopeRead'
    BY <1>1, ScopeKept DEF TimePass, ScopeRead
  <2>3. ForecastCurrent'
    BY <1>1, ScopeKept DEF TimePass, ForecastCurrent
  <2>4. InsightsCurrent'
    BY <1>1 DEF TimePass, InsightsCurrent, Present
  <2> QED
    BY <2>1, <2>2, <2>3, <2>4
<1>2. CASE Read
  <2>1. Types'
    BY <1>2, ReadWhole DEF Read, Types
  <2>2. ScopeRead'
    BY <1>2, <2>1, ReadSound DEF Read
  <2>3. ForecastCurrent'
    BY <1>2, ScopeKept DEF Read, ForecastCurrent
  <2>4. InsightsCurrent'
    BY <1>2 DEF Read, InsightsCurrent, Present
  <2> QED
    BY <2>1, <2>2, <2>3, <2>4
<1>3. CASE Delivered
  <2>1. Types'
    BY <1>3 DEF Delivered, Types
  <2>2. ScopeRead'
    BY <1>3, ScopeKept DEF Delivered, ScopeRead
  <2>3. ForecastCurrent'
    BY <1>3, CalculatedSound DEF Delivered
  <2>4. InsightsCurrent'
    <3>1. series' \subseteq Series
      BY <1>3 DEF Delivered, InsightsCurrent, Kept, Of
    <3> QED
      BY <1>3, <3>1, CalculatedNow DEF Delivered
  <2> QED
    BY <2>1, <2>2, <2>3, <2>4
<1>4. CASE ForecastTick
  <2>1. Types'
    BY <1>4 DEF ForecastTick, Types
  <2>2. ScopeRead'
    BY <1>4, ScopeKept DEF ForecastTick, ScopeRead
  <2>3. ForecastCurrent'
    BY <1>4, CalculatedSound DEF ForecastTick
  <2>4. InsightsCurrent'
    <3>1. series' \subseteq Series
      BY <1>4 DEF ForecastTick, InsightsCurrent, Kept
    <3> QED
      BY <1>4, <3>1, CalculatedNow DEF ForecastTick
  <2> QED
    BY <2>1, <2>2, <2>3, <2>4
<1>5. CASE WorkdayTick
  <2>1. Types'
    BY <1>5, ReadWhole DEF WorkdayTick, Types
  <2>2. ScopeRead'
    BY <1>5, <2>1, ReadSound DEF WorkdayTick
  <2>3. ForecastCurrent'
    BY <1>5, CalculatedSound DEF WorkdayTick
  <2>4. InsightsCurrent'
    <3>1. series' \subseteq Series
      BY <1>5 DEF WorkdayTick, InsightsCurrent
    <3> QED
      BY <1>5, <3>1, CalculatedNow DEF WorkdayTick
  <2> QED
    BY <2>1, <2>2, <2>3, <2>4
<1>6. CASE UNCHANGED vars
  BY <1>6 DEF vars, Types, ScopeRead, ScopeIn, ForecastCurrent, InsightsCurrent, Present
<1> QED
  BY <1>1, <1>2, <1>3, <1>4, <1>5, <1>6 DEF Next

LEMMA Invariance == Spec => []IInv
<1>1. Init => IInv
  BY IInvInit
<1>2. IInv /\ [Next]_vars => IInv'
  BY IInvStep
<1> QED
  BY <1>1, <1>2, PTL DEF Spec

-----------------------------------------------------------------------------
(* Good Time.                                                                *)

\* The price that is judged.
ThePrice == CHOOSE p \in data.price : TRUE

\* What Good Time says apart from the forecast.
Judged == Adaptive(ThePrice, data.scope, past, entry.options, now)

\* The better hours of the forecast as it was cached.
CachedBetter == BetterPrices(ThePrice, data.scope, past, entry.options, insights.prices, now)

LEMMA Cases ==
  /\ GoodTimeNow.method \in {"adaptive", "suppressed"} =>
        /\ data.price # {} /\ Judged.method = "adaptive" 
        /\ GoodTimeNow = IF /\ Judged = Verdict("adaptive", "good")
                            /\ insights.comparable /\ CachedBetter # {}
                         THEN Verdict("suppressed", "bad") ELSE Judged
<1> DEFINE suppressed == /\ Judged = Verdict("adaptive", "good")
                         /\ insights.comparable /\ CachedBetter # {}
<1> SUFFICES ASSUME GoodTimeNow.method \in {"adaptive", "suppressed"}
             PROVE  /\ data.price # {} /\ Judged.method = "adaptive"
                    /\ GoodTimeNow = IF suppressed THEN Verdict("suppressed", "bad") ELSE Judged
  OBVIOUS
<1>1. data.price # {}
  BY DEF GoodTimeNow, Evaluate, Unavailable, Verdict
<1>2. entry.options.mode # "fixed"
  <2> SUFFICES ASSUME entry.options.mode = "fixed" PROVE FALSE
    OBVIOUS
  <2>1. GoodTimeNow.method \in {"none", "fixed"}
    BY <1>1 DEF GoodTimeNow, Evaluate, ByThreshold, Unavailable, Verdict
  <2> QED
    BY <2>1
<1>3. GoodTimeNow = IF suppressed THEN Verdict("suppressed", "bad") ELSE Judged
  BY <1>1, <1>2 DEF GoodTimeNow, Evaluate, Judged, CachedBetter, ThePrice
<1>4. Judged.method \in {"none", "fallback", "adaptive"}
  BY DEF Judged, Adaptive, ByThreshold, Unavailable, Verdict
<1> QED
  BY <1>1, <1>3, <1>4 DEF Verdict

\* With a comparable forecast, the better hours as cached are the better hours.
LEMMA BetterAsCached ==
  ASSUME IInv, insights.comparable
  PROVE  CachedBetter = BetterHours
BY DEF IInv, ForecastCurrent, CachedBetter, BetterHours, ThePrice

(* A better hour has the live price's scope.  If that is comparable and has  *)
(* the currency of the last calculation, the forecast was comparable then.   *)
LEMMA BetterIsComparable ==
  ASSUME IInv, IsComparable(data.scope), taken.currency = data.scope.currency, BetterHours # {}
  PROVE  insights.comparable
<1>1. PICK f \in ForecastPrices(entry, excluded, series) : f.scope = data.scope
  BY DEF BetterHours, BetterPrices
<1>2. series # {} /\ f.scope = ForecastScope(entry, excluded, series)
  <2>1. PICK i \in series :
           \E p \in EffectivePrice({i.price}, ForecastMeta(entry),
                                  AdjAt(Settings(entry, excluded), i.start)) :
              f = [start |-> i.start, price |-> p, scope |-> ForecastScope(entry, excluded, series)]
    BY DEF ForecastPrices
  <2> QED
    BY <2>1
<1>3. ForecastScope(entry, excluded, series) = ScopeIn(taken.currency)
  BY <1>1, <1>2 DEF IInv, ScopeRead
<1> QED
  BY <1>1, <1>2, <1>3 DEF IInv, ForecastCurrent

(* Good Time's result is suppressed only for an hour to come that is better  *)
(* at the present tariff, and no good result ignores one that the last       *)
(* calculation could compare, whichever reads, deliveries, ticks and Workday *)
(* answers came between.                                                     *)
THEOREM SuppressionSafe == Spec => []SuppressedForABetterHour
<1>1. ASSUME IInv, GoodTimeNow.method = "suppressed" PROVE BetterHours # {}
  <2>1. Judged.method = "adaptive"
        /\ GoodTimeNow = IF /\ Judged = Verdict("adaptive", "good")
                            /\ insights.comparable /\ CachedBetter # {}
                         THEN Verdict("suppressed", "bad") ELSE Judged
    BY <1>1, Cases
  <2>2. insights.comparable /\ CachedBetter # {}
    BY <1>1, <2>1
  <2> QED
    BY <1>1, <2>2, BetterAsCached
<1>2. ASSUME IInv, GoodTimeNow = Verdict("adaptive", "good"), taken.currency = data.scope.currency
      PROVE  BetterHours = {}
  <2>1. GoodTimeNow.method = "adaptive"
    BY <1>2 DEF Verdict
  <2>2. /\ Judged.method = "adaptive"
        /\ GoodTimeNow = IF /\ Judged = Verdict("adaptive", "good")
                            /\ insights.comparable /\ CachedBetter # {}
                         THEN Verdict("suppressed", "bad") ELSE Judged
    BY <2>1, Cases
  <2>3. Verdict("suppressed", "bad") # Verdict("adaptive", "good")
    BY DEF Verdict
  <2>4. ~(insights.comparable /\ CachedBetter # {})
    BY <1>2, <2>2, <2>3
  <2>5. IsComparable(data.scope)
    BY <2>2 DEF Judged, Adaptive, Unavailable, Verdict
  <2> QED
    BY <1>2, <2>4, <2>5, BetterAsCached, BetterIsComparable
<1>3. IInv => SuppressedForABetterHour
  BY <1>1, <1>2 DEF SuppressedForABetterHour
<1> QED
  BY <1>3, Invariance, PTL

-----------------------------------------------------------------------------
\* The observations that a verdict rests on are the peers, of which there are enough.
LEMMA CohortIsPeers ==
  ASSUME IInv, Cohort(Eligible(past, data.scope, DayOf(now)), now) # {}
  PROVE  /\ Cohort(Eligible(past, data.scope, DayOf(now)), now) = Peers
         /\ Cardinality(Peers) >= Min({MinDayTypeSamples, MinHourSamples})
<1> DEFINE eligible == Eligible(past, data.scope, DayOf(now))
           same  == {o \in eligible : o.hour = HourOfDay(now)}
           alike == Weekends(same, DayOf(now))
<1>1. past.scope = data.scope
  <2> SUFFICES ASSUME past.scope # data.scope PROVE FALSE
    OBVIOUS
  <2>1. eligible = {}
    BY DEF Eligible
  <2> QED
    BY <2>1 DEF Cohort, Weekends
<1>2. DayOf(now) \in Int /\ HistoryDays \in Int /\ \A o \in past.hours : o.day \in Int
  <2>1. DayLength \in Nat \ {0}
    BY PricingAssumption DEF DayLength
  <2> QED
    BY <2>1, GoodTimeAssumption, InsightsAssumption DEF IInv, Types, DayOf
<1>3. same = SameHour
  BY <1>1, <1>2 DEF Eligible, SameHour
<1>4. alike = {o \in SameHour : IsWeekend(o.day) = IsWeekend(DayOf(now))}
  BY <1>3 DEF Weekends
<1>5. Cohort(eligible, now) = IF Cardinality(alike) >= MinDayTypeSamples THEN alike
                              ELSE IF Cardinality(same) >= MinHourSamples THEN same ELSE {}
  BY DEF Cohort
<1>6. Peers = IF Cardinality(alike) >= MinDayTypeSamples THEN alike ELSE same
  BY <1>3, <1>4 DEF Peers
<1>7. Cardinality(Peers) >= MinDayTypeSamples \/ Cardinality(Peers) >= MinHourSamples
  BY <1>5, <1>6
<1>8. Cardinality(Peers) \in Nat
  <2>1. IsFiniteSet(past.hours)
    BY InsightsAssumption DEF IInv, Types
  <2>2. Peers \in SUBSET past.hours
    BY DEF Peers, SameHour
  <2> QED
    BY <2>1, <2>2, FS_Subset, FS_CardinalityType
<1>9. /\ Min({MinDayTypeSamples, MinHourSamples}) \in {MinDayTypeSamples, MinHourSamples}
      /\ \A n \in {MinDayTypeSamples, MinHourSamples} :
            Min({MinDayTypeSamples, MinHourSamples}) <= n
  <2>1. ASSUME NEW a \in Int, NEW b \in Int
        PROVE  Min({a, b}) = IF a <= b THEN a ELSE b
    BY DEF Min
  <2>2. Min({MinDayTypeSamples, MinHourSamples})
           = IF MinDayTypeSamples <= MinHourSamples THEN MinDayTypeSamples ELSE MinHourSamples
    <3>1. MinDayTypeSamples \in Int /\ MinHourSamples \in Int
      BY GoodTimeAssumption
    <3> QED
      BY <2>1, <3>1, Zenon
  <2> QED
    BY <2>2, GoodTimeAssumption
<1>10. Cardinality(Peers) >= Min({MinDayTypeSamples, MinHourSamples})
  BY <1>7, <1>8, <1>9, GoodTimeAssumption
<1> QED
  BY <1>5, <1>6, <1>10

\* Peers are of the days before, and weigh something.
LEMMA PeersWeigh == ASSUME IInv PROVE Weighable(Peers, DayOf(now))
<1>1. DayOf(now) \in Int
  <2>1. DayLength \in Nat \ {0}
    BY PricingAssumption DEF DayLength
  <2> QED
    BY <2>1 DEF IInv, Types, DayOf
<1>2. IsFiniteSet(past.hours)
      /\ \A o \in past.hours : o.day \in Int /\ o.price \in Int /\ o.covered \in Nat \ {0}
  BY InsightsAssumption DEF IInv, Types
<1>3. Peers \in SUBSET past.hours
      /\ \A o \in Peers : o.day \in DayOf(now) - HistoryDays .. DayOf(now) - 1
  BY DEF Peers, SameHour
<1>4. ASSUME NEW o \in Peers PROVE o.covered * Recency[DayOf(now) - o.day] \in Nat \ {0}
  <2>1. DayOf(now) - o.day \in 0 .. HistoryDays
    BY <1>1, <1>2, <1>3, GoodTimeAssumption
  <2>2. Recency[DayOf(now) - o.day] \in Nat \ {0}
    BY <2>1, GoodTimeAssumption
  <2>3. o.covered \in Nat \ {0}
    BY <1>2, <1>3
  <2>4. \A a, b \in Nat \ {0} : a * b \in Nat \ {0}
    OBVIOUS
  <2> QED
    BY <2>2, <2>3, <2>4
<1> QED
  BY <1>2, <1>3, <1>4, FS_Subset DEF Weighable

(* An adaptive verdict rests on enough comparable hours, and is good exactly *)
(* if the cheaper ones of them weigh less than the target share of all, and  *)
(* the price is not above the ceiling.                                       *)
THEOREM ShareSafe == Spec => []GoodIsInTheCheapestShare
<1>1. ASSUME IInv, GoodTimeNow.method \in {"adaptive", "suppressed"}
      PROVE  LET cheaper == {o \in Peers : o.price < ThePrice}
                 share == entry.options.percentile * Weight(Peers, DayOf(now))
             IN  /\ Cardinality(Peers) >= Min({MinDayTypeSamples, MinHourSamples})
                 /\ (GoodTimeNow.good = "good" \/ GoodTimeNow.method = "suppressed")
                       <=> /\ 100 * Weight(cheaper, DayOf(now)) < share
                           /\ \A c \in entry.options.ceiling : ThePrice <= c
  <2> DEFINE cohort == Cohort(Eligible(past, data.scope, DayOf(now)), now)
             within == \A c \in entry.options.ceiling : ThePrice <= c
             low    == ThePrice <= Quantile(Peers, DayOf(now), entry.options.percentile)
  <2>1. /\ data.price # {} /\ Judged.method = "adaptive"
        /\ GoodTimeNow = IF /\ Judged = Verdict("adaptive", "good")
                            /\ insights.comparable /\ CachedBetter # {}
                         THEN Verdict("suppressed", "bad") ELSE Judged
    BY <1>1, Cases
  <2>2. ThePrice \in Int
    <3>1. ThePrice \in data.price
      BY <2>1, Zenon DEF ThePrice
    <3> QED
      BY <1>1, <3>1 DEF IInv, Types
  <2>3. cohort # {}
    BY <2>1 DEF Judged, Adaptive, ByThreshold, Unavailable, Verdict
  <2>4. cohort = Peers /\ Cardinality(Peers) >= Min({MinDayTypeSamples, MinHourSamples})
    BY <1>1, <2>3, CohortIsPeers
  <2>5. Judged = Verdict("adaptive", Good(within /\ low))
    <3>1. IsComparable(data.scope)
      BY <2>1 DEF Judged, Adaptive, Unavailable, Verdict
    <3>2. entry.options.ceiling \in SUBSET Int
      BY <1>1, InsightsAssumption DEF IInv, Types
    <3>3. (~ \E c \in entry.options.ceiling : ThePrice > c) <=> within
      BY <2>2, <3>2
    <3>4. Judged = Verdict("adaptive",
                     Good(~(\E c \in entry.options.ceiling : ThePrice > c)
                          /\ ThePrice <= Quantile(cohort, DayOf(now), entry.options.percentile)))
      BY <2>3, <3>1 DEF Judged, Adaptive
    <3> HIDE DEF cohort
    <3> QED
      BY <2>4, <3>3, <3>4 DEF Good
  <2>6. (GoodTimeNow.good = "good" \/ GoodTimeNow.method = "suppressed") <=> within /\ low
    <3> HIDE DEF within, low
    <3> QED
      BY <2>1, <2>5 DEF Verdict, Good
  <2>7. low <=> 100 * Weight({o \in Peers : o.price < ThePrice}, DayOf(now))
                   < entry.options.percentile * Weight(Peers, DayOf(now))
    <3>1. entry.options.percentile \in 1 .. 100
      BY <1>1, InsightsAssumption DEF IInv, Types
    <3> QED
      BY <1>1, <2>2, <2>3, <2>4, <3>1, PeersWeigh, QuantileShare
  <2> QED
    BY <2>4, <2>6, <2>7
<1>2. IInv => GoodIsInTheCheapestShare
  BY <1>1 DEF GoodIsInTheCheapestShare, ThePrice
<1> QED
  BY <1>2, Invariance, PTL

-----------------------------------------------------------------------------
(* Series of intervals.                                                      *)

\* Of a finite set of intervals one begins first.
LEMMA FirstInterval ==
  ASSUME NEW X, IsFiniteSet(X), X # {}, \A i \in X : i.start \in Int
  PROVE  \E i \in X : \A j \in X : i.start <= j.start
<1> DEFINE First(s)  == \E i \in s : \A j \in s : i.start <= j.start
           T == {s \in SUBSET X : s # {} /\ ~First(s)}
<1> SUFFICES ASSUME T # {} PROVE FALSE
  OBVIOUS
<1>1. PICK s \in T : \A r \in SUBSET s : r \in T => r = s
  <2>1. T \subseteq SUBSET X
    OBVIOUS
  <2> HIDE DEF T
  <2> QED
    BY <2>1, SmallestSubset
<1>2. PICK x \in s : TRUE
  OBVIOUS
<1>3. CASE s \ {x} = {}
  <2>1. \A q \in s : q = x
    BY <1>3
  <2> QED
    BY <1>2, <2>1
<1>4. CASE s \ {x} # {}
  <2>1. First(s \ {x})
    <3>1. s \ {x} \in SUBSET s /\ s \ {x} # s /\ s \ {x} \in SUBSET X
      OBVIOUS
    <3>2. s \ {x} \notin T
      <4> HIDE DEF T
      <4> QED
        BY <1>1, <3>1
    <3> HIDE DEF First
    <3> QED
      BY <1>4, <3>1, <3>2
  <2>2. PICK l \in s \ {x} : \A q \in s \ {x} : l.start <= q.start
    BY <2>1
  <2> QED
    BY <2>2, <1>2
<1> QED
  BY <1>3, <1>4

\* The instant u is in the interval x.
Within(u, x) == x.start <= u /\ u < x.end

(* A stretch of time has no gap exactly if an interval reaches its end and   *)
(* whatever begins inside it begins where another ends.                      *)
LEMMA Unbroken ==
  ASSUME NEW X, IsFiniteSet(X), Disjoint(X), NEW from \in Int, NEW to \in Int, from < to
  PROVE  (\A u \in from .. to - 1 : \E x \in X : Within(u, x))
            <=> /\ \E x \in X : x.start < to /\ to <= x.end
                /\ \A j \in X : from < j.start /\ j.start < to => \E k \in X : k.end = j.start
<1>0. \A i \in X : i.start \in Int /\ i.end \in Int /\ i.start < i.end
  BY DEF Disjoint
<1>1. ASSUME \A u \in from .. to - 1 : \E x \in X : Within(u, x)
      PROVE  /\ \E x \in X : x.start < to /\ to <= x.end
             /\ \A j \in X : from < j.start /\ j.start < to => \E k \in X : k.end = j.start
  <2>1. PICK x \in X : Within(to - 1, x)
    BY <1>1
  <2>2. x.start < to /\ to <= x.end
    BY <1>0, <2>1 DEF Within
  <2>3. ASSUME NEW j \in X, from < j.start, j.start < to PROVE \E k \in X : k.end = j.start
    <3>1. j.start - 1 \in from .. to - 1
      BY <1>0, <2>3
    <3>2. PICK k \in X : Within(j.start - 1, k)
      BY <1>1, <3>1
    <3>3. k # j
      BY <1>0, <3>2 DEF Within
    <3>4. k.end <= j.start \/ j.end <= k.start
      BY <3>3 DEF Disjoint
    <3> QED
      BY <1>0, <3>2, <3>4 DEF Within
  <2> QED
    BY <2>2, <2>3
<1>2. ASSUME NEW last \in X, last.start < to /\ to <= last.end,
             \A j \in X : from < j.start /\ j.start < to => \E k \in X : k.end = j.start,
             NEW u \in from .. to - 1
      PROVE  \E x \in X : Within(u, x)
  <2> SUFFICES ASSUME \A x \in X : ~Within(u, x) PROVE FALSE
    OBVIOUS
  <2> DEFINE later == {j \in X : j.start > u}
  <2>1. last \in later
    BY <1>0, <1>2 DEF Within
  <2>2. PICK j \in later : \A k \in later : j.start <= k.start
    <3>1. IsFiniteSet(later) /\ later # {} /\ \A i \in later : i.start \in Int
      BY <1>0, <2>1, FS_Subset
    <3> HIDE DEF later
    <3> QED
      BY <3>1, FirstInterval
  <2>3. j \in X /\ from < j.start /\ j.start < to /\ u < j.start
    BY <1>0, <1>2, <2>1, <2>2
  <2>4. PICK k \in X : k.end = j.start
    BY <1>2, <2>3
  <2>5. k \notin later
    BY <1>0, <2>2, <2>3, <2>4
  <2> QED
    BY <1>0, <2>3, <2>4, <2>5 DEF Within
<1> QED
  BY <1>1, <1>2

(* A window of the wanted length begins exactly where the series has no gap  *)
(* for that long and an interval ends after it; the intervals in it are      *)
(* those that make up that stretch.                                          *)
LEMMA WindowIsAStretch ==
  ASSUME NEW X, IsFiniteSet(X), Disjoint(X), NEW at \in Int, NEW length \in Nat \ {0},
         NEW up, up = Upcoming(X, at), NEW i \in up, NEW to, to = i.start + length
  PROVE  /\ i \in Windows(up, length)
              <=> /\ \A u \in i.start .. to - 1 : \E x \in X : Within(u, x)
                  /\ \E m \in X : m.end = to
         /\ i \in Windows(up, length)
              => UNION {Span(x) : x \in WindowFrom(up, i, length)} = i.start .. to - 1
<1> DEFINE W     == WindowFrom(up, i, length)
           Whole == /\ \A u \in i.start .. to - 1 : \E x \in X : Within(u, x)
                    /\ \E m \in X : m.end = to
<1>0. \A x \in X : x.start \in Int /\ x.end \in Int /\ x.start < x.end
  BY DEF Disjoint
<1>1. i \in X /\ i.start >= at /\ to \in Int /\ i.start < to
  BY <1>0 DEF Upcoming
<1>2. ASSUME NEW x \in X, NEW u \in Int, Within(u, x), i.start <= u
      PROVE  i.start <= x.start /\ x \in up
  <2>1. x # i => x.end <= i.start \/ i.end <= x.start
    BY <1>1 DEF Disjoint
  <2>2. i.start <= x.start
    BY <1>0, <1>1, <1>2, <2>1 DEF Within
  <2> QED
    BY <1>0, <1>1, <2>2 DEF Upcoming
<1>3. ASSUME i \in Windows(up, length) PROVE Whole
  <2>1. PICK m \in W : m.end = to
    BY <1>3 DEF Windows
  <2>2. m \in up /\ m \in X /\ i.start <= m.start
    BY <2>1 DEF WindowFrom, Upcoming
  <2>3. ASSUME NEW j \in X, i.start < j.start, j.start < to PROVE \E k \in X : k.end = j.start
    <3>1. j \in up
      BY <1>0, <1>1, <2>3 DEF Upcoming
    <3>2. j.start <= m.start
      <4>1. j # m => j.end <= m.start \/ m.end <= j.start
        BY <2>2, <2>3 DEF Disjoint
      <4> QED
        BY <1>0, <2>1, <2>2, <2>3, <4>1
    <3>3. \E k \in up : k.end = j.start
      BY <2>1, <2>3, <3>1, <3>2 DEF WindowFrom
    <3> QED
      BY <3>3 DEF Upcoming
  <2>4. m.start < to /\ to <= m.end
    BY <1>0, <2>1, <2>2
  <2>5. \A u \in i.start .. to - 1 : \E x \in X : Within(u, x)
    BY <1>0, <1>1, <2>2, <2>3, <2>4, Unbroken
  <2> QED
    BY <2>1, <2>2, <2>5
<1>8. ASSUME Whole, NEW j \in X, i.start < j.start, j.start < to
      PROVE  \E k \in X : k.end = j.start
  <2>1. \A u \in i.start .. to - 1 : \E x \in X : Within(u, x)
    BY <1>8
  <2>2. i.start \in Int /\ to \in Int /\ i.start < to
    BY <1>0, <1>1
  <2>3. \A k \in X : i.start < k.start /\ k.start < to => \E l \in X : l.end = k.start
    <3> HIDE DEF Whole
    <3> QED
      BY <2>1, <2>2, Unbroken
  <2> QED
    BY <1>8, <2>3
<1>4. ASSUME Whole, NEW x \in X, i.start <= x.start, x.start < to PROVE x \in W
  <2>1. x \in up
    BY <1>0, <1>1, <1>4 DEF Upcoming
  <2>2. ASSUME NEW j \in up, i.start < j.start, j.start <= x.start
        PROVE  \E k \in up : k.end = j.start /\ k.end - i.start < length
    <3>1. j \in X
      BY DEF Upcoming
    <3>2. j.start < to
      BY <1>0, <1>1, <1>4, <2>2, <3>1
    <3>3. PICK k \in X : k.end = j.start
      BY <1>4, <1>8, <2>2, <3>1, <3>2
    <3>4. Within(j.start - 1, k) /\ i.start <= j.start - 1
      BY <1>0, <2>2, <3>1, <3>3, <1>1 DEF Within
    <3>5. k \in up
      BY <1>0, <1>2, <3>1, <3>4
    <3> QED
      BY <1>0, <1>1, <3>1, <3>2, <3>3, <3>5
  <2> QED
    BY <1>4, <2>1, <2>2 DEF WindowFrom
<1>5. ASSUME Whole PROVE i \in Windows(up, length)
  <2>1. PICK m \in X : m.end = to
    BY <1>5
  <2>2. Within(to - 1, m) /\ i.start <= to - 1
    BY <1>0, <1>1, <2>1 DEF Within
  <2>3. i.start <= m.start /\ m.start < to
    BY <1>0, <1>1, <1>2, <2>1, <2>2
  <2>4. m \in W
    BY <1>4, <1>5, <2>3
  <2> QED
    BY <2>1, <2>4 DEF Windows
<1>6. ASSUME Whole, NEW x \in W PROVE x \in X /\ i.start <= x.start /\ x.end <= to
  <2>1. x \in up /\ x \in X /\ i.start <= x.start
    BY DEF WindowFrom, Upcoming
  <2>2. x.start < to
    <3>1. CASE x.start = i.start
      BY <1>1, <3>1
    <3>2. CASE i.start < x.start
      <4>1. PICK k \in up : k.end = x.start /\ k.end - i.start < length
        BY <1>0, <2>1, <3>2 DEF WindowFrom
      <4> QED
        BY <1>0, <1>1, <2>1, <4>1
    <3> QED
      BY <1>0, <1>1, <2>1, <3>1, <3>2
  <2>3. PICK m \in X : m.end = to
    BY <1>6
  <2>4. m # x => m.end <= x.start \/ x.end <= m.start
    BY <2>1, <2>3 DEF Disjoint
  <2> QED
    BY <1>0, <1>1, <2>1, <2>2, <2>3, <2>4
<1>7. ASSUME Whole PROVE UNION {Span(x) : x \in W} = i.start .. to - 1
  <2>1. ASSUME NEW u \in i.start .. to - 1 PROVE \E x \in W : u \in Span(x)
    <3>1. PICK x \in X : Within(u, x)
      BY <1>7
    <3>2. i.start <= x.start /\ x.start < to
      BY <1>0, <1>1, <1>2, <3>1 DEF Within
    <3>3. x \in W
      BY <1>4, <1>7, <3>2
    <3> QED
      BY <1>0, <1>1, <3>1, <3>3 DEF Within, Span
  <2>2. ASSUME NEW x \in W, NEW u \in Span(x) PROVE u \in i.start .. to - 1
    <3>1. x \in X /\ i.start <= x.start /\ x.end <= to
      BY <1>6, <1>7
    <3> QED
      BY <1>0, <1>1, <3>1 DEF Span
  <2> QED
    BY <2>1, <2>2
<1>9. /\ i \in Windows(up, length) <=> Whole
      /\ i \in Windows(up, length) => UNION {Span(x) : x \in W} = i.start .. to - 1
  <2> HIDE DEF Whole, W
  <2> QED
    BY <1>3, <1>5, <1>7
<1> QED
  BY <1>9

\* With a VAT rate every scheduling price is whole.
LEMMA SchedulingWhole ==
  ASSUME IInv, Priced, NEW market \in Int, NEW t
  PROVE  SchedulingPrice(market, Present, t) \in Int
<1>1. entry.rate \in SUBSET Int /\ entry \in Entries
  BY InsightsAssumption DEF IInv, Types
<1>2. /\ Present.meta = ForecastMeta(entry)
      /\ ForecastMeta(entry).vat = "excluded" /\ ForecastMeta(entry).rate = entry.rate
  BY DEF Present, Settings, ForecastMeta
<1>3. \A n : Gross(n, ForecastMeta(entry)) = {n + (n * r) \div 100 : r \in entry.rate}
  BY <1>2 DEF Gross
<1>4. entry.rate # {}
  BY <1>3 DEF Priced, KnownVat
<1>5. Gross(market, Present.meta) # {} /\ Gross(market, Present.meta) \subseteq Int
  <2>1. ASSUME NEW r \in entry.rate PROVE market + (market * r) \div 100 \in Int
    <3>1. market * r \in Int
      BY <1>1
    <3> QED
      BY <3>1
  <2>2. Gross(market, Present.meta) = {market + (market * r) \div 100 : r \in entry.rate}
    BY <1>2, <1>3, Zenon
  <2> DEFINE G(r) == market + (market * r) \div 100
  <2>3. Gross(market, Present.meta) = {G(r) : r \in entry.rate} /\ \A r \in entry.rate : G(r) \in Int
    BY <2>1, <2>2
  <2> HIDE DEF G
  <2> QED
    BY <1>4, <2>3
<1>6. (CHOOSE g \in Gross(market, Present.meta) : TRUE) \in Int
  BY <1>5
<1>7. AdditionSum(Present.meta, AdjAt(Present, t)) \in Int
  BY <1>1, InForce, AdditionsWhole DEF Present
<1> QED
  BY <1>6, <1>7 DEF SchedulingPrice

\* The series is one of disjoint intervals.
LEMMA SeriesDisjoint ==
  ASSUME IInv
  PROVE  IsFiniteSet(series) /\ Disjoint(series) /\ \A i \in series : i.price \in Int
<1>1. series \subseteq Series
  BY DEF IInv, InsightsCurrent
<1> QED
  BY <1>1, InsightsAssumption, FS_Subset DEF Disjoint

\* At an instant within an interval that one is all there is.
LEMMA AtIs ==
  ASSUME Disjoint(series), NEW x \in series, NEW u \in Span(x)
  PROVE  At(u) = {x}
<1>1. x.start \in Int /\ x.end \in Int /\ u \in Int /\ x.start <= u /\ u < x.end
  BY DEF Disjoint, Span
<1>2. ASSUME NEW y \in series, y.start <= u, u < y.end PROVE y = x
  <2>1. y # x => y.end <= x.start \/ x.end <= y.start
    BY DEF Disjoint
  <2>2. y.start \in Int /\ y.end \in Int
    BY DEF Disjoint
  <2> QED
    BY <1>1, <1>2, <2>1, <2>2
<1> QED
  BY <1>1, <1>2 DEF At

\* What is due for intervals with whole prices is due unit of time by unit of time.
LEMMA CostByUnits ==
  ASSUME NEW S, IsFiniteSet(S), Disjoint(S), NEW p, NEW f,
         \A x \in S : /\ SchedulingPrice(x.price, p, x.start) \in Int
                      /\ \A u \in Span(x) : f[u] = SchedulingPrice(x.price, p, x.start)
  PROVE  Cost(S, p) = SumOf(UNION {Span(x) : x \in S}, f)
<1> DEFINE e == [x \in S |-> Due(x, p)]
<1>1. \A x \in S : \E c \in Int : e[x] = (x.end - x.start) * c /\ \A u \in Span(x) : f[u] = c
  BY DEF Due
<1>2. Cost(S, p) = SumOf(S, e)
  BY DEF Cost
<1> HIDE DEF e
<1> QED
  BY <1>1, <1>2, SumOfSpans

(* The windows that are compared are all the stretches of that length that   *)
(* the series covers without cutting an interval, each at the exact sum of   *)
(* its prices.                                                               *)
LEMMA WindowsAreStretches ==
  ASSUME IInv, Priced, NEW length \in Nat \ {0}
  PROVE  LET up == Upcoming(series, taken.at)
         IN  {Window(up, i, length, Present) : i \in Windows(up, length)}
                = {[start |-> t, price |-> HeldCost(t, length)] : t \in Covering(length)}
<1> DEFINE up == Upcoming(series, taken.at)
<1>1. /\ IsFiniteSet(series) /\ Disjoint(series) /\ taken.at \in Int
      /\ \A i \in series : i.price \in Int
      /\ \A i \in series : i.start \in Int /\ i.end \in Int /\ i.start < i.end
  BY SeriesDisjoint DEF IInv, InsightsCurrent, Disjoint
<1>2. ASSUME NEW u \in Int PROVE At(u) # {} <=> \E x \in series : Within(u, x)
  BY DEF At, Within
<1>3. ASSUME NEW i \in up
      PROVE  /\ i \in Windows(up, length) <=> i.start \in Covering(length)
             /\ i \in Windows(up, length) =>
                   UNION {Span(x) : x \in WindowFrom(up, i, length)}
                      = i.start .. i.start + length - 1
  <2>1. i \in series /\ i.start >= taken.at
    BY DEF Upcoming
  <2>2. i.start \in Covering(length)
           <=> /\ \A u \in i.start .. i.start + length - 1 : \E x \in series : Within(u, x)
               /\ \E m \in series : m.end = i.start + length
    BY <1>1, <1>2, <2>1 DEF Covering
  <2>3. PICK to : to = i.start + length
    OBVIOUS
  <2>8. i.start + length - 1 = to - 1
    BY <1>1, <2>1, <2>3
  <2>6. i.start \in Covering(length)
           <=> /\ \A u \in i.start .. to - 1 : \E x \in series : Within(u, x)
               /\ \E m \in series : m.end = to
    BY <2>2, <2>3, <2>8, Zenon
  <2>4. up = Upcoming(series, taken.at)
    OBVIOUS
  <2> HIDE DEF up
  <2>5. /\ i \in Windows(up, length)
              <=> /\ \A u \in i.start .. to - 1 : \E x \in series : Within(u, x)
                  /\ \E m \in series : m.end = to
        /\ i \in Windows(up, length)
              => UNION {Span(x) : x \in WindowFrom(up, i, length)} = i.start .. to - 1
    BY <1>1, <2>3, <2>4, WindowIsAStretch
  <2>7. /\ i \in Windows(up, length) <=> i.start \in Covering(length)
        /\ i \in Windows(up, length)
              => UNION {Span(x) : x \in WindowFrom(up, i, length)} = i.start .. to - 1
    BY <2>5, <2>6, Zenon
  <2> QED
    BY <2>3, <2>7, <2>8, Zenon
<1>4. ASSUME NEW i \in up, i \in Windows(up, length)
      PROVE  Window(up, i, length, Present)
                = [start |-> i.start, price |-> HeldCost(i.start, length)]
  <2> DEFINE W == WindowFrom(up, i, length)
             f == [u \in i.start .. i.start + length - 1 |-> HeldPrice(u)]
  <2>1. W \subseteq series
    BY DEF WindowFrom, Upcoming
  <2>2. IsFiniteSet(W) /\ Disjoint(W)
    BY <1>1, <2>1, FS_Subset DEF Disjoint
  <2>3. UNION {Span(x) : x \in W} = i.start .. i.start + length - 1
    BY <1>3, <1>4
  <2>4. ASSUME NEW x \in W
        PROVE  /\ SchedulingPrice(x.price, Present, x.start) \in Int
               /\ \A u \in Span(x) : f[u] = SchedulingPrice(x.price, Present, x.start)
    <3>1. x \in series /\ x.price \in Int
      BY <1>1, <2>1
    <3>2. SchedulingPrice(x.price, Present, x.start) \in Int
      BY <3>1, SchedulingWhole
    <3>3. ASSUME NEW u \in Span(x) PROVE f[u] = SchedulingPrice(x.price, Present, x.start)
      <4>1. At(u) = {x}
        BY <1>1, <3>1, AtIs
      <4>2. (CHOOSE y \in At(u) : TRUE) = x
        BY <4>1
      <4>3. HeldPrice(u) = SchedulingPrice(x.price, Present, x.start)
        BY <4>2 DEF HeldPrice
      <4>4. u \in i.start .. i.start + length - 1
        BY <2>3
      <4> QED
        BY <4>3, <4>4
    <3> QED
      BY <3>2, <3>3
  <2>5. HeldCost(i.start, length) = SumOf(i.start .. i.start + length - 1, f)
    BY DEF HeldCost
  <2> HIDE DEF W, f
  <2>6. Cost(W, Present) = SumOf(UNION {Span(x) : x \in W}, f)
    BY <2>2, <2>4, CostByUnits
  <2>7. Cost(W, Present) = HeldCost(i.start, length)
    BY <2>3, <2>5, <2>6, Zenon
  <2> QED
    BY <2>7 DEF Window, W
<1>5. \A t \in Covering(length) : \E i \in up : i.start = t
  BY <1>1 DEF Covering, Upcoming
<1>6. Windows(up, length) \subseteq up
  BY DEF Windows
<1> DEFINE Stretch(t) == [start |-> t, price |-> HeldCost(t, length)]
<1>7. {Window(up, i, length, Present) : i \in Windows(up, length)}
         = {Stretch(t) : t \in Covering(length)}
  <2>1. ASSUME NEW i \in Windows(up, length)
        PROVE  /\ Window(up, i, length, Present) = Stretch(i.start)
               /\ i.start \in Covering(length)
    BY <1>3, <1>4, <1>6
  <2>2. ASSUME NEW t \in Covering(length)
        PROVE  \E i \in Windows(up, length) : Window(up, i, length, Present) = Stretch(t)
    <3>1. PICK i \in up : i.start = t
      BY <1>5
    <3>2. i \in Windows(up, length)
      BY <1>3, <3>1
    <3> QED
      BY <2>1, <3>1, <3>2
  <2> HIDE DEF Stretch, up
  <2> QED
    BY <2>1, <2>2
<1> QED
  BY <1>7

\* The values of a function on a finite set are finitely many.
LEMMA ValuesFinite ==
  ASSUME NEW S, IsFiniteSet(S), NEW f
  PROVE  IsFiniteSet({f[x] : x \in S})
<1> DEFINE g == [x \in S |-> f[x]]
<1>1. g \in Surjection(S, {f[x] : x \in S})
  BY DEF Surjection
<1> HIDE DEF g
<1> QED
  BY <1>1, FS_Surjection

\* A finite set of integers has a least one.
LEMMA LeastInteger ==
  ASSUME NEW G, IsFiniteSet(G), G \subseteq Int, G # {}
  PROVE  Min(G) \in G /\ \A t \in G : Min(G) <= t
<1> DEFINE r == [t \in G |-> [start |-> t]]
           X == {r[t] : t \in G}
<1>1. IsFiniteSet(X)
  <2> HIDE DEF r
  <2> QED
    BY ValuesFinite
<1>2. X # {} /\ \A i \in X : i.start \in Int
  <2>1. ASSUME NEW i \in X PROVE i.start \in Int
    <3>1. PICK t \in G : i = [start |-> t]
      OBVIOUS
    <3> QED
      BY <3>1
  <2> QED
    BY <2>1
<1>3. PICK i \in X : \A j \in X : i.start <= j.start
  <2> HIDE DEF X
  <2> QED
    BY <1>1, <1>2, FirstInterval
<1>4. i.start \in G /\ \A t \in G : i.start <= t
  <2>1. \A t \in G : r[t] \in X /\ r[t].start = t
    OBVIOUS
  <2> QED
    BY <1>3, <2>1
<1> QED
  BY <1>4 DEF Min

\* Windows with the starts D and the prices P.
Stretches(D, P) == {[start |-> t, price |-> P[t]] : t \in D}

\* The start of the earliest of the windows W, and the least of the instants G, if there are any.
Earliest(W) == {w.start : w \in {x \in W : \A v \in W : x.start <= v.start}}
Least(G)    == IF G = {} THEN {} ELSE {Min(G)}

\* Of windows with distinct starts, the earliest is the one with the least start.
LEMMA EarliestOf ==
  ASSUME NEW G, IsFiniteSet(G), G \subseteq Int, NEW P
  PROVE  Earliest(Stretches(G, P)) = Least(G)
<1> DEFINE W == Stretches(G, P)
<1> USE DEF Stretches
<1>1. CASE G = {}
  BY <1>1 DEF Earliest, Least
<1>2. CASE G # {}
  <2>1. Min(G) \in G /\ \A t \in G : Min(G) <= t
    BY <1>2, LeastInteger
  <2> DEFINE Firsts == {x \in W : \A v \in W : x.start <= v.start}
             first == [start |-> Min(G), price |-> P[Min(G)]]
  <2>2. first \in W /\ first.start = Min(G)
    BY <2>1
  <2>3. ASSUME NEW w \in W PROVE w.start \in G
    OBVIOUS
  <2>4. first \in Firsts
    BY <2>1, <2>2, <2>3
  <2>5. ASSUME NEW w \in Firsts PROVE w.start = Min(G)
    <3>1. w.start \in G /\ w.start <= first.start
      BY <2>2, <2>3
    <3>2. w.start \in Int /\ Min(G) \in Int /\ Min(G) <= w.start
      BY <2>1, <3>1
    <3> HIDE DEF first, Firsts
    <3> QED
      BY <2>2, <3>1, <3>2
  <2> HIDE DEF first, Firsts
  <2>6. {w.start : w \in Firsts} = {Min(G)}
    BY <2>2, <2>4, <2>5
  <2> QED
    BY <1>2, <2>6 DEF Earliest, Least, Firsts
<1> QED
  BY <1>1, <1>2

\* The windows that satisfy a condition on starts and prices are those of the starts that do.
LEMMA CheapestOf ==
  ASSUME NEW D, NEW P, NEW W, W = Stretches(D, P)
  PROVE  {w \in W : \A v \in W : w.price <= v.price}
            = Stretches({r \in D : \A u \in D : P[r] <= P[u]}, P)
<1> USE DEF Stretches
<1> DEFINE Best == {w \in W : \A v \in W : w.price <= v.price}
           C == {r \in D : \A u \in D : P[r] <= P[u]}
<1>1. ASSUME NEW w \in Best PROVE \E t \in C : w = [start |-> t, price |-> P[t]]
  <2>1. PICK t \in D : w = [start |-> t, price |-> P[t]]
    OBVIOUS
  <2>2. ASSUME NEW u \in D PROVE P[t] <= P[u]
    <3>1. [start |-> u, price |-> P[u]] \in W
      OBVIOUS
    <3> QED
      BY <2>1, <3>1
  <2> QED
    BY <2>1, <2>2
<1>2. ASSUME NEW t \in C PROVE [start |-> t, price |-> P[t]] \in Best
  OBVIOUS
<1>3. Best = {[start |-> t, price |-> P[t]] : t \in C}
  <2> HIDE DEF Best, C
  <2> QED
    BY <1>1, <1>2
<1> QED
  BY <1>3

LEMMA CheapEnoughOf ==
  ASSUME NEW D, NEW P, NEW T, NEW n, NEW W, W = Stretches(D, P)
  PROVE  {w \in W : \E th \in T : w.price <= th * n}
            = Stretches({r \in D : \E th \in T : P[r] <= th * n}, P)
<1> USE DEF Stretches
<1> DEFINE Affordable == {w \in W : \E th \in T : w.price <= th * n}
           C == {r \in D : \E th \in T : P[r] <= th * n}
<1>1. ASSUME NEW w \in Affordable PROVE \E t \in C : w = [start |-> t, price |-> P[t]]
  <2>1. PICK t \in D : w = [start |-> t, price |-> P[t]]
    OBVIOUS
  <2> QED
    BY <2>1
<1>2. ASSUME NEW t \in C PROVE [start |-> t, price |-> P[t]] \in Affordable
  OBVIOUS
<1>3. Affordable = {[start |-> t, price |-> P[t]] : t \in C}
  <2> HIDE DEF Affordable, C
  <2> QED
    BY <1>1, <1>2
<1> QED
  BY <1>3

\* The starts of stretches are finitely many whole instants.
LEMMA CoveringFinite ==
  ASSUME IInv, NEW length
  PROVE  IsFiniteSet(Covering(length)) /\ Covering(length) \subseteq Int
<1> DEFINE f == [i \in series |-> i.start]
<1>1. IsFiniteSet(series) /\ \A i \in series : i.start \in Int
  BY SeriesDisjoint DEF Disjoint
<1>2. IsFiniteSet({f[i] : i \in series})
  <2> HIDE DEF f
  <2> QED
    BY <1>1, ValuesFinite
<1>3. Covering(length) \subseteq {f[i] : i \in series} /\ {f[i] : i \in series} \subseteq Int
  BY <1>1 DEF Covering
<1> QED
  BY <1>2, <1>3, FS_Subset

(* The windows and the first inexpensive hour, over any Workday answers,     *)
(* deliveries and ticks: what is shown is the earliest of the cheapest       *)
(* stretches of the series at the present tariff.                            *)
THEOREM WindowsSafe == Spec => []WindowsAreTheCheapest
<1>1. ASSUME IInv PROVE WindowsAreTheCheapest
  <2> DEFINE up == Upcoming(series, taken.at)
             All(length) == {Window(up, i, length, Present) : i \in Windows(up, length)}
             Best(length) == {w \in All(length) : \A v \in All(length) : w.price <= v.price}
             Affordable == {w \in All(HourSlots) :
                         \E th \in entry.options.threshold : w.price <= th * HourSlots}
             Cheapest(length) ==
                {t \in Covering(length) :
                    \A u \in Covering(length) : HeldCost(t, length) <= HeldCost(u, length)}
             Inexpensive ==
                {t \in Covering(HourSlots) :
                    \E th \in entry.options.threshold :
                       HeldCost(t, HourSlots) <= th * HourSlots}
  <2>1. Priced <=> KnownVat(Present.meta)
    BY DEF Priced, Present, Settings
  <2>2. insights.comparable => Priced
    BY <1>1 DEF IInv, ForecastCurrent, IsComparable, ForecastScope, ScopeOf, Priced
  <2>3. HourSlots \in Nat \ {0} /\ \A n \in Durations : n * HourSlots \in Nat \ {0}
    BY PricingAssumption, InsightsAssumption
  <2>4. ASSUME Priced, NEW length \in Nat \ {0}
        PROVE  Earliest(Best(length)) = Least(Cheapest(length))
    <3> DEFINE P == [t \in Covering(length) |-> HeldCost(t, length)]
               C == {r \in Covering(length) : \A u \in Covering(length) : P[r] <= P[u]}
    <3>1. All(length) = Stretches(Covering(length), P)
      BY <1>1, <2>4, WindowsAreStretches DEF Stretches
    <3>2. C = Cheapest(length)
      OBVIOUS
    <3>3. IsFiniteSet(C) /\ C \subseteq Int
      BY <1>1, CoveringFinite, FS_Subset
    <3>4. Best(length) = Stretches(C, P)
      <4> HIDE DEF P, All
      <4> QED
        BY <3>1, CheapestOf
    <3>5. Earliest(Best(length)) = Least(C)
      <4> HIDE DEF P, C, Best
      <4> QED
        BY <3>3, <3>4, EarliestOf
    <3> QED
      BY <3>2, <3>5, Zenon
  <2>5. ASSUME Priced PROVE Earliest(Affordable) = Least(Inexpensive)
    <3> DEFINE P == [t \in Covering(HourSlots) |-> HeldCost(t, HourSlots)]
               C == {r \in Covering(HourSlots) :
                        \E th \in entry.options.threshold : P[r] <= th * HourSlots}
    <3>1. All(HourSlots) = Stretches(Covering(HourSlots), P)
      BY <1>1, <2>3, <2>5, WindowsAreStretches DEF Stretches
    <3>2. C = Inexpensive
      OBVIOUS
    <3>3. IsFiniteSet(C) /\ C \subseteq Int
      BY <1>1, CoveringFinite, FS_Subset
    <3>4. Affordable = Stretches(C, P)
      <4> HIDE DEF P, All
      <4> QED
        BY <3>1, CheapEnoughOf
    <3>5. Earliest(Affordable) = Least(C)
      <4> HIDE DEF P, C, Affordable
      <4> QED
        BY <3>3, <3>4, EarliestOf
    <3> QED
      BY <3>2, <3>5, Zenon
  <2>6. ASSUME NEW n \in Durations
        PROVE  {w.start : w \in insights.cheapest[n]}
                  = IF Priced /\ Cheapest(n * HourSlots) # {}
                    THEN {Min(Cheapest(n * HourSlots))} ELSE {}
    <3>1. insights.cheapest[n] = IF ~Priced THEN {}
             ELSE {w \in Best(n * HourSlots) : \A v \in Best(n * HourSlots) : w.start <= v.start}
      BY <1>1, <2>1 DEF IInv, InsightsCurrent, CheapestWindow
    <3>2. {w.start : w \in insights.cheapest[n]}
             = IF ~Priced THEN {} ELSE Earliest(Best(n * HourSlots))
      <4> HIDE DEF Best
      <4> QED
        BY <3>1 DEF Earliest
    <3>3. Priced => Earliest(Best(n * HourSlots)) = Least(Cheapest(n * HourSlots))
      <4> HIDE DEF Best, Cheapest
      <4> QED
        BY <2>3, <2>4
    <3> HIDE DEF Best, Cheapest
    <3> QED
      BY <3>2, <3>3 DEF Least
  <2>7. {w.start : w \in insights.next}
           = IF insights.comparable /\ Inexpensive # {} THEN {Min(Inexpensive)} ELSE {}
    <3>1. insights.next = IF ~Priced \/ ~insights.comparable THEN {}
             ELSE {w \in Affordable : \A v \in Affordable : w.start <= v.start}
      BY <1>1, <2>1 DEF IInv, InsightsCurrent, NextInexpensive
    <3>2. {w.start : w \in insights.next}
             = IF ~Priced \/ ~insights.comparable THEN {} ELSE Earliest(Affordable)
      <4> HIDE DEF Affordable
      <4> QED
        BY <3>1 DEF Earliest
    <3> HIDE DEF Affordable, Inexpensive
    <3> QED
      BY <2>2, <2>5, <3>2 DEF Least
  <2> QED
    BY <2>6, <2>7 DEF WindowsAreTheCheapest
<1> QED
  BY <1>1, Invariance, PTL

-----------------------------------------------------------------------------
(* The tariff.                                                               *)

\* Days follow one another, and a clock time is the time since midnight.
LEMMA DaysOfTimes ==
  /\ DayLength \in Nat \ {0}
  /\ \A t \in Int : /\ DayOf(t) \in Int /\ ClockTime(t) \in 0 .. DayLength - 1
                    /\ t = Midnight(DayOf(t)) + ClockTime(t)
  /\ \A d, e \in Int : Midnight(d) \in Int /\ (d <= e => Midnight(d) <= Midnight(e))
  /\ \A d \in Int : Midnight(d + 1) = Midnight(d) + DayLength
  /\ \A t, u \in Int : t <= u => DayOf(t) <= DayOf(u)
<1>1. DayLength \in Nat \ {0}
  BY PricingAssumption DEF DayLength
<1>2. PICK L \in Nat \ {0} : L = DayLength
  BY <1>1
<1>3. ASSUME NEW t \in Int
      PROVE  t \div L \in Int /\ t % L \in 0 .. L - 1 /\ t = L * (t \div L) + (t % L)
  <2>1. \A x \in Int, k \in Nat : k > 0 =>
           /\ x \div k \in Int /\ x % k \in Int /\ 0 <= x % k /\ x % k < k
           /\ x = k * (x \div k) + (x % k)
    BY Z3
  <2>2. L \in Nat /\ L > 0
    OBVIOUS
  <2>3. /\ t \div L \in Int /\ t % L \in Int /\ 0 <= t % L /\ t % L < L
        /\ t = L * (t \div L) + (t % L)
    BY <2>1, <2>2
  <2> QED
    BY <2>3, <2>2
<1>4. \A d, e \in Int : L * d \in Int /\ (d <= e => L * d <= L * e)
  OBVIOUS
<1>5. \A d \in Int : L * (d + 1) = L * d + L
  OBVIOUS
<1>6. ASSUME NEW t \in Int, NEW u \in Int, t <= u PROVE t \div L <= u \div L
  <2>1. PICK d \in Int, e \in Int : d = t \div L /\ e = u \div L
    BY <1>3
  <2>2. L * d <= t /\ u < L * e + L
    <3>1. \E r, s \in 0 .. L - 1 : t = L * d + r /\ u = L * e + s
      BY <1>3, <2>1
    <3>2. L * d \in Int /\ L * e \in Int
      BY <1>4
    <3> QED
      BY <3>1, <3>2
  <2>3. ~(e + 1 <= d)
    <3> SUFFICES ASSUME e + 1 <= d PROVE FALSE
      OBVIOUS
    <3>1. L * (e + 1) <= L * d /\ L * (e + 1) = L * e + L /\ L * e \in Int /\ L * d \in Int
      BY <1>4, <1>5
    <3> QED
      BY <1>6, <2>2, <3>1
  <2> QED
    BY <2>1, <2>3
<1> QED
  BY <1>2, <1>3, <1>4, <1>5, <1>6 DEF DayOf, ClockTime, Midnight

(* The fee is the same throughout a stretch that no change time cuts, over   *)
(* midnights, seasons, excluded days and periods that run over midnight.     *)
LEMMA FeeHolds ==
  ASSUME NEW fee, NEW ex, NEW from \in Int, NEW to \in Int, NEW a \in Int, NEW b \in Int,
         from <= a, b <= to, \A t \in ChangeTimes(fee, from, to) : ~(a < t /\ t < b),
         NEW u \in a .. b - 1
  PROVE  FeeAt(fee, ex, u) = FeeAt(fee, ex, a)
<1>1. CASE fee.low = {} \/ fee.high = {}
  BY <1>1 DEF FeeAt
<1>2. CASE fee.low # {} /\ fee.high # {}
  <2> DEFINE d == DayOf(a)
  <2>1. HighStart \in Int /\ HighEnd \in Int
    BY PricingAssumption
  <2>0. u \in Int /\ a <= u /\ u < b /\ from <= a /\ u <= to
    OBVIOUS
  <2>2. d \in Int /\ a <= u /\ u < b /\ DayOf(from) <= d /\ d <= DayOf(u) /\ DayOf(u) <= DayOf(to)
        /\ DayOf(from) \in Int /\ DayOf(to) \in Int /\ DayOf(u) \in Int
    BY <2>0, DaysOfTimes
  <2>3. ASSUME NEW e \in d .. d + 1, e <= DayOf(u), NEW c \in ClockTimes
        PROVE  ~(a < Midnight(e) + c /\ Midnight(e) + c <= u)
    <3> SUFFICES ASSUME a < Midnight(e) + c, Midnight(e) + c <= u PROVE FALSE
      OBVIOUS
    <3>1. e \in DayOf(from) - 1 .. DayOf(to) + 1 /\ e \in Int
      BY <2>2, <2>3
    <3>2. c \in Int /\ Midnight(e) \in Int
      BY <2>1, <3>1, DaysOfTimes DEF ClockTimes
    <3>3. Midnight(e) + c \in ChangeTimes(fee, from, to)
      BY <1>2, <2>2, <3>1, <3>2 DEF ChangeTimes
    <3> QED
      BY <2>2, <3>2, <3>3
  <2>4. DayOf(u) = d
    <3> SUFFICES ASSUME d + 1 <= DayOf(u) PROVE FALSE
      BY <2>2
    <3>1. Midnight(d + 1) <= Midnight(DayOf(u)) /\ Midnight(d + 1) = Midnight(d) + DayLength
          /\ Midnight(d + 1) \in Int /\ Midnight(DayOf(u)) \in Int /\ Midnight(d) \in Int
      BY <2>2, DaysOfTimes
    <3>2. Midnight(DayOf(u)) <= u /\ a < Midnight(d) + DayLength
      <4>1. u = Midnight(DayOf(u)) + ClockTime(u) /\ a = Midnight(d) + ClockTime(a)
            /\ ClockTime(u) \in 0 .. DayLength - 1 /\ ClockTime(a) \in 0 .. DayLength - 1
            /\ DayLength \in Nat
        BY <2>0, DaysOfTimes
      <4> HIDE DEF d
      <4> QED
        BY <3>1, <4>1
    <3>3. a < Midnight(d + 1) + 0 /\ Midnight(d + 1) + 0 <= u
      BY <3>1, <3>2, <2>2
    <3>4. 0 \in ClockTimes /\ d + 1 \in d .. d + 1
      BY <2>2 DEF ClockTimes
    <3> HIDE DEF d
    <3> QED
      BY <2>3, <3>3, <3>4
  <2>5. /\ a = Midnight(d) + ClockTime(a) /\ u = Midnight(d) + ClockTime(u)
        /\ Midnight(d) \in Int /\ ClockTime(a) \in Int /\ ClockTime(u) \in Int
    BY <2>2, <2>4, DaysOfTimes
  <2>6. ASSUME NEW c \in {HighStart, HighEnd} PROVE c <= ClockTime(a) <=> c <= ClockTime(u)
    <3>1. ~(a < Midnight(d) + c /\ Midnight(d) + c <= u)
      BY <2>2, <2>3 DEF ClockTimes
    <3> HIDE DEF d
    <3> QED
      BY <2>1, <2>2, <2>5, <3>1
  <2>7. InHighHours(ClockTime(u)) <=> InHighHours(ClockTime(a))
    BY <2>1, <2>5, <2>6 DEF InHighHours
  <2> QED
    BY <2>4, <2>7 DEF FeeAt, IsHigh
<1> QED
  BY <1>1, <1>2

-----------------------------------------------------------------------------
(* The trend.                                                                *)

(* The check that the intervals follow one another asks exactly whether      *)
(* every instant of the two hours has a price.                               *)
LEMMA JoinedIsWhole ==
  ASSUME NEW X, IsFiniteSet(X), Disjoint(X), NEW at \in Int, NEW to, to = at + 2 * HourSlots
  PROVE  Joined(X, at) <=> \A u \in at .. to - 1 : \E x \in X : Within(u, x)
<1>0. \A i \in X : i.start \in Int /\ i.end \in Int /\ i.start < i.end
  BY DEF Disjoint
<1>1. to \in Int /\ at < to
  BY PricingAssumption
<1> DEFINE R == Relevant(X, at)
<1>2. /\ R = {i \in X : i.end > at /\ i.start < to}
      /\ \A i \in R : /\ Left(i, at) = IF i.start > at THEN i.start ELSE at
                      /\ Right(i, at) = IF i.end < to THEN i.end ELSE to
      /\ Joined(X, at) <=> /\ \E i \in R : Right(i, at) = to
                           /\ \A i \in R : \/ Left(i, at) = at
                                           \/ \E k \in R : Left(i, at) = Right(k, at)
  BY DEF Relevant, Left, Right, Joined
<1>3. ASSUME Joined(X, at)
      PROVE  /\ \E x \in X : x.start < to /\ to <= x.end
             /\ \A j \in X : at < j.start /\ j.start < to => \E k \in X : k.end = j.start
  <2>1. PICK i \in R : Right(i, at) = to
    BY <1>2, <1>3
  <2>2. i \in X /\ i.start < to /\ to <= i.end
    BY <1>0, <1>1, <1>2, <2>1
  <2>3. ASSUME NEW j \in X, at < j.start, j.start < to PROVE \E k \in X : k.end = j.start
    <3>1. j \in R /\ Left(j, at) = j.start /\ j.start # at
      BY <1>0, <1>1, <1>2, <2>3
    <3>2. PICK k \in R : Right(k, at) = j.start
      BY <1>2, <1>3, <3>1
    <3> QED
      BY <1>0, <1>1, <1>2, <2>3, <3>2
  <2> QED
    BY <2>2, <2>3
<1>4. ASSUME NEW x \in X, x.start < to, to <= x.end,
             \A j \in X : at < j.start /\ j.start < to => \E k \in X : k.end = j.start
      PROVE  Joined(X, at)
  <2>1. x \in R /\ Right(x, at) = to
    BY <1>0, <1>1, <1>2, <1>4
  <2>2. ASSUME NEW i \in R, Left(i, at) # at PROVE \E k \in R : Left(i, at) = Right(k, at)
    <3>1. i \in X /\ at < i.start /\ i.start < to /\ Left(i, at) = i.start
      BY <1>0, <1>1, <1>2, <2>2
    <3>2. PICK k \in X : k.end = i.start
      BY <1>4, <3>1
    <3>3. k \in R /\ Right(k, at) = i.start
      BY <1>0, <1>1, <1>2, <3>1, <3>2
    <3> QED
      BY <3>1, <3>3
  <2> HIDE DEF R
  <2> QED
    BY <1>2, <2>1, <2>2
<1>5. (\A u \in at .. to - 1 : \E x \in X : Within(u, x))
         <=> /\ \E x \in X : x.start < to /\ to <= x.end
             /\ \A j \in X : at < j.start /\ j.start < to => \E k \in X : k.end = j.start
  BY <1>1, Unbroken
<1> QED
  BY <1>3, <1>4, <1>5

\* A finite set of integers has a greatest one.
LEMMA GreatestInteger ==
  ASSUME NEW G, IsFiniteSet(G), G \subseteq Int, G # {}
  PROVE  \E m \in G : \A t \in G : t <= m
<1> DEFINE n == [t \in G |-> 0 - t]
           N == {n[t] : t \in G}
<1>1. IsFiniteSet(N)
  <2> HIDE DEF n
  <2> QED
    BY ValuesFinite
<1>2. N \subseteq Int /\ N # {}
  <2>1. \A t \in G : n[t] \in Int
    OBVIOUS
  <2> HIDE DEF n
  <2> QED
    BY <2>1
<1>3. Min(N) \in N /\ \A m \in N : Min(N) <= m
  <2> HIDE DEF N
  <2> QED
    BY <1>1, <1>2, LeastInteger
<1>4. PICK m \in G : Min(N) = 0 - m
  BY <1>3
<1>5. ASSUME NEW t \in G PROVE t <= m
  <2>1. 0 - t \in N
    OBVIOUS
  <2>2. 0 - m <= 0 - t
    BY <1>3, <1>4, <2>1
  <2> QED
    BY <2>2
<1> QED
  BY <1>5

\* A relevant interval is cut at whole instants of the two hours.
LEMMA PointsOf ==
  ASSUME NEW at \in Int, NEW to, to = at + 2 * HourSlots, NEW p, NEW i,
         i.start \in Int, i.end \in Int, i.start < i.end, i.end > at, i.start < to
  PROVE  /\ Left(i, at) \in Int /\ Right(i, at) \in Int /\ to \in Int
         /\ at <= Left(i, at) /\ i.start <= Left(i, at) /\ Left(i, at) < Right(i, at)
         /\ Right(i, at) <= to /\ Right(i, at) <= i.end
         /\ Points(i, at, p) \subseteq Left(i, at) .. Right(i, at)
         /\ {Left(i, at), Right(i, at)} \subseteq Points(i, at, p)
         /\ \A u \in Int : u < to /\ Within(u, i) /\ at <= u => Left(i, at) <= u /\ u < Right(i, at)
<1>1. /\ Left(i, at) = IF i.start > at THEN i.start ELSE at
      /\ Right(i, at) = IF i.end < to THEN i.end ELSE to
      /\ to \in Int /\ at < to
  BY PricingAssumption DEF Left, Right
<1>2. /\ Left(i, at) \in Int /\ Right(i, at) \in Int /\ at <= Left(i, at) /\ i.start <= Left(i, at)
      /\ Left(i, at) < Right(i, at) /\ Right(i, at) <= to /\ Right(i, at) <= i.end
  BY <1>1
<1>3. \A t \in ChangeTimes(p.fee, at, to) : t \in Int
  <2>1. HighStart \in Int /\ HighEnd \in Int
    BY PricingAssumption
  <2>2. DayOf(at) \in Int /\ DayOf(to) \in Int /\ \A d \in Int : Midnight(d) \in Int
    BY <1>1, DaysOfTimes
  <2> QED
    BY <2>1, <2>2 DEF ChangeTimes, ClockTimes
<1>4. at + HourSlots \in Int
  BY PricingAssumption
<1>5. Points(i, at, p) = {Left(i, at), Right(i, at)} \union
         {t \in {at + HourSlots} \union ChangeTimes(p.fee, at, to) :
             Left(i, at) < t /\ t < Right(i, at)}
  BY DEF Points
<1>6. Points(i, at, p) \subseteq Left(i, at) .. Right(i, at)
  BY <1>2, <1>3, <1>4, <1>5
<1>7. \A u \in Int : u < to /\ Within(u, i) /\ at <= u => Left(i, at) <= u /\ u < Right(i, at)
  BY <1>1 DEF Within
<1> QED
  BY <1>1, <1>2, <1>5, <1>6, <1>7

(* The pieces of an interval are apart, none runs over the middle of the two *)
(* hours or a change of the fee, and together they are the interval's part   *)
(* of the two hours.                                                         *)
LEMMA PiecesOfInterval ==
  ASSUME NEW at \in Int, NEW to, to = at + 2 * HourSlots, NEW p, NEW i,
         i.start \in Int, i.end \in Int, i.start < i.end, i.end > at, i.start < to
  PROVE  /\ \A x \in PiecesOf(i, at, p) :
               /\ x.start \in Int /\ x.end \in Int /\ x.start < x.end /\ x.price = i.price
               /\ Left(i, at) <= x.start /\ x.end <= Right(i, at)
               /\ ~(x.start < at + HourSlots /\ at + HourSlots < x.end)
               /\ \A t \in ChangeTimes(p.fee, at, to) : ~(x.start < t /\ t < x.end)
         /\ Disjoint(PiecesOf(i, at, p))
         /\ \A u \in Int : u < to /\ Within(u, i) /\ at <= u =>
               \E x \in PiecesOf(i, at, p) : Within(u, x)
<1> DEFINE P == Points(i, at, p)
           lo == Left(i, at)
           hi == Right(i, at)
<1>1. /\ lo \in Int /\ hi \in Int /\ lo < hi /\ P \subseteq lo .. hi /\ lo \in P /\ hi \in P
      /\ \A u \in Int : u < to /\ Within(u, i) /\ at <= u => lo <= u /\ u < hi
  BY PointsOf
<1>2. \A t \in {at + HourSlots} \union ChangeTimes(p.fee, at, to) : lo < t /\ t < hi => t \in P
  BY DEF Points
<1>3. PiecesOf(i, at, p) = {x \in [start : P, end : P, price : {i.price}] :
                               x.start < x.end /\ \A t \in P : ~(x.start < t /\ t < x.end)}
  BY DEF PiecesOf
<1>4. at + HourSlots \in Int /\ \A t \in ChangeTimes(p.fee, at, to) : t \in Int
  <2>1. HighStart \in Int /\ HighEnd \in Int /\ HourSlots \in Nat /\ to \in Int
    BY PricingAssumption
  <2>2. DayOf(at) \in Int /\ DayOf(to) \in Int /\ \A d \in Int : Midnight(d) \in Int
    BY <2>1, DaysOfTimes
  <2> QED
    BY <2>1, <2>2 DEF ChangeTimes, ClockTimes
<1> HIDE DEF P, lo, hi
<1>5. ASSUME NEW x \in PiecesOf(i, at, p)
      PROVE  /\ x.start \in P /\ x.end \in P /\ x.start < x.end /\ x.price = i.price
             /\ x = [start |-> x.start, end |-> x.end, price |-> i.price]
             /\ \A t \in P : ~(x.start < t /\ t < x.end)
  BY <1>3
<1>6. ASSUME NEW x \in PiecesOf(i, at, p)
      PROVE  /\ x.start \in Int /\ x.end \in Int /\ lo <= x.start /\ x.end <= hi
             /\ ~(x.start < at + HourSlots /\ at + HourSlots < x.end)
             /\ \A t \in ChangeTimes(p.fee, at, to) : ~(x.start < t /\ t < x.end)
  <2>1. x.start \in Int /\ x.end \in Int /\ lo <= x.start /\ x.end <= hi
    BY <1>1, <1>5
  <2>2. ASSUME NEW t \in {at + HourSlots} \union ChangeTimes(p.fee, at, to)
        PROVE  ~(x.start < t /\ t < x.end)
    <3> SUFFICES ASSUME x.start < t, t < x.end PROVE FALSE
      OBVIOUS
    <3>1. t \in Int
      BY <1>4
    <3>2. lo < t /\ t < hi
      BY <1>1, <2>1, <3>1
    <3> QED
      BY <1>2, <1>5, <3>2
  <2> QED
    BY <2>1, <2>2
<1>7. Disjoint(PiecesOf(i, at, p))
  <2>1. ASSUME NEW x \in PiecesOf(i, at, p), NEW y \in PiecesOf(i, at, p), x # y
        PROVE  x.end <= y.start \/ y.end <= x.start
    <3>1. x.start # y.start \/ x.end # y.end
      BY <1>5, <2>1
    <3>2. /\ x.start \in P /\ x.end \in P /\ y.start \in P /\ y.end \in P
          /\ x.start < x.end /\ y.start < y.end
          /\ x.start \in Int /\ x.end \in Int /\ y.start \in Int /\ y.end \in Int
      BY <1>5, <1>6
    <3>3. /\ ~(x.start < y.start /\ y.start < x.end) /\ ~(x.start < y.end /\ y.end < x.end)
          /\ ~(y.start < x.start /\ x.start < y.end) /\ ~(y.start < x.end /\ x.end < y.end)
      BY <1>5, <3>2
    <3> QED
      BY <3>1, <3>2, <3>3
  <2> QED
    BY <1>5, <1>6, <2>1 DEF Disjoint
<1>8. ASSUME NEW u \in Int, lo <= u, u < hi PROVE \E x \in PiecesOf(i, at, p) : Within(u, x)
  <2> DEFINE before == {t \in P : t <= u}
             after  == {t \in P : t > u}
  <2>1. IsFiniteSet(P) /\ P \subseteq Int
    <3>1. IsFiniteSet(lo .. hi) /\ lo .. hi \subseteq Int
      BY <1>1, FS_Interval
    <3> QED
      BY <1>1, <3>1, FS_Subset
  <2>2. lo \in before /\ hi \in after
    BY <1>1, <1>8
  <2>3. /\ IsFiniteSet(before) /\ before \subseteq Int
        /\ IsFiniteSet(after) /\ after \subseteq Int
    BY <2>1, FS_Subset
  <2>4. PICK a \in before : \A t \in before : t <= a
    <3> HIDE DEF before
    <3> QED
      BY <2>2, <2>3, GreatestInteger
  <2>5. PICK b \in after : \A t \in after : b <= t
    <3> HIDE DEF after
    <3> QED
      BY <2>2, <2>3, LeastInteger
  <2>6. a \in P /\ b \in P /\ a \in Int /\ b \in Int /\ a <= u /\ u < b
    BY <1>1
  <2>7. ASSUME NEW t \in P, a < t, t < b PROVE FALSE
    BY <1>1, <1>8, <2>4, <2>5, <2>6, <2>7
  <2> DEFINE x == [start |-> a, end |-> b, price |-> i.price]
  <2>8. x \in PiecesOf(i, at, p)
    BY <1>3, <2>6, <2>7
  <2>9. Within(u, x)
    BY <2>6 DEF Within
  <2> QED
    BY <2>8, <2>9
<1>9. \A x \in PiecesOf(i, at, p) :
               /\ x.start \in Int /\ x.end \in Int /\ x.start < x.end /\ x.price = i.price
               /\ lo <= x.start /\ x.end <= hi
               /\ ~(x.start < at + HourSlots /\ at + HourSlots < x.end)
               /\ \A t \in ChangeTimes(p.fee, at, to) : ~(x.start < t /\ t < x.end)
  BY <1>5, <1>6
<1>10. \A u \in Int : u < to /\ Within(u, i) /\ at <= u =>
               \E x \in PiecesOf(i, at, p) : Within(u, x)
  BY <1>1, <1>8
<1> QED
  BY <1>7, <1>9, <1>10 DEF lo, hi

\* The pieces of a series that covers the two hours are finitely many, apart, and cover them.
LEMMA PiecesOfSeries ==
  ASSUME NEW X, Disjoint(X), NEW at \in Int, NEW to, to = at + 2 * HourSlots, NEW p,
         NEW S, S = Pieces(X, at, p)
  PROVE  /\ \A x \in S :
               /\ at <= x.start /\ x.end <= to
               /\ ~(x.start < at + HourSlots /\ at + HourSlots < x.end)
               /\ \A t \in ChangeTimes(p.fee, at, to) : ~(x.start < t /\ t < x.end)
               /\ \E i \in X : x.price = i.price /\ i.start <= x.start /\ x.end <= i.end
         /\ IsFiniteSet(S) /\ Disjoint(S)
         /\ \A u \in at .. to - 1 : (\E i \in X : Within(u, i)) => \E x \in S : Within(u, x)
<1> DEFINE R == Relevant(X, at)
<1>0. to \in Int
  BY PricingAssumption
<1>1. ASSUME NEW i \in R
      PROVE  /\ i \in X /\ i.start \in Int /\ i.end \in Int /\ i.start < i.end
             /\ i.end > at /\ i.start < to
             /\ at <= Left(i, at) /\ i.start <= Left(i, at) /\ Right(i, at) <= to
             /\ Right(i, at) <= i.end /\ Left(i, at) \in Int /\ Right(i, at) \in Int
  <2>1. i \in X /\ i.end > at /\ i.start < to
    BY DEF Relevant
  <2>2. i.start \in Int /\ i.end \in Int /\ i.start < i.end
    BY <2>1 DEF Disjoint
  <2> HIDE DEF R
  <2> QED
    BY <2>1, <2>2, PointsOf
<1>2. S = UNION {PiecesOf(i, at, p) : i \in R}
  BY DEF Pieces
<1> HIDE DEF R
<1>3. ASSUME NEW i \in R
      PROVE  /\ \A x \in PiecesOf(i, at, p) :
                  /\ x.start \in Int /\ x.end \in Int /\ x.start < x.end /\ x.price = i.price
                  /\ Left(i, at) <= x.start /\ x.end <= Right(i, at)
                  /\ ~(x.start < at + HourSlots /\ at + HourSlots < x.end)
                  /\ \A t \in ChangeTimes(p.fee, at, to) : ~(x.start < t /\ t < x.end)
             /\ Disjoint(PiecesOf(i, at, p))
             /\ \A u \in Int : u < to /\ Within(u, i) /\ at <= u =>
                   \E x \in PiecesOf(i, at, p) : Within(u, x)
  BY <1>1, PiecesOfInterval
<1>4. ASSUME NEW x \in S
      PROVE  \E i \in R :
                /\ x \in PiecesOf(i, at, p) /\ x.price = i.price /\ i \in X
                /\ at <= x.start /\ x.end <= to /\ i.start <= x.start /\ x.end <= i.end
                /\ x.start \in Int /\ x.end \in Int /\ x.start < x.end
                /\ ~(x.start < at + HourSlots /\ at + HourSlots < x.end)
                /\ \A t \in ChangeTimes(p.fee, at, to) : ~(x.start < t /\ t < x.end)
  <2>1. PICK i \in R : x \in PiecesOf(i, at, p)
    BY <1>2
  <2>2. /\ x.start \in Int /\ x.end \in Int /\ x.start < x.end /\ x.price = i.price
        /\ Left(i, at) <= x.start /\ x.end <= Right(i, at)
        /\ ~(x.start < at + HourSlots /\ at + HourSlots < x.end)
        /\ \A t \in ChangeTimes(p.fee, at, to) : ~(x.start < t /\ t < x.end)
    BY <1>3, <2>1
  <2>3. at <= x.start /\ x.end <= to /\ i.start <= x.start /\ x.end <= i.end
    BY <1>0, <1>1, <2>2
  <2> QED
    BY <1>1, <2>1, <2>2, <2>3
<1>5. Disjoint(S)
  <2>1. ASSUME NEW x \in S, NEW y \in S, x # y PROVE x.end <= y.start \/ y.end <= x.start
    <3>1. PICK i \in R : x \in PiecesOf(i, at, p) /\ i \in X /\ i.start <= x.start /\ x.end <= i.end
                         /\ x.start \in Int /\ x.end \in Int
      BY <1>4
    <3>2. PICK j \in R : y \in PiecesOf(j, at, p) /\ j \in X /\ j.start <= y.start /\ y.end <= j.end
                         /\ y.start \in Int /\ y.end \in Int
      BY <1>4
    <3>3. CASE i = j
      BY <1>3, <2>1, <3>1, <3>2, <3>3 DEF Disjoint
    <3>4. CASE i # j
      <4>1. /\ i.end <= j.start \/ j.end <= i.start
            /\ i.start \in Int /\ i.end \in Int /\ j.start \in Int /\ j.end \in Int
        BY <3>1, <3>2, <3>4 DEF Disjoint
      <4> QED
        BY <3>1, <3>2, <4>1
    <3> QED
      BY <3>3, <3>4
  <2>2. \A x \in S : x.start \in Int /\ x.end \in Int /\ x.start < x.end
    BY <1>4
  <2> QED
    BY <2>1, <2>2 DEF Disjoint
<1>6. IsFiniteSet(S)
  <2> DEFINE f == [x \in S |-> x.start]
  <2>1. \A x \in S : f[x] \in at .. to - 1
    BY <1>0, <1>4
  <2>2. ASSUME NEW x \in S, NEW y \in S, f[x] = f[y] PROVE x = y
    <3>1. x.start = y.start /\ x.start < x.end /\ y.start < y.end
          /\ x.start \in Int /\ y.start \in Int /\ x.end \in Int /\ y.end \in Int
      BY <1>4, <2>2
    <3>2. x # y => x.end <= y.start \/ y.end <= x.start
      BY <1>5 DEF Disjoint
    <3> QED
      BY <3>1, <3>2
  <2>3. f \in [S -> at .. to - 1]
    BY <2>1
  <2> HIDE DEF f
  <2>4. f \in Injection(S, at .. to - 1)
    BY <2>2, <2>3 DEF Injection, IsInjective
  <2>5. IsFiniteSet(at .. to - 1)
    BY <1>0, FS_Interval
  <2> QED
    BY <2>4, <2>5, FS_Injection
<1>7. ASSUME NEW u \in at .. to - 1, NEW i \in X, Within(u, i) PROVE \E x \in S : Within(u, x)
  <2>1. u \in Int /\ at <= u /\ u < to
    BY <1>0
  <2>2. i \in R
    <3>1. i.start \in Int /\ i.end \in Int
      BY DEF Disjoint
    <3> QED
      BY <1>0, <1>7, <2>1, <3>1 DEF R, Relevant, Within
  <2>3. PICK x \in PiecesOf(i, at, p) : Within(u, x)
    BY <1>3, <1>7, <2>1, <2>2
  <2> QED
    BY <1>2, <2>2, <2>3
<1>8. \A x \in S :
         /\ at <= x.start /\ x.end <= to
         /\ ~(x.start < at + HourSlots /\ at + HourSlots < x.end)
         /\ \A t \in ChangeTimes(p.fee, at, to) : ~(x.start < t /\ t < x.end)
         /\ \E i \in X : x.price = i.price /\ i.start <= x.start /\ x.end <= i.end
  BY <1>4
<1> QED
  BY <1>5, <1>6, <1>7, <1>8

(* Each hour's cost is exact: a piece holds the price of its interval and     *)
(* the fee of its start, and these are those of all its instants.            *)
LEMMA HourIsExact ==
  ASSUME IInv, Priced, NEW at, at = taken.at, NEW to, to = at + 2 * HourSlots,
         \A u \in at .. to - 1 : \E i \in series : Within(u, i),
         NEW from \in {at, at + HourSlots}, NEW S,
         S = {x \in Pieces(series, at, Present) :
                 IF from = at THEN x.start < at + HourSlots ELSE x.start >= at + HourSlots}
  PROVE  Cost(S, Present) = ExactCost(from)
<1> DEFINE All == Pieces(series, at, Present)
           f   == [u \in from .. from + HourSlots - 1 |-> ExactPrice(u)]
<1>1. /\ Disjoint(series) /\ at \in Int /\ \A i \in series : i.price \in Int
      /\ HourSlots \in Nat \ {0} /\ from \in Int /\ to \in Int /\ at + HourSlots \in Int
  BY SeriesDisjoint, PricingAssumption DEF IInv, InsightsCurrent
<1>2. /\ \A x \in All :
            /\ at <= x.start /\ x.end <= to
            /\ ~(x.start < at + HourSlots /\ at + HourSlots < x.end)
            /\ \A t \in ChangeTimes(Present.fee, at, to) : ~(x.start < t /\ t < x.end)
            /\ \E i \in series : x.price = i.price /\ i.start <= x.start /\ x.end <= i.end
      /\ IsFiniteSet(All) /\ Disjoint(All)
      /\ \A u \in at .. to - 1 : \E x \in All : Within(u, x)
  BY <1>1, PiecesOfSeries
<1>3. \A x \in All : x.start \in Int /\ x.end \in Int /\ x.start < x.end
  BY <1>2 DEF Disjoint
<1>4. S = {x \in All : IF from = at THEN x.start < at + HourSlots
                                    ELSE x.start >= at + HourSlots}
  OBVIOUS
<1> HIDE DEF All
<1>5. S \subseteq All /\ IsFiniteSet(S) /\ Disjoint(S)
  BY <1>2, <1>4, FS_Subset DEF Disjoint
<1>6. ASSUME NEW x \in S PROVE from <= x.start /\ x.end <= from + HourSlots
  <2>1. x \in All /\ IF from = at THEN x.start < at + HourSlots ELSE x.start >= at + HourSlots
    BY <1>4
  <2>2. /\ x.start \in Int /\ x.end \in Int /\ at <= x.start /\ x.end <= to
        /\ ~(x.start < at + HourSlots /\ at + HourSlots < x.end)
    BY <1>2, <1>3, <2>1
  <2> QED
    BY <1>1, <2>1, <2>2
<1>7. UNION {Span(x) : x \in S} = from .. from + HourSlots - 1
  <2>1. ASSUME NEW u \in from .. from + HourSlots - 1 PROVE \E x \in S : u \in Span(x)
    <3>1. u \in at .. to - 1 /\ u \in Int /\ from <= u /\ u < from + HourSlots
      BY <1>1
    <3>2. PICK x \in All : Within(u, x)
      BY <1>2, <3>1
    <3>3. /\ x.start \in Int /\ x.end \in Int /\ x.start <= u /\ u < x.end
          /\ ~(x.start < at + HourSlots /\ at + HourSlots < x.end)
      BY <1>2, <1>3, <3>2 DEF Within
    <3>4. IF from = at THEN x.start < at + HourSlots ELSE x.start >= at + HourSlots
      BY <1>1, <3>1, <3>3
    <3> QED
      BY <1>4, <3>1, <3>3, <3>4 DEF Span
  <2>2. ASSUME NEW x \in S, NEW u \in Span(x) PROVE u \in from .. from + HourSlots - 1
    BY <1>1, <1>3, <1>5, <1>6 DEF Span
  <2> QED
    BY <2>1, <2>2
<1>8. ASSUME NEW x \in S
      PROVE  /\ SchedulingPrice(x.price, Present, x.start) \in Int
             /\ \A u \in Span(x) : f[u] = SchedulingPrice(x.price, Present, x.start)
  <2>1. x \in All /\ x.start \in Int /\ x.end \in Int /\ x.start < x.end
        /\ at <= x.start /\ x.end <= to
        /\ \A t \in ChangeTimes(Present.fee, at, to) : ~(x.start < t /\ t < x.end)
    BY <1>2, <1>3, <1>5
  <2>2. PICK i \in series : x.price = i.price /\ i.start <= x.start /\ x.end <= i.end
    BY <1>2, <2>1
  <2>3. SchedulingPrice(x.price, Present, x.start) \in Int
    BY <1>1, <2>2, SchedulingWhole
  <2>4. ASSUME NEW u \in Span(x) PROVE f[u] = SchedulingPrice(x.price, Present, x.start)
    <3>1. u \in from .. from + HourSlots - 1
      BY <1>7
    <3>2. u \in Span(i)
      BY <2>1, <2>2, SeriesDisjoint DEF Span, Disjoint
    <3>3. (CHOOSE y \in At(u) : TRUE) = i
      <4>1. At(u) = {i}
        BY <1>1, <3>2, AtIs
      <4> QED
        BY <4>1
    <3>4. FeeAt(Present.fee, Present.excluded, u) = FeeAt(Present.fee, Present.excluded, x.start)
      BY <1>1, <2>1, FeeHolds DEF Span
    <3>5. AdjAt(Present, u) = AdjAt(Present, x.start)
      BY <3>4 DEF AdjAt
    <3>6. ExactPrice(u) = SchedulingPrice(x.price, Present, x.start)
      BY <2>2, <3>3, <3>5 DEF ExactPrice, SchedulingPrice
    <3> QED
      BY <3>1, <3>6
  <2> QED
    BY <2>3, <2>4
<1>9. ExactCost(from) = SumOf(from .. from + HourSlots - 1, f)
  BY DEF ExactCost
<1> HIDE DEF f
<1>10. Cost(S, Present) = SumOf(UNION {Span(x) : x \in S}, f)
  BY <1>5, <1>8, CostByUnits
<1> QED
  BY <1>7, <1>9, <1>10, Zenon

(* The trend, over intervals cut by the present moment and by the middle of  *)
(* the two hours, and over changes of the fee inside an interval: it         *)
(* compares the exact costs of the two hours, or is not shown.               *)
THEOREM TrendSafe == Spec => []TrendIsExact
<1>1. ASSUME IInv PROVE TrendIsExact
  <2>1. PICK at, to : at = taken.at /\ to = at + 2 * HourSlots
    OBVIOUS
  <2> DEFINE P == Pieces(series, at, Present)
             whole == \A u \in at .. to - 1 : At(u) # {}
  <2>2. Priced <=> KnownVat(Present.meta)
    BY DEF Priced, Present, Settings
  <2>3. IsFiniteSet(series) /\ Disjoint(series) /\ at \in Int /\ to \in Int
        /\ HourSlots \in Nat \ {0}
    BY <1>1, <2>1, SeriesDisjoint, PricingAssumption DEF IInv, InsightsCurrent
  <2>4. whole <=> \A u \in at .. to - 1 : \E x \in series : Within(u, x)
    BY DEF At, Within
  <2>5. whole <=> Joined(series, at)
    BY <2>1, <2>3, <2>4, JoinedIsWhole
  <2>6. insights.direction =
          IF ~(Priced /\ whole) THEN "none"
          ELSE Direction(Cost({x \in P : x.start < at + HourSlots}, Present),
                         Cost({x \in P : x.start >= at + HourSlots}, Present))
    BY <1>1, <2>1, <2>2, <2>5 DEF IInv, InsightsCurrent, PriceDirection
  <2>7. ASSUME Priced, whole
        PROVE  /\ Cost({x \in P : x.start < at + HourSlots}, Present) = ExactCost(at)
               /\ Cost({x \in P : x.start >= at + HourSlots}, Present) = ExactCost(at + HourSlots)
    <3>1. at + HourSlots # at
      BY <2>3
    <3>2. PICK S : S = {x \in P : x.start < at + HourSlots}
      OBVIOUS
    <3>3. PICK T : T = {x \in P : x.start >= at + HourSlots}
      OBVIOUS
    <3>4. \A u \in at .. to - 1 : \E x \in series : Within(u, x)
      BY <2>4, <2>7
    <3> HIDE DEF whole
    <3>5. Cost(S, Present) = ExactCost(at)
      BY <1>1, <2>1, <2>7, <3>2, <3>4, HourIsExact
    <3>6. Cost(T, Present) = ExactCost(at + HourSlots)
      BY <1>1, <2>1, <2>7, <3>1, <3>3, <3>4, HourIsExact
    <3> QED
      BY <3>2, <3>3, <3>5, <3>6, Zenon
  <2>8. insights.direction =
          IF Priced /\ whole THEN Direction(ExactCost(at), ExactCost(at + HourSlots)) ELSE "none"
    <3> HIDE DEF whole, P
    <3> QED
      BY <2>6, <2>7
  <2>9. whole <=> \A t \in taken.at .. taken.at + 2 * HourSlots - 1 : At(t) # {}
    <3>1. taken.at + 2 * HourSlots - 1 = to - 1
      BY <2>1, <2>3
    <3> QED
      BY <2>1, <3>1
  <2> HIDE DEF whole
  <2> QED
    BY <2>1, <2>8, <2>9 DEF TrendIsExact
<1> QED
  BY <1>1, Invariance, PTL

-----------------------------------------------------------------------------
(* The cache behind the forecast.  Its variables are ForecastSeries'.         *)
CONSTANTS Shifts, MaxMishaps
VARIABLES published, odd

Cache == INSTANCE ForecastCache

Intervals == [start : Int, end : Int, area : Int]

TicksShape(f) ==
    f = [i \in Cache!Ticks |-> f[i]] /\ \A i \in Cache!Ticks : f[i].at \in Nat \union {Cache!Idle}

\* The part of the state that the cache and the ticks depend on.
Shape ==
    /\ slot \in Nat /\ restarts \in Nat /\ shift \in -1 .. 1
    /\ cache \in [Cache!Dates -> SUBSET Intervals]
    /\ TicksShape(tick)

-----------------------------------------------------------------------------
\* The cached dates after storing a response are the response and the other dates.
LEMMA StoredSeries ==
    ASSUME NEW c \in [Cache!Dates -> SUBSET Intervals], NEW d \in Cache!Dates, NEW r
    PROVE  Cache!Cached([c EXCEPT ![d] = r]) = r \union UNION {c[e] : e \in Cache!Dates \ {d}}
BY DEF Cache!Cached

\* A part of a valid series is valid.
LEMMA ValidPart ==
    ASSUME NEW S, NEW T \in SUBSET S, Cache!Valid(S)
    PROVE  Cache!Valid(T)
BY DEF Cache!Valid

\* The first delivery date is the market day on which the local day began.
LEMMA FirstDeliveryDate ==
    ASSUME NEW t \in Nat, shift \in -1 .. 1
    PROVE  /\ Cache!MarketDay(Cache!LocalStart(t)) \in Cache!DeliveryDates(t)
           /\ Cache!Min(Cache!DeliveryDates(t)) = Cache!MarketDay(Cache!LocalStart(t))
<1>1. Cache!MarketDay(Cache!LocalStart(t)) \in Int /\ Cache!MarketDay(t) \in Int
      /\ Cache!MarketDay(Cache!LocalStart(t)) <= Cache!MarketDay(t)
  BY DEF Cache!MarketDay, Cache!LocalStart, Cache!SlotsPerDay
<1>2. PICK n \in Int : /\ n >= Cache!MarketDay(t) 
                       /\ Cache!DeliveryDates(t) = Cache!MarketDay(Cache!LocalStart(t)) .. n
  BY <1>1 DEF Cache!DeliveryDates
<1> QED  BY <1>1, <1>2 DEF Cache!Min

\* What was cached for a date that is pruned no longer reaches into the local day.
LEMMA PrunedAreOver ==
    ASSUME NEW d \in Cache!Dates, slot \in Nat, shift \in -1 .. 1,
           d < Cache!Min(Cache!DeliveryDates(slot))
    PROVE  Cache!Over(d)
<1>1. d < Cache!LocalStart(slot) \div Cache!SlotsPerDay
  BY FirstDeliveryDate DEF Cache!MarketDay
<1>2. Cache!LocalStart(slot) \in Int /\ d \in Int
  BY DEF Cache!LocalStart, Cache!SlotsPerDay, Cache!Dates
<1> DEFINE x == Cache!LocalStart(slot)
<1> HIDE DEF x
<1>3. \A y \in Int, e \in Int : e < y \div 4 => 4 * (e + 1) <= y
  OBVIOUS
<1> QED  BY <1>1, <1>2, <1>3 DEF Cache!Over, Cache!SlotsPerDay, x

-----------------------------------------------------------------------------
\* An answer is a set of intervals.
LEMMA ResponseType ==
    ASSUME NEW d \in Cache!Dates, NEW response \in Cache!Responses(d)
    PROVE  response \in SUBSET Intervals
BY DEF Cache!Responses, Cache!Regular, Cache!Wide, Cache!Foreign, Cache!Interval, Intervals,
       Cache!Dates

\* A step of a tick leaves the ticks well formed.
LEMMA ProceedShape ==
    ASSUME Shape, NEW i \in Cache!Ticks, NEW c, NEW t \in Nat, NEW d, NEW shown,
           Cache!Proceed(i, c, t, d, shown)
    PROVE  TicksShape(tick')
BY DEF Cache!Proceed, Shape, TicksShape, Cache!NoTick, Cache!Idle

LEMMA ShapeInit == ASSUME Cache!ForecastAssumption, Cache!Init PROVE Shape
BY DEF Cache!ForecastAssumption, Cache!Init, Shape, Cache!SlotsPerDay, TicksShape, Cache!NoTick,
       Cache!Idle

LEMMA ShapeStep == ASSUME Shape, [Cache!Next]_Cache!vars PROVE Shape'
<1>1. CASE Cache!TimePass
  BY <1>1 DEF Cache!TimePass, Shape, TicksShape
<1>2. CASE Cache!Publish
  BY <1>2 DEF Cache!Publish, Shape, TicksShape
<1>3. CASE Cache!Restart
  BY <1>3 DEF Cache!Restart, Shape, TicksShape, Cache!NoTick, Cache!Idle
<1>4. ASSUME NEW i \in Cache!Ticks, Cache!StartTick(i) PROVE Shape'
  <2>1. cache' \in [Cache!Dates -> SUBSET Intervals] /\ UNCHANGED <<slot, shift, restarts>>
    BY <1>4 DEF Cache!StartTick, Cache!Pruned, Shape
  <2>2. slot \in Nat /\ Cache!Proceed(i, cache', slot, -1, intervals)
    BY <1>4 DEF Cache!StartTick, Shape
  <2> QED  BY <2>1, <2>2, ProceedShape DEF Shape
<1>5. ASSUME NEW i \in Cache!Ticks, Cache!Refused(i) PROVE Shape'
  <2>1. tick[i].at \in Nat /\ Cache!Proceed(i, cache, tick[i].at, tick[i].target, intervals)
    BY <1>5 DEF Cache!Refused, Shape, TicksShape
  <2> QED  BY <1>5, <2>1, ProceedShape DEF Cache!Refused, Shape
<1>6. ASSUME NEW i \in Cache!Ticks, NEW d \in Cache!Dates, Cache!Delivered(i, d) PROVE Shape'
  <2>1. cache' \in [Cache!Dates -> SUBSET Intervals] /\ UNCHANGED <<slot, shift, restarts>>
    BY <1>6, ResponseType DEF Cache!Delivered, Shape
  <2>2. /\ tick[i].at \in Nat
        /\ \/ Cache!Proceed(i, cache', tick[i].at, d, Cache!Rebuilt(cache'))
           \/ Cache!Proceed(i, cache, tick[i].at, d, intervals)
    BY <1>6 DEF Cache!Delivered, Shape, TicksShape
  <2> QED  BY <2>1, <2>2, ProceedShape DEF Shape
<1>7. CASE UNCHANGED Cache!vars
  BY <1>7 DEF Cache!vars, Shape, TicksShape
<1> QED  BY <1>1, <1>2, <1>3, <1>4, <1>5, <1>6, <1>7 DEF Cache!Next

LEMMA ShapeAlways == Cache!ForecastAssumption => (Cache!Spec => []Shape)
<1>1. Cache!ForecastAssumption /\ Cache!Init => Shape
  BY ShapeInit
<1>2. Shape /\ [Cache!Next]_Cache!vars => Shape'
  BY ShapeStep
<1> QED  BY <1>1, <1>2, PTL DEF Cache!Spec

-----------------------------------------------------------------------------
LEMMA PublishableInit == ASSUME Cache!Init PROVE Cache!CachePublishable
BY DEF Cache!Init, Cache!CachePublishable, Cache!Valid, Cache!Cached

LEMMA PublishableStep ==
    ASSUME Shape, Cache!CachePublishable, [Cache!Next]_Cache!vars PROVE Cache!CachePublishable'
<1>1. CASE Cache!TimePass
  BY <1>1 DEF Cache!TimePass, Cache!CachePublishable, Cache!Cached, Cache!Valid
<1>2. CASE Cache!Publish
  BY <1>2 DEF Cache!Publish, Cache!CachePublishable, Cache!Cached, Cache!Valid
<1>3. CASE Cache!Restart
  BY <1>3 DEF Cache!Restart, Cache!CachePublishable, Cache!Cached, Cache!Valid
<1>4. ASSUME NEW i \in Cache!Ticks, Cache!StartTick(i) PROVE Cache!CachePublishable'
  <2>1. Cache!Cached(cache') \in SUBSET Cache!Cached(cache)
    BY <1>4 DEF Cache!StartTick, Cache!Pruned, Cache!Cached, Shape
  <2> QED  BY <2>1, ValidPart DEF Cache!CachePublishable
<1>5. ASSUME NEW i \in Cache!Ticks, Cache!Refused(i) PROVE Cache!CachePublishable'
  BY <1>5 DEF Cache!Refused, Cache!CachePublishable, Cache!Cached, Cache!Valid
<1>6. ASSUME NEW i \in Cache!Ticks, NEW d \in Cache!Dates, Cache!Delivered(i, d)
      PROVE  Cache!CachePublishable'
  <2>1. PICK response \in Cache!Responses(d) :
           \/ /\ Cache!Acceptable(cache, d, response)
              /\ cache' = [cache EXCEPT ![d] = response]
           \/ cache' = cache
    BY <1>6 DEF Cache!Delivered
  <2>2. CASE cache' = cache
    BY <2>2 DEF Cache!CachePublishable
  <2>3. CASE Cache!Acceptable(cache, d, response) /\ cache' = [cache EXCEPT ![d] = response]
    <3>1. Cache!Cached(cache') = response \union UNION {cache[e] : e \in Cache!Dates \ {d}}
      BY <2>3, StoredSeries DEF Shape
    <3> QED  BY <2>3, <3>1 DEF Cache!Acceptable, Cache!CachePublishable
  <2> QED  BY <2>1, <2>2, <2>3
<1>7. CASE UNCHANGED Cache!vars
  BY <1>7 DEF Cache!vars, Cache!CachePublishable, Cache!Cached, Cache!Valid
<1> QED  BY <1>1, <1>2, <1>3, <1>4, <1>5, <1>6, <1>7 DEF Cache!Next

LEMMA PublishableAlways == Cache!ForecastAssumption => (Cache!Spec => []Cache!CachePublishable)
<1>1. Cache!Init => Cache!CachePublishable
  BY PublishableInit
<1>2. Shape /\ Cache!CachePublishable /\ [Cache!Next]_Cache!vars => Cache!CachePublishable'
  BY PublishableStep
<1> QED  BY <1>1, <1>2, ShapeAlways, PTL DEF Cache!Spec

\* The cache's notions are those of the promises.
LEMMA SameSeries ==
    ASSUME NEW c
    PROVE  /\ Cache!Dates = Dates /\ Cache!Ticks = Ticks /\ Cache!Idle = Idle
           /\ Cache!Cached(c) = Cached(c)
           /\ Cache!Valid(c) <=> Valid(c)
BY DEF Cache!Dates, Dates, Cache!Ticks, Ticks, Cache!Idle, Idle, Cache!Cached, Cached,
       Cache!Valid, Valid

(* However the ticks interleave and whatever is answered, the cached dates   *)
(* never conflict, so that no rebuild leaves the sensors without a series.   *)
THEOREM CacheStaysPublishable == Cache!ForecastAssumption => (Cache!Spec => []CachePublishable)
<1>1. Cache!CachePublishable => CachePublishable
  BY SameSeries DEF Cache!CachePublishable, CachePublishable
<1> QED  BY <1>1, PublishableAlways, PTL

-----------------------------------------------------------------------------
\* The series that a tick publishes is what is cached.
LEMMA RebuiltSeries ==
    ASSUME NEW c, Cache!Valid(Cache!Cached(c))
    PROVE  Cache!Rebuilt(c) = Cache!Cached(c)
BY DEF Cache!Rebuilt

(* A tick that goes on leaves the series alone and is in flight; one that    *)
(* ends publishes what is cached.                                            *)
LEMMA ProceedPublishes ==
    ASSUME Shape, NEW i \in Cache!Ticks, NEW c, NEW t \in Nat, NEW d, NEW shown,
           Cache!Valid(Cache!Cached(c)), Cache!Cached(c) \subseteq shown,
           Cache!Proceed(i, c, t, d, shown)
    PROVE  /\ Cache!Cached(c) \subseteq intervals'
           /\ (\A j \in Cache!Ticks : tick'[j].at = Cache!Idle) => intervals' = Cache!Cached(c)
<1>1. CASE Cache!Missing(c, t, d) = {}
  BY <1>1, RebuiltSeries DEF Cache!Proceed
<1>2. CASE Cache!Missing(c, t, d) # {}
  <2>1. tick'[i].at = t /\ intervals' = shown
    BY <1>2 DEF Cache!Proceed, Shape, TicksShape
  <2> QED  BY <2>1 DEF Cache!Idle
<1> QED  BY <1>1, <1>2

LEMMA PublishedInit == ASSUME Cache!Init PROVE Cache!PublishedIsCached
BY DEF Cache!Init, Cache!PublishedIsCached, Cache!Cached

LEMMA PublishedStep ==
    ASSUME Shape, Cache!CachePublishable, Cache!PublishedIsCached, [Cache!Next]_Cache!vars
    PROVE  Cache!PublishedIsCached'
<1> USE DEF Cache!CachePublishable
<1>0. ASSUME UNCHANGED <<cache, intervals, tick>> PROVE Cache!PublishedIsCached'
  BY <1>0 DEF Cache!PublishedIsCached, Cache!Cached
<1>1. CASE Cache!TimePass
  BY <1>0, <1>1 DEF Cache!TimePass
<1>2. CASE Cache!Publish
  BY <1>0, <1>2 DEF Cache!Publish
<1>3. CASE Cache!Restart
  BY <1>3 DEF Cache!Restart, Cache!PublishedIsCached, Cache!Cached
<1>4. ASSUME NEW i \in Cache!Ticks, Cache!StartTick(i) PROVE Cache!PublishedIsCached'
  <2>1. Cache!Cached(cache') \in SUBSET Cache!Cached(cache)
    BY <1>4 DEF Cache!StartTick, Cache!Pruned, Cache!Cached, Shape
  <2>2. Cache!Valid(Cache!Cached(cache')) /\ Cache!Cached(cache') \subseteq intervals
    BY <2>1, ValidPart DEF Cache!PublishedIsCached
  <2>3. slot \in Nat /\ Cache!Proceed(i, cache', slot, -1, intervals)
    BY <1>4 DEF Cache!StartTick, Shape
  <2> QED  BY <2>2, <2>3, ProceedPublishes DEF Cache!PublishedIsCached
<1>5. ASSUME NEW i \in Cache!Ticks, Cache!Refused(i) PROVE Cache!PublishedIsCached'
  <2>1. /\ tick[i].at \in Nat /\ cache' = cache
        /\ Cache!Proceed(i, cache, tick[i].at, tick[i].target, intervals)
    BY <1>5 DEF Cache!Refused, Shape, TicksShape
  <2> QED  BY <2>1, ProceedPublishes DEF Cache!PublishedIsCached
<1>6. ASSUME NEW i \in Cache!Ticks, NEW d \in Cache!Dates, Cache!Delivered(i, d)
      PROVE  Cache!PublishedIsCached'
  <2>1. Cache!Valid(Cache!Cached(cache'))
    BY <1>6, PublishableStep DEF Cache!Next
  <2>2. /\ tick[i].at \in Nat
        /\ \/ Cache!Proceed(i, cache', tick[i].at, d, Cache!Rebuilt(cache'))
           \/ cache' = cache /\ Cache!Proceed(i, cache', tick[i].at, d, intervals)
    BY <1>6 DEF Cache!Delivered, Shape, TicksShape
  <2>3. CASE Cache!Proceed(i, cache', tick[i].at, d, Cache!Rebuilt(cache'))
    BY <2>1, <2>2, <2>3, RebuiltSeries, ProceedPublishes DEF Cache!PublishedIsCached
  <2>4. CASE cache' = cache /\ Cache!Proceed(i, cache', tick[i].at, d, intervals)
    BY <2>1, <2>2, <2>4, ProceedPublishes DEF Cache!PublishedIsCached
  <2> QED  BY <2>2, <2>3, <2>4
<1>7. CASE UNCHANGED Cache!vars
  BY <1>0, <1>7 DEF Cache!vars
<1> QED  BY <1>1, <1>2, <1>3, <1>4, <1>5, <1>6, <1>7 DEF Cache!Next

(* The sensors show everything that is cached, whichever ticks are in flight *)
(* and however they overlap, and nothing else once none is.                  *)
THEOREM SeriesFollowsCache == Cache!ForecastAssumption => (Cache!Spec => []PublishedIsCached)
<1>1. Cache!Init => Cache!PublishedIsCached
  BY PublishedInit
<1>2. Shape /\ Cache!CachePublishable /\ Cache!PublishedIsCached /\ [Cache!Next]_Cache!vars
         => Cache!PublishedIsCached'
  BY PublishedStep
<1>3. Cache!PublishedIsCached => PublishedIsCached
  BY SameSeries DEF Cache!PublishedIsCached, PublishedIsCached
<1> QED  BY <1>1, <1>2, <1>3, ShapeAlways, PublishableAlways, PTL DEF Cache!Spec

-----------------------------------------------------------------------------
LEMMA KeptStep ==
    ASSUME Shape, [Cache!Next]_Cache!vars, NEW d \in Cache!Dates, cache[d] # {}, cache'[d] = {}
    PROVE  Cache!Over(d) \/ restarts' # restarts
<1>1. CASE Cache!TimePass
  BY <1>1 DEF Cache!TimePass
<1>2. CASE Cache!Publish
  BY <1>2 DEF Cache!Publish
<1>3. CASE Cache!Restart
  BY <1>3 DEF Cache!Restart, Shape
<1>4. ASSUME NEW i \in Cache!Ticks, Cache!StartTick(i) PROVE Cache!Over(d)
  <2>1. d < Cache!Min(Cache!DeliveryDates(slot))
    BY <1>4 DEF Cache!StartTick, Cache!Pruned
  <2> QED  BY <2>1, PrunedAreOver DEF Shape
<1>5. ASSUME NEW i \in Cache!Ticks, Cache!Refused(i) PROVE FALSE
  BY <1>5 DEF Cache!Refused
<1>6. ASSUME NEW i \in Cache!Ticks, NEW e \in Cache!Dates, Cache!Delivered(i, e) PROVE FALSE
  <2>1. ASSUME NEW response \in Cache!Responses(e) PROVE response # {}
    BY <2>1 DEF Cache!Responses, Cache!Regular, Cache!Wide, Cache!Foreign
  <2> QED  BY <1>6, <2>1 DEF Cache!Delivered, Shape
<1>7. CASE UNCHANGED Cache!vars
  BY <1>7 DEF Cache!vars
<1> QED  BY <1>1, <1>2, <1>3, <1>4, <1>5, <1>6, <1>7 DEF Cache!Next

(* While the integration runs, a cached date is dropped only when it no      *)
(* longer reaches into the local day, in any timezone within an hour of the  *)
(* market's.                                                                 *)
THEOREM CacheIsKept == Cache!ForecastAssumption => (Cache!Spec => KeptWhileNeeded)
<1>1. Shape /\ [Cache!Next]_Cache!vars
      => [\A d \in Dates : cache[d] # {} /\ cache'[d] = {} => Over(d) \/ restarts' # restarts]_cache
  <2>1. \A d : Cache!Over(d) <=> Over(d)
    BY DEF Cache!Over, Over, Cache!LocalStart, LocalStart, Cache!SlotsPerDay, SlotsPerDay
  <2> QED  BY <2>1, KeptStep, SameSeries
<1> QED  BY <1>1, ShapeAlways, PTL DEF Cache!Spec, KeptWhileNeeded
=============================================================================

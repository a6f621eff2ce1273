---------------------------- MODULE CostLedgerProofs ----------------------------
(***************************************************************************)
(* What CostLedger guarantees, for every calendar, bound and set of         *)
(* scenarios: its totals are the sums over their units, a day is charged no *)
(* more than its meter shows, no energy is priced twice, and what is        *)
(* excluded stays unpriced.                                                 *)
(*                                                                         *)
(* The update is a function of ledger, time, reading and quote, so most of  *)
(* this module is about functions: what each helper does to a sound ledger, *)
(* up to the few outcomes an update has.  The inductive invariant, IInv, is *)
(* about those outcomes only.                                               *)
(***************************************************************************)
EXTENDS CostLedger, FiniteSetTheorems, SequenceTheorems, WellFoundedInduction, TLAPS

-----------------------------------------------------------------------------
(* Sums.                                                                     *)

\* The member that MapThenSumSet takes first.
Pick(s) == CHOOSE x \in s : TRUE

\* g sums e over the subsets of S, a member at a time.
Summing(g, e, S) ==
    g = [s \in SUBSET S |-> IF s = {} THEN 0 ELSE e[Pick(s)] + g[s \ {Pick(s)}]]

\* SumOf evaluates the one function that sums e over the subsets of S.
LEMMA SumIsIterated ==
  ASSUME NEW S, NEW e
  PROVE  SumOf(S, e) = (CHOOSE g : Summing(g, e, S))[S]
BY DEF SumOf, MapThenSumSet, MapThenFoldSet, Pick, Summing

\* What is taken is a member.
LEMMA PickIn ==
  ASSUME NEW s, s # {}
  PROVE  Pick(s) \in s
BY Zenon DEF Pick

\* A set of subsets of a finite set has a member none of whose proper subsets is in it.
LEMMA SmallestSubset ==
  ASSUME NEW S, IsFiniteSet(S), NEW T, T \subseteq SUBSET S, T # {}
  PROVE  \E s \in T : \A r \in SUBSET s : r \in T => r = s
<1>1. IsWellFoundedOn(StrictSubsetOrdering(S), SUBSET S)
  BY FS_StrictSubsetOrderingWellFounded, FS_FiniteSubsetsOfFinite
<1>2. PICK s \in T : \A r \in T : <<r, s>> \notin StrictSubsetOrdering(S)
  BY <1>1, WFMin, Zenon
<1>3. ASSUME NEW r \in SUBSET s, r \in T PROVE r = s
  <2>1. <<r, s>> \in (SUBSET S) \X (SUBSET S)
    BY <1>3
  <2>2. ~(r \subseteq s /\ r # s)
    BY <1>2, <1>3, <2>1 DEF StrictSubsetOrdering
  <2> QED
    BY <1>3, <2>2
<1> QED
  BY <1>2, <1>3

\* Two functions that sum e agree on the sets that both are about.
LEMMA SumsAgree ==
  ASSUME NEW S, IsFiniteSet(S), NEW e, NEW A \in SUBSET S, NEW B \in SUBSET S, NEW f, NEW g,
         Summing(f, e, A), Summing(g, e, B),
         NEW s \in SUBSET (A \intersect B)
  PROVE  f[s] = g[s]
<1> DEFINE T == {r \in SUBSET (A \intersect B) : f[r] # g[r]}
<1> SUFFICES ASSUME T # {} PROVE FALSE
  OBVIOUS
<1>1. PICK r \in T : \A q \in SUBSET r : q \in T => q = r
  <2>1. T \subseteq SUBSET S
    OBVIOUS
  <2> HIDE DEF T
  <2> QED
    BY <2>1, SmallestSubset
<1>2. /\ f[r] = IF r = {} THEN 0 ELSE e[Pick(r)] + f[r \ {Pick(r)}]
      /\ g[r] = IF r = {} THEN 0 ELSE e[Pick(r)] + g[r \ {Pick(r)}]
  BY DEF Summing
<1>3. r # {}
  BY <1>2
<1>4. f[r \ {Pick(r)}] = g[r \ {Pick(r)}]
  BY <1>1, <1>3, PickIn
<1> QED
  BY <1>2, <1>3, <1>4

\* For every finite set there is a function that sums e over its subsets.
LEMMA SumsExist ==
  ASSUME NEW S, IsFiniteSet(S), NEW e
  PROVE  \E g : Summing(g, e, S)
<1> DEFINE T == {s \in SUBSET S : ~ \E g : Summing(g, e, s)}
<1> SUFFICES ASSUME T # {} PROVE FALSE
  OBVIOUS
<1>1. PICK s \in T : \A r \in SUBSET s : r \in T => r = s
  <2>1. T \subseteq SUBSET S
    OBVIOUS
  <2> HIDE DEF T
  <2> QED
    BY <2>1, SmallestSubset
<1> DEFINE G(r) == CHOOSE g : Summing(g, e, r)
           F    == [r \in SUBSET s |-> IF r = {} THEN 0
                                       ELSE e[Pick(r)] + G(r \ {Pick(r)})[r \ {Pick(r)}]]
<1>2. ASSUME NEW r \in SUBSET s, r # s PROVE Summing(G(r), e, r)
  <2>1. \E g : Summing(g, e, r)
    BY <1>1, <1>2
  <2> QED
    BY <2>1, Zenon
<1>3. ASSUME NEW r \in SUBSET s, r # {} 
      PROVE  G(r \ {Pick(r)})[r \ {Pick(r)}] = F[r \ {Pick(r)}]
  <2> DEFINE q == r \ {Pick(r)}
             p == q \ {Pick(q)}
  <2>1. q \in SUBSET s /\ q # s
    BY <1>3, PickIn
  <2>2. Summing(G(q), e, q)
    BY <1>2, <2>1
  <2>3. G(q)[q] = IF q = {} THEN 0 ELSE e[Pick(q)] + G(q)[p]
    <3> HIDE DEF q, G
    <3> QED
      BY <2>2 DEF Summing
  <2>4. F[q] = IF q = {} THEN 0 ELSE e[Pick(q)] + G(p)[p]
    BY <2>1
  <2>5. q # {} => p \in SUBSET s /\ p # s /\ p \subseteq q
    BY <2>1, PickIn
  <2>6. q # {} => Summing(G(p), e, p)
    BY <1>2, <2>5
  <2>7. q # {} => G(q)[p] = G(p)[p]
    <3> SUFFICES ASSUME q # {} PROVE G(q)[p] = G(p)[p]
      OBVIOUS
    <3>1. /\ q \in SUBSET S /\ p \in SUBSET S /\ p \in SUBSET (q \intersect p)
          /\ Summing(G(q), e, q) /\ Summing(G(p), e, p)
      BY <2>1, <2>2, <2>5, <2>6
    <3> HIDE DEF q, p
    <3>2. ASSUME NEW f, NEW h, Summing(f, e, q), Summing(h, e, p) PROVE f[p] = h[p]
      <4> HIDE DEF G, F, T
      <4> QED
        BY <3>1, <3>2, SumsAgree
    <3> HIDE DEF G
    <3> QED
      BY <3>1, <3>2, Zenon
  <2> HIDE DEF p, F, G
  <2>8. G(q)[q] = F[q]
    BY <2>3, <2>4, <2>7
  <2> QED
    BY <2>8
<1>4. F = [r \in SUBSET s |-> IF r = {} THEN 0 ELSE e[Pick(r)] + F[r \ {Pick(r)}]]
  <2> HIDE DEF G
  <2> QED
    BY <1>3
<1>5. Summing(F, e, s)
  <2> HIDE DEF F
  <2> QED BY <1>4 DEF Summing
<1> QED
  BY <1>1, <1>5

\* SumOf takes the members of a set one after the other.
LEMMA SumOfSums ==
  ASSUME NEW S, IsFiniteSet(S), NEW e, NEW R \in SUBSET S
  PROVE  /\ SumOf(R, e) = IF R = {} THEN 0 ELSE e[Pick(R)] + SumOf(R \ {Pick(R)}, e)
<1> DEFINE G(r) == CHOOSE g : Summing(g, e, r)
           Q == R \ {Pick(R)}
<1>1. \A r \in SUBSET S : Summing(G(r), e, r)
  <2> TAKE r \in SUBSET S
  <2>1. \E g : Summing(g, e, r)
    BY SumsExist, FS_Subset
  <2> QED
    BY <2>1, Zenon
<1>2. G(R)[R] = IF R = {} THEN 0 ELSE e[Pick(R)] + G(R)[Q]
  <2> Summing(G(R), e, R) BY <1>1
  <2> HIDE DEF G
  <2> QED BY DEF Summing
<1>3. G(R)[Q] = G(Q)[Q]
  <2>1. Summing(G(R), e, R) /\ Summing(G(Q), e, Q)
    BY <1>1
  <2>2. Q \in SUBSET S /\ Q \in SUBSET (R \intersect Q)
    OBVIOUS
  <2> HIDE DEF G, Q
  <2> QED
    BY <2>1, <2>2, SumsAgree
<1>4. SumOf(R, e) = G(R)[R] /\ SumOf(Q, e) = G(Q)[Q]
  <2> HIDE DEF Q
  <2> QED BY SumIsIterated, Zenon
<1> HIDE DEF G
<1> QED
  BY <1>2, <1>3, <1>4

\* Nothing sums to zero.
THEOREM SumEmpty ==
  ASSUME NEW e
  PROVE  SumOf({}, e) = 0
BY SumOfSums, FS_EmptySet

\* The sum of integers is an integer.
THEOREM SumInteger ==
  ASSUME NEW S, IsFiniteSet(S), NEW e, \A x \in S : e[x] \in Int
  PROVE  SumOf(S, e) \in Int
<1> DEFINE T == {s \in SUBSET S : SumOf(s, e) \notin Int}
<1> SUFFICES ASSUME T # {} PROVE FALSE
  OBVIOUS
<1>1. PICK s \in T : \A r \in SUBSET s : r \in T => r = s
  <2>1. T \subseteq SUBSET S
    OBVIOUS
  <2> HIDE DEF T
  <2> QED
    BY <2>1, SmallestSubset
<1>2. SumOf(s, e) = IF s = {} THEN 0 ELSE e[Pick(s)] + SumOf(s \ {Pick(s)}, e)
  BY SumOfSums
<1>3. s # {} => Pick(s) \in s /\ SumOf(s \ {Pick(s)}, e) \in Int
  BY <1>1, PickIn
<1> QED
  BY <1>2, <1>3

\* Any member can be taken out first.
THEOREM SumRemove ==
  ASSUME NEW S, IsFiniteSet(S), NEW e, \A x \in S : e[x] \in Int, NEW x \in S
  PROVE  SumOf(S, e) = e[x] + SumOf(S \ {x}, e)
<1> DEFINE T == {s \in SUBSET S : \E y \in s : SumOf(s, e) # e[y] + SumOf(s \ {y}, e)}
<1> SUFFICES ASSUME T # {} PROVE FALSE
  OBVIOUS
<1>1. PICK s \in T : \A r \in SUBSET s : r \in T => r = s
  <2>1. T \subseteq SUBSET S
    OBVIOUS
  <2> HIDE DEF T
  <2> QED
    BY <2>1, SmallestSubset
<1>2. PICK y \in s : SumOf(s, e) # e[y] + SumOf(s \ {y}, e)
  OBVIOUS
<1> DEFINE p == Pick(s)
<1>3. SumOf(s, e) = e[p] + SumOf(s \ {p}, e)
  BY SumOfSums
<1>4. p \in s /\ p # y
  BY <1>2, <1>3, PickIn
<1>5. ASSUME NEW r \in SUBSET s, r # s, NEW z \in r
      PROVE  SumOf(r, e) = e[z] + SumOf(r \ {z}, e)
  BY <1>1, <1>5
<1>6. SumOf(s \ {p}, e) = e[y] + SumOf((s \ {p}) \ {y}, e)
  <2>1. s \ {p} \in SUBSET s /\ s \ {p} # s /\ y \in s \ {p}
    BY <1>4
  <2> HIDE DEF p, T
  <2> QED
    BY <1>5, <2>1, Zenon
<1>7. SumOf(s \ {y}, e) = e[p] + SumOf((s \ {p}) \ {y}, e)
  <2>1. s \ {y} \in SUBSET s /\ s \ {y} # s /\ p \in s \ {y}
    BY <1>4
  <2>2. (s \ {y}) \ {p} = (s \ {p}) \ {y}
    OBVIOUS
  <2> HIDE DEF p, T
  <2> QED
    BY <1>5, <2>1, <2>2, Zenon
<1>8. e[p] \in Int /\ e[y] \in Int /\ SumOf((s \ {p}) \ {y}, e) \in Int
  <2>1. IsFiniteSet((s \ {p}) \ {y})
    BY FS_Subset
  <2> QED
    BY <1>4, <2>1, SumInteger
<1> HIDE DEF p, T
<1> QED
  BY <1>2, <1>3, <1>6, <1>7, <1>8

(* When f is e on S but for the members of P, whose values grow by n times  *)
(* those of w, its sum grows by n times the sum of w over P.                 *)
THEOREM SumChanges ==
  ASSUME NEW S, IsFiniteSet(S), NEW P \in SUBSET S, NEW n \in Int, NEW e, NEW f, NEW w,
         \A x \in S : e[x] \in Int, \A x \in P : w[x] \in Int,
         \A x \in S : f[x] = IF x \in P THEN e[x] + n * w[x] ELSE e[x]
  PROVE  SumOf(S, f) = SumOf(S, e) + n * SumOf(P, w)
<1> DEFINE T == {s \in SUBSET S : SumOf(s, f) # SumOf(s, e) + n * SumOf(P \intersect s, w)}
<1> SUFFICES ASSUME T # {} PROVE FALSE
  <2>1. S \notin T
    OBVIOUS
  <2>2. P \intersect S = P
    OBVIOUS
  <2> QED
    BY <2>1, <2>2
<1>1. PICK s \in T : \A r \in SUBSET s : r \in T => r = s
  <2>1. T \subseteq SUBSET S
    OBVIOUS
  <2> HIDE DEF T
  <2> QED
    BY <2>1, SmallestSubset
<1>2. CASE s = {}
  BY <1>1, <1>2, SumEmpty
<1>3. CASE s # {}
  <2>1. PICK x \in s : TRUE
    BY <1>3
  <2>2. IsFiniteSet(s) /\ IsFiniteSet(s \ {x}) /\ IsFiniteSet(P \intersect s) 
        /\ IsFiniteSet(P \intersect (s \ {x}))
    BY FS_Subset
  <2>3. \A y \in S : f[y] \in Int
    OBVIOUS
  <2>4. /\ SumOf(s, e) = e[x] + SumOf(s \ {x}, e)
        /\ SumOf(s, f) = f[x] + SumOf(s \ {x}, f)
    BY <2>2, <2>3, SumRemove
  <2>5. SumOf(s \ {x}, f) = SumOf(s \ {x}, e) + n * SumOf(P \intersect (s \ {x}), w)
    BY <1>1
  <2>6. /\ SumOf(s \ {x}, e) \in Int
        /\ SumOf(P \intersect (s \ {x}), w) \in Int
    BY <2>2, SumInteger
  <2>7. CASE x \in P
    <3>1. (P \intersect s) \ {x} = P \intersect (s \ {x})
      OBVIOUS
    <3>2. SumOf(P \intersect s, w) = w[x] + SumOf(P \intersect (s \ {x}), w)
      BY <2>2, <2>7, <3>1, SumRemove
    <3>3. f[x] = e[x] + n * w[x] /\ e[x] \in Int /\ w[x] \in Int
      BY <2>7
    <3>4. n * SumOf(P \intersect s, w) = n * w[x] + n * SumOf(P \intersect (s \ {x}), w)
      <4> \A a, b \in Int : n * (a + b) = n * a + n * b
        OBVIOUS
      <4> QED
        BY <2>6, <3>2, <3>3
    <3>5. n * w[x] \in Int /\ n * SumOf(P \intersect (s \ {x}), w) \in Int
      BY <2>6, <3>3
    <3>6. SumOf(s, f) # SumOf(s, e) + n * SumOf(P \intersect s, w)
      OBVIOUS
    <3> HIDE DEF T
    <3> QED
      BY <2>4, <2>5, <2>6, <3>3, <3>4, <3>5, <3>6
  <2>8. CASE x \notin P
    <3>1. P \intersect s = P \intersect (s \ {x})
      BY <2>8
    <3>2. f[x] = e[x] /\ e[x] \in Int /\ n * SumOf(P \intersect (s \ {x}), w) \in Int
      BY <2>6, <2>8
    <3>6. SumOf(s, f) # SumOf(s, e) + n * SumOf(P \intersect (s \ {x}), w)
      BY <3>1, Zenon
    <3> HIDE DEF T
    <3> QED
      BY <2>4, <2>5, <2>6, <3>1, <3>2, <3>6
  <2> QED
    BY <2>7, <2>8
<1> QED
  BY <1>2, <1>3

\* The same when each member of P grows by n.
THEOREM SumGrows ==
  ASSUME NEW S, IsFiniteSet(S), NEW P \in SUBSET S, NEW n \in Int, NEW e, NEW f,
         \A x \in S : e[x] \in Int,
         \A x \in S : f[x] = IF x \in P THEN e[x] + n ELSE e[x]
  PROVE  SumOf(S, f) = SumOf(S, e) + n * Cardinality(P)
<1> DEFINE T == {s \in SUBSET S : SumOf(s, f) # SumOf(s, e) + n * Cardinality(P \intersect s)}
<1> SUFFICES ASSUME T # {} PROVE FALSE
  <2>1. S \notin T
    OBVIOUS
  <2>2. P \intersect S = P
    OBVIOUS
  <2> QED
    BY <2>1, <2>2
<1>1. PICK s \in T : \A r \in SUBSET s : r \in T => r = s
  <2>1. T \subseteq SUBSET S
    OBVIOUS
  <2> HIDE DEF T
  <2> QED
    BY <2>1, SmallestSubset
<1>2. CASE s = {}
  BY <1>1, <1>2, SumEmpty, FS_EmptySet
<1>3. CASE s # {}
  <2>1. PICK x \in s : TRUE
    BY <1>3
  <2>2. /\ IsFiniteSet(s) /\ IsFiniteSet(s \ {x})
        /\ IsFiniteSet(P \intersect s) /\ IsFiniteSet(P \intersect (s \ {x}))
    BY FS_Subset
  <2>3. \A y \in S : f[y] \in Int
    OBVIOUS
  <2>4. /\ SumOf(s, e) = e[x] + SumOf(s \ {x}, e)
        /\ SumOf(s, f) = f[x] + SumOf(s \ {x}, f)
    BY <2>2, <2>3, SumRemove
  <2>5. SumOf(s \ {x}, f) = SumOf(s \ {x}, e) + n * Cardinality(P \intersect (s \ {x}))
    BY <1>1
  <2>6. /\ SumOf(s \ {x}, e) \in Int
        /\ Cardinality(P \intersect (s \ {x})) \in Nat
    BY <2>2, SumInteger, FS_CardinalityType
  <2>7. CASE x \in P
    <3>1. (P \intersect s) \ {x} = P \intersect (s \ {x})
      OBVIOUS
    <3>2. Cardinality(P \intersect s) = Cardinality(P \intersect (s \ {x})) + 1
      <4>1. Cardinality((P \intersect s) \ {x}) = Cardinality(P \intersect s) - 1
        BY <2>2, <2>7, FS_RemoveElement
      <4>2. Cardinality(P \intersect s) \in Nat
        BY <2>2, FS_CardinalityType
      <4>3. Cardinality(P \intersect (s \ {x})) = Cardinality(P \intersect s) - 1
        BY <3>1, <4>1, Zenon
      <4> QED
        BY <4>2, <4>3
    <3>3. f[x] = e[x] + n /\ e[x] \in Int
      BY <2>7
    <3>4. n * Cardinality(P \intersect s) = n + n * Cardinality(P \intersect (s \ {x}))
      <4> \A a \in Int : n * (a + 1) = n + n * a
        OBVIOUS
      <4> QED
        BY <2>6, <3>2
    <3>5. n * Cardinality(P \intersect (s \ {x})) \in Int
      BY <2>6
    <3>6. SumOf(s, f) # SumOf(s, e) + n * Cardinality(P \intersect s)
      OBVIOUS
    <3> HIDE DEF T
    <3> QED
      BY <2>4, <2>5, <2>6, <3>3, <3>4, <3>5, <3>6
  <2>8. CASE x \notin P
    <3>1. P \intersect s = P \intersect (s \ {x})
      BY <2>8
    <3>2. f[x] = e[x] /\ e[x] \in Int /\ n * Cardinality(P \intersect (s \ {x})) \in Int
      BY <2>6, <2>8
    <3>6. SumOf(s, f) # SumOf(s, e) + n * Cardinality(P \intersect (s \ {x}))
      BY <3>1, Zenon
    <3> HIDE DEF T
    <3> QED
      BY <2>4, <2>5, <2>6, <3>1, <3>2, <3>6
  <2> QED
    BY <2>7, <2>8
<1> QED
  BY <1>2, <1>3

\* Zeros sum to zero.
THEOREM SumZero ==
  ASSUME NEW S, IsFiniteSet(S), NEW e, \A x \in S : e[x] = 0
  PROVE  SumOf(S, e) = 0
<1>1. SumOf(S, e) \in Int
  BY SumInteger
<1>2. \A x \in S : e[x] = IF x \in S THEN e[x] + (-1) * e[x] ELSE e[x]
  OBVIOUS
<1>3. SumOf(S, e) = SumOf(S, e) + (-1) * SumOf(S, e)
  BY <1>2, SumChanges
<1> QED
  BY <1>1, <1>3

\* Functions that agree on a set have one sum over it.
THEOREM SumSame ==
  ASSUME NEW S, IsFiniteSet(S), NEW e, NEW f, \A x \in S : e[x] \in Int /\ f[x] = e[x]
  PROVE  SumOf(S, f) = SumOf(S, e)
<1>1. SumOf(S, f) = SumOf(S, e) + 0 * Cardinality({})
  <2>1. {} \in SUBSET S /\ 0 \in Int /\ (\A x \in S : e[x] \in Int)
        /\ \A x \in S : f[x] = IF x \in {} THEN e[x] + 0 ELSE e[x]
    OBVIOUS
  <2> QED
    BY <2>1, SumGrows, Zenon
<1>2. SumOf(S, e) \in Int
  BY SumInteger
<1> QED
  BY <1>1, <1>2, FS_EmptySet

\* The sum of natural numbers is one.
THEOREM SumNatural ==
  ASSUME NEW S, IsFiniteSet(S), NEW e, \A x \in S : e[x] \in Nat
  PROVE  SumOf(S, e) \in Nat
<1> DEFINE T == {s \in SUBSET S : SumOf(s, e) \notin Nat}
<1> SUFFICES ASSUME T # {} PROVE FALSE
  OBVIOUS
<1>1. PICK s \in T : \A r \in SUBSET s : r \in T => r = s
  <2>1. T \subseteq SUBSET S
    OBVIOUS
  <2> HIDE DEF T
  <2> QED
    BY <2>1, SmallestSubset
<1>2. SumOf(s, e) = IF s = {} THEN 0 ELSE e[Pick(s)] + SumOf(s \ {Pick(s)}, e)
  BY SumOfSums
<1>3. s # {} => Pick(s) \in s /\ SumOf(s \ {Pick(s)}, e) \in Nat
  BY <1>1, PickIn
<1> QED
  BY <1>2, <1>3

-----------------------------------------------------------------------------
(* The calendar and the price segments of an open interval.                   *)

Segment  == [at : Times, price : SUBSET Int]
Segments == Seq(Segment)

(* Segments in the order of time, of an interval that began at from and has  *)
(* been priced up to to.                                                     *)
InOrder(s, from, to) ==
    /\ s # << >> /\ s[1].at = from
    /\ \A i, j \in 1 .. Len(s) : i <= j => s[i].at <= s[j].at
    /\ s[Len(s)].at <= to

(* The calendar: days and months only grow, and the midnight of a day is its  *)
(* first unit.                                                                *)
LEMMA Calendar ==
    ASSUME NEW t \in Times
    PROVE  /\ t \in Nat /\ DayOf(t) \in Days /\ DayOf(t) \in Nat /\ MonthOf[DayOf(t)] \in Nat
           /\ Midnight(t) \in Times /\ Midnight(t) <= t /\ DayOf(Midnight(t)) = DayOf(t)
           /\ \A u \in Times : /\ u <= t => DayOf(u) <= DayOf(t)
                               /\ u <= t => MonthOf[DayOf(u)] <= MonthOf[DayOf(t)]
                               /\ u <= t /\ Midnight(t) <= u => DayOf(u) = DayOf(t)
                               /\ DayOf(u) < DayOf(t) => u < Midnight(t)
<1>1. MaxTime \in Nat /\ DayLength \in Nat /\ DayLength > 0
  BY LedgerAssumption
<1>2. t \in Nat /\ t <= MaxTime
  BY <1>1 DEF Times
<1> DEFINE L == DayLength
<1>3. \A x \in Nat, k \in Nat : k > 0 =>
         x \div k \in Nat /\ k * (x \div k) <= x /\ x < k * (x \div k) + k
  BY Z3
<1>4. \A x, y, k \in Nat : k * x < k * y + k => x <= y
  BY Z3
<1>5. \A x, y \in Nat : x <= y => x \div L <= y \div L
  <2> SUFFICES ASSUME NEW x \in Nat, NEW y \in Nat, x <= y PROVE x \div L <= y \div L
    OBVIOUS
  <2>1. L * (x \div L) < L * (y \div L) + L /\ x \div L \in Nat /\ y \div L \in Nat
    BY <1>1, <1>3
  <2> QED
    BY <1>1, <1>4, <2>1
<1>6. DayOf(t) \in Nat /\ DayOf(t) <= DayOf(MaxTime) /\ DayOf(MaxTime) \in Nat
  BY <1>1, <1>2, <1>3, <1>5 DEF DayOf
<1>7. DayOf(t) \in Days
  BY <1>6 DEF Days
<1>8. MonthOf[DayOf(t)] \in Nat
  BY <1>7, LedgerAssumption
<1>9. Midnight(t) \in Nat /\ Midnight(t) <= t /\ t < Midnight(t) + L /\ Midnight(t) = L * DayOf(t)
  <2>1. \A x, k \in Nat : x * k = k * x /\ x * k \in Nat
    BY Z3
  <2> QED
    BY <1>1, <1>2, <1>3, <1>6, <2>1 DEF DayOf, Midnight
<1>10. Midnight(t) \in Times
  BY <1>1, <1>2, <1>9 DEF Times
<1>11. ASSUME NEW u \in Times, Midnight(t) <= u, u <= t PROVE DayOf(u) = DayOf(t)
  <2>1. u \in Nat
    BY <1>1 DEF Times
  <2>2. u \div L \in Nat /\ u < L * (u \div L) + L
    BY <1>1, <1>3, <2>1
  <2>3. t \div L <= u \div L
    <3>1. L * (t \div L) < L * (u \div L) + L /\ t \div L \in Nat
      BY <1>9, <1>6, <1>11, <2>1, <2>2, <1>1 DEF DayOf
    <3> QED
      BY <1>1, <1>4, <2>2, <3>1
  <2>4. u \div L <= t \div L
    BY <1>2, <1>5, <1>11, <2>1
  <2> QED
    BY <1>6, <2>2, <2>3, <2>4 DEF DayOf
<1>12. DayOf(Midnight(t)) = DayOf(t)
  BY <1>9, <1>10, <1>11
<1>13. ASSUME NEW u \in Times, u <= t
       PROVE  DayOf(u) <= DayOf(t) /\ MonthOf[DayOf(u)] <= MonthOf[DayOf(t)]
  <2>1. u \in Nat /\ u <= MaxTime
    BY <1>1 DEF Times
  <2>2. DayOf(u) <= DayOf(t)
    BY <1>2, <1>5, <1>13, <2>1 DEF DayOf
  <2>3. DayOf(u) \in Days
    BY <1>1, <1>3, <1>5, <2>1 DEF DayOf, Days
  <2> QED
    BY <1>7, <2>2, <2>3, LedgerAssumption
<1>14. ASSUME NEW u \in Times, DayOf(u) < DayOf(t) PROVE u < Midnight(t)
  <2>1. u \in Nat /\ DayOf(u) \in Nat
    BY <1>1, <1>3 DEF Times, DayOf
  <2>2. CASE u <= t
    BY <1>6, <1>9, <1>11, <1>14, <2>1, <2>2
  <2>3. CASE t < u
    BY <1>2, <1>5, <1>6, <1>14, <2>1, <2>3 DEF DayOf
  <2> QED
    BY <1>2, <2>1, <2>2, <2>3
<1> QED
  BY <1>2, <1>6, <1>7, <1>8, <1>9, <1>10, <1>11, <1>12, <1>13, <1>14

\* A bounded set of numbers has a greatest member.
LEMMA Greatest ==
    ASSUME NEW n \in Nat, NEW S, S \subseteq 1 .. n, S # {}
    PROVE  \E k \in S : \A j \in S : j <= k
<1> DEFINE T == {m \in Nat : \A j \in S : j <= m}
<1>1. T \subseteq Nat /\ n \in T
  OBVIOUS
<1> HIDE DEF T
<1>2. PICK m \in T : \A i \in T : <<i, m>> \notin OpToRel(<, Nat)
  BY <1>1, NatLessThanWellFounded, WFMin, Zenon
<1>3. \A i \in T : ~ (i < m)
  BY <1>1, <1>2 DEF OpToRel
<1>4. m \in S
  <2> SUFFICES ASSUME m \notin S PROVE FALSE
    OBVIOUS
  <2>1. m \in Nat /\ \A j \in S : j \in Int /\ j >= 1 /\ j <= m
    BY DEF T
  <2>2. m > 0 /\ \A j \in S : j <= m - 1
    <3>1. ASSUME NEW j \in S PROVE j <= m - 1 /\ m > 0
      <4> j # m
        OBVIOUS
      <4> QED  BY <2>1
    <3> QED  BY <3>1
  <2>3. m - 1 \in T
    BY <2>1, <2>2 DEF T
  <2> QED
    BY <1>3, <2>1, <2>3
<1> QED
  BY <1>4 DEF T

\* The parts of a sequence of price segments have their types.
LEMMA SegmentFacts ==
    ASSUME NEW s \in Segments
    PROVE  /\ Len(s) \in Nat /\ DOMAIN s = 1 .. Len(s) /\ (s # << >> => Len(s) > 0)
           /\ \A i \in 1 .. Len(s) : s[i] \in Segment /\ s[i].at \in Int /\ s[i].price \in SUBSET Int
<1>1. Len(s) \in Nat /\ DOMAIN s = 1 .. Len(s)
  BY LenProperties DEF Segments
<1>2. s # << >> => Len(s) > 0
  BY <1>1, EmptySeq DEF Segments
<1>3. ASSUME NEW i \in 1 .. Len(s) PROVE s[i] \in Segment
  BY <1>3, ElementOfSeq DEF Segments
<1>4. Times \subseteq Int
  BY LedgerAssumption DEF Times
<1> QED
  BY <1>1, <1>2, <1>3, <1>4 DEF Segment

\* The segment in force is the last that has begun.
LEMMA ForceIs ==
    ASSUME NEW s \in Segments, NEW u \in Int, NEW k \in 1 .. Len(s), s[k].at <= u,
           \A j \in 1 .. Len(s) : j > k => s[j].at > u
    PROVE  InForce(s, u) = k
<1> DEFINE S == {i \in DOMAIN s : s[i].at <= u}
<1>1. Len(s) \in Nat /\ DOMAIN s = 1 .. Len(s) /\ \A i \in 1 .. Len(s) : s[i].at \in Int
  BY SegmentFacts
<1>2. k \in S /\ S \subseteq Int /\ \A j \in S : k >= j
  BY <1>1
<1>3. \A j \in S : (\A y \in S : j >= y) => j = k
  BY <1>2
<1>4. Max(S) = CHOOSE x \in S : \A y \in S : x >= y
  BY DEF Max
<1> HIDE DEF S
<1>5. Max(S) \in S /\ \A y \in S : Max(S) >= y
  BY <1>2, <1>4, Zenon
<1>6. Max(S) = k
  BY <1>3, <1>5
<1> QED
  BY <1>6 DEF InForce, S

(* The segment in force in a unit of the interval is the last that begins no  *)
(* later.                                                                     *)
LEMMA ForceFacts ==
    ASSUME NEW s \in Segments, NEW from \in Int, NEW to, InOrder(s, from, to),
           NEW u \in Int, from <= u
    PROVE  /\ Len(s) \in Nat /\ Len(s) > 0
           /\ InForce(s, u) \in 1 .. Len(s) /\ s[InForce(s, u)].at <= u
           /\ \A j \in 1 .. Len(s) : j > InForce(s, u) => s[j].at > u
<1> DEFINE S == {i \in 1 .. Len(s) : s[i].at <= u}
<1>1. Len(s) \in Nat /\ \A i \in 1 .. Len(s) : s[i].at \in Int
  BY SegmentFacts
<1>2. Len(s) > 0
  BY SegmentFacts DEF InOrder
<1>3. 1 \in S /\ S \subseteq 1 .. Len(s)
  BY <1>1, <1>2 DEF InOrder
<1>4. PICK k \in S : \A j \in S : j <= k
  <2> HIDE DEF S
  <2> QED BY <1>1, <1>3, Greatest
<1>5. k \in 1 .. Len(s) /\ s[k].at <= u /\ \A j \in 1 .. Len(s) : j > k => s[j].at > u
  BY <1>1, <1>4
<1>6. InForce(s, u) = k
  BY <1>5, ForceIs
<1> QED
  BY <1>1, <1>2, <1>5, <1>6

\* What a change of price adds to the segments.
LEMMA AppendFacts ==
    ASSUME NEW s \in Segments, NEW from \in Int, NEW t \in Times, InOrder(s, from, t),
           NEW p \in SUBSET Int
    PROVE  LET a == Append(s, [at |-> t, price |-> p])
           IN  /\ a \in Segments /\ InOrder(a, from, t) /\ Len(a) = Len(s) + 1
               /\ \A u \in Int : /\ from <= u /\ u < t => SegmentPrice(a, u) = SegmentPrice(s, u)
                                 /\ t <= u => SegmentPrice(a, u) = p
<1> DEFINE e == [at |-> t, price |-> p]
           a == Append(s, e)
<1>1. e \in Segment
  BY DEF Segment
<1>2. /\ a \in Segments /\ a # << >> /\ Len(a) = Len(s) + 1
      /\ (\A i \in 1 .. Len(s) : a[i] = s[i]) /\ a[Len(s) + 1] = e
  BY <1>1, AppendProperties DEF Segments
<1>3. Len(s) \in Nat /\ Len(s) > 0 /\ \A i \in 1 .. Len(s) : s[i].at \in Int
  BY SegmentFacts DEF InOrder
<1>4. t \in Int /\ e.at = t /\ e.price = p
  BY LedgerAssumption DEF Times
<1> HIDE DEF a, e
<1>5. \A i \in 1 .. Len(s) : s[i].at <= t
  BY <1>3, <1>4 DEF InOrder
<1>6. InOrder(a, from, t)
  <2>1. a[1].at = from
    BY <1>2, <1>3 DEF InOrder
  <2>2. ASSUME NEW i \in 1 .. Len(a), NEW j \in 1 .. Len(a), i <= j PROVE a[i].at <= a[j].at
    <3>1. CASE j = Len(s) + 1
      BY <1>2, <1>3, <1>4, <1>5, <2>2, <3>1
    <3>2. CASE j \in 1 .. Len(s)
      <4>1. i \in 1 .. Len(s)
        BY <1>3, <2>2, <3>2
      <4> QED
        BY <1>2, <2>2, <3>2, <4>1 DEF InOrder
    <3> QED
      BY <1>2, <1>3, <3>1, <3>2
  <2>3. a[Len(a)].at <= t
    BY <1>2, <1>4
  <2> QED
    BY <1>2, <2>1, <2>2, <2>3 DEF InOrder
<1>7. ASSUME NEW u \in Int, from <= u, u < t PROVE SegmentPrice(a, u) = SegmentPrice(s, u)
  <2>1. PICK k \in 1 .. Len(s) : /\ InForce(s, u) = k /\ s[k].at <= u
                                 /\ \A j \in 1 .. Len(s) : j > k => s[j].at > u
    BY <1>7, ForceFacts
  <2>2. k \in 1 .. Len(a) /\ a[k].at <= u
    BY <1>2, <1>3, <2>1
  <2>3. ASSUME NEW j \in 1 .. Len(a), j > k PROVE a[j].at > u
    BY <1>2, <1>3, <1>4, <1>7, <2>1, <2>3
  <2>4. InForce(a, u) = k
    BY <1>2, <2>2, <2>3, ForceIs
  <2> QED
    BY <1>2, <2>1, <2>4 DEF SegmentPrice
<1>8. ASSUME NEW u \in Int, t <= u PROVE SegmentPrice(a, u) = p
  <2>1. Len(a) \in 1 .. Len(a) /\ a[Len(a)].at <= u
    BY <1>2, <1>3, <1>4, <1>8
  <2>2. InForce(a, u) = Len(a)
    BY <1>2, <1>3, <2>1, ForceIs
  <2> QED
    BY <1>2, <1>4, <2>2 DEF SegmentPrice
<1> QED
  BY <1>2, <1>6, <1>7, <1>8 DEF a, e

\* One segment.
LEMMA SingleFacts ==
    ASSUME NEW t \in Times, NEW p \in SUBSET Int
    PROVE  LET s == <<[at |-> t, price |-> p]>>
           IN  /\ s \in Segments /\ InOrder(s, t, t) /\ Len(s) = 1
               /\ \A u \in Int : t <= u => SegmentPrice(s, u) = p
<1> DEFINE e == [at |-> t, price |-> p]
           s == <<e>>
<1>1. e \in Segment /\ e.at = t /\ e.price = p /\ t \in Int
  BY LedgerAssumption DEF Segment, Times
<1> HIDE DEF e
<1>2. s \in Segments /\ Len(s) = 1 /\ s[1] = e /\ s # << >>
  BY <1>1 DEF Segments
<1> HIDE DEF s
<1>3. InOrder(s, t, t)
  BY <1>1, <1>2 DEF InOrder
<1>4. ASSUME NEW u \in Int, t <= u PROVE SegmentPrice(s, u) = p
  <2>1. InForce(s, u) = 1
    BY <1>1, <1>2, <1>4, ForceIs
  <2> QED
    BY <1>1, <1>2, <2>1 DEF SegmentPrice
<1> QED
  BY <1>2, <1>3, <1>4 DEF s, e

\* After the last change the last price is in force.
LEMMA LastInForce ==
    ASSUME NEW s \in Segments, NEW from, NEW t \in Int, InOrder(s, from, t), NEW u \in Int, t <= u
    PROVE  SegmentPrice(s, u) = s[Len(s)].price
<1>1. Len(s) \in Nat /\ Len(s) > 0 /\ s[Len(s)].at \in Int /\ s[Len(s)].at <= t
  BY SegmentFacts DEF InOrder
<1>2. InForce(s, u) = Len(s)
  BY <1>1, ForceIs
<1> QED
  BY <1>2 DEF SegmentPrice

\* SegmentsFrom keeps every price from the unit x on.
LEMMA KeptFacts ==
    ASSUME NEW s \in Segments, NEW from \in Int, NEW t \in Int, InOrder(s, from, t),
           NEW x \in Times, from <= x, x <= t
    PROVE  LET a == SegmentsFrom(s, x)
           IN  /\ a \in Segments /\ InOrder(a, x, t) /\ Len(a) <= Len(s)
               /\ \A u \in Int : x <= u => SegmentPrice(a, u) = SegmentPrice(s, u)
<1> DEFINE f == InForce(s, x)
           k == SubSeq(s, f, Len(s))
           e == [at |-> x, price |-> k[1].price]
           a == [k EXCEPT ![1] = e]
<1>1. /\ Len(s) \in Nat /\ Len(s) > 0
      /\ \A i \in 1 .. Len(s) : s[i] \in Segment /\ s[i].at \in Int /\ s[i].price \in SUBSET Int
  BY SegmentFacts DEF InOrder
<1>2. x \in Int
  BY LedgerAssumption DEF Times
<1>3. f \in 1 .. Len(s) /\ s[f].at <= x /\ \A j \in 1 .. Len(s) : j > f => s[j].at > x
  BY <1>2, ForceFacts
<1> HIDE DEF f
<1>4. /\ k \in Segments /\ Len(k) = Len(s) - f + 1
      /\ \A i \in 1 .. Len(k) : k[i] = s[f + i - 1]
  <2>1. \A i \in f .. Len(s) : s[i] \in Segment
    BY <1>1, <1>3
  <2>2. f \in Int /\ Len(s) \in Int /\ f <= Len(s)
    BY <1>1, <1>3
  <2>3. /\ SubSeq(s, f, Len(s)) \in Seq(Segment)
        /\ Len(SubSeq(s, f, Len(s))) = Len(s) - f + 1
        /\ \A i \in 1 .. Len(s) - f + 1 : SubSeq(s, f, Len(s))[i] = s[f + i - 1]
    BY <2>1, <2>2, SubSeqProperties
  <2> QED
    BY <2>3 DEF Segments
<1> HIDE DEF k
<1>5. Len(k) \in Nat /\ 1 \in 1 .. Len(k) /\ k[1] = s[f] /\ Len(k) <= Len(s)
  BY <1>1, <1>3, <1>4
<1>6. e \in Segment /\ e.at = x /\ e.price = s[f].price
  BY <1>1, <1>3, <1>5 DEF Segment
<1> HIDE DEF e
<1>7. /\ a \in Segments /\ Len(a) = Len(k)
      /\ \A i \in 1 .. Len(k) : a[i] = IF i = 1 THEN e ELSE s[f + i - 1]
  BY <1>4, <1>5, <1>6, ExceptSeq DEF Segments
<1> HIDE DEF a
<1>8. \A i \in 1 .. Len(k) : a[i].at = IF i = 1 THEN x ELSE s[f + i - 1].at
  BY <1>6, <1>7
<1>9. \A i \in 1 .. Len(k) : i # 1 => f + i - 1 \in 1 .. Len(s) /\ f + i - 1 > f /\ a[i].at > x
  BY <1>1, <1>3, <1>4, <1>8
<1>10. InOrder(a, x, t)
  <2>1. a # << >>
    BY <1>5, <1>7
  <2>2. a[1].at = x
    BY <1>5, <1>8
  <2>3. ASSUME NEW i \in 1 .. Len(a), NEW j \in 1 .. Len(a), i <= j PROVE a[i].at <= a[j].at
    <3>1. CASE i = 1
      <4>1. j \in 1 .. Len(k) /\ a[i].at = x
        BY <1>5, <1>7, <1>8, <3>1
      <4>2. a[j].at = x \/ (j # 1 /\ a[j].at = s[f + j - 1].at /\ a[j].at > x)
        BY <1>8, <1>9, <4>1
      <4>3. j # 1 => s[f + j - 1].at \in Int
        BY <1>1, <1>9, <4>1
      <4> QED
        BY <1>2, <4>1, <4>2, <4>3
    <3>2. CASE i # 1
      <4>1. j # 1
        BY <1>5, <1>7, <2>3, <3>2
      <4>2. f + i - 1 \in 1 .. Len(s) /\ f + j - 1 \in 1 .. Len(s) /\ f + i - 1 <= f + j - 1
        BY <1>7, <1>9, <1>3, <1>5, <2>3, <3>2, <4>1
      <4> QED
        BY <1>7, <1>8, <3>2, <4>1, <4>2 DEF InOrder
    <3> QED
      BY <3>1, <3>2
  <2>4. a[Len(a)].at <= t
    <3>1. Len(a) \in 1 .. Len(k)
      BY <1>5, <1>7
    <3>2. Len(a) # 1 => f + Len(a) - 1 = Len(s)
      BY <1>1, <1>3, <1>4, <1>7
    <3> QED
      BY <1>2, <1>8, <3>1, <3>2 DEF InOrder
  <2> QED
    BY <2>1, <2>2, <2>3, <2>4 DEF InOrder
<1>11. ASSUME NEW u \in Int, x <= u PROVE SegmentPrice(a, u) = SegmentPrice(s, u)
  <2>1. PICK n \in 1 .. Len(s) : /\ InForce(s, u) = n /\ s[n].at <= u
                                 /\ \A j \in 1 .. Len(s) : j > n => s[j].at > u
    <3>1. from <= u
      BY <1>2, <1>11
    <3> QED
      BY <3>1, ForceFacts
  <2>2. f <= n
    <3> SUFFICES ASSUME ~ (f <= n) PROVE FALSE
      OBVIOUS
    <3>1. f > n
      BY <1>3, <2>1
    <3> QED
      BY <1>1, <1>2, <1>3, <1>11, <2>1, <3>1
  <2>3. n - f + 1 \in 1 .. Len(a)
    BY <1>1, <1>3, <1>4, <1>7, <2>1, <2>2
  <2>4. a[n - f + 1].at <= u /\ a[n - f + 1].price = s[n].price
    <3>1. CASE n = f
      <4>1. n - f + 1 = 1
        BY <1>3, <3>1
      <4>2. a[1].at = x /\ a[1].price = s[f].price
        BY <1>5, <1>6, <1>7
      <4> QED
        BY <1>11, <3>1, <4>1, <4>2
    <3>2. CASE n # f
      <4>1. n - f + 1 # 1 /\ f + (n - f + 1) - 1 = n
        BY <1>3, <3>2
      <4>2. a[n - f + 1] = s[n]
        BY <1>7, <2>3, <4>1
      <4> QED
        BY <2>1, <4>2
    <3> QED
      BY <3>1, <3>2
  <2>5. ASSUME NEW j \in 1 .. Len(a), j > n - f + 1 PROVE a[j].at > u
    <3>1. j # 1 /\ f + j - 1 \in 1 .. Len(s) /\ f + j - 1 > n
      <4>1. Len(a) = Len(s) - f + 1 /\ j \in Int /\ j <= Len(a) /\ j > n - f + 1
        BY <1>4, <1>7, <2>5
      <4>2. f \in Int /\ n \in Int /\ Len(s) \in Int /\ 1 <= f /\ n <= Len(s)
        BY <1>1, <1>3, <2>1
      <4>3. f + j - 1 \in Int /\ f + j - 1 <= Len(s) /\ f + j - 1 > n
        BY <4>1, <4>2
      <4> QED
        BY <2>2, <4>1, <4>2, <4>3
    <3> QED
      BY <1>7, <1>8, <2>1, <3>1
  <2>6. InForce(a, u) = n - f + 1
    BY <1>7, <2>3, <2>4, <2>5, ForceIs
  <2> QED
    BY <2>1, <2>4, <2>6 DEF SegmentPrice
<1>12. SegmentsFrom(s, x) = a
  BY DEF SegmentsFrom, a, e, k, f
<1> QED
  BY <1>5, <1>7, <1>10, <1>11, <1>12

-----------------------------------------------------------------------------
(* Ledgers, histories and what makes them sound.                              *)

Opens == [meter : Nat \union {Missing}, at : Times \union {Missing}, segments : Segments,
          discard : BOOLEAN]
Ledgers == [totals : Totals, open : Opens]
Histories == [Times -> [energy : Nat, cost : Int]]

(* An open interval at the time t: none, or one whose segments hold the      *)
(* price that was in force in each unit since it began.                      *)
OpenSound(o, c, t) ==
    /\ o \in Opens /\ Len(o.segments) <= MaxSegments
    /\ \/ o.at = Missing /\ o.segments = << >>
       \/ /\ o.at \in Times /\ o.at <= t /\ o.meter \in Nat
          /\ InOrder(o.segments, o.at, t)
          /\ \A u \in Times : o.at <= u => c[u] = SegmentPrice(o.segments, u)

\* Totals at the time t: the sums over what has been booked, none of it after their day.
BookSound(tot, b, t) ==
    /\ tot \in Totals /\ b \in Histories
    /\ tot.day <= DayOf(t)
    /\ tot.month = IF tot.day = Missing THEN Missing ELSE MonthOf[tot.day]
    /\ \A u \in Times : DayOf(u) > tot.day => b[u] = [energy |-> 0, cost |-> 0]
    /\ Tallied(tot, b)

\* What a history has booked to any units adds up to numbers.
LEMMA HistoryFacts ==
    ASSUME NEW b \in Histories, NEW S \in SUBSET Times
    PROVE  /\ IsFiniteSet(S)
           /\ \A u \in Times : /\ Energies(b)[u] = b[u].energy /\ Costs(b)[u] = b[u].cost
                               /\ b[u].energy \in Nat /\ b[u].cost \in Int
           /\ SumOf(S, Energies(b)) \in Nat /\ SumOf(S, Costs(b)) \in Int
<1>1. IsFiniteSet(S)
  <2>1. IsFiniteSet(Times)
    BY FS_Interval, LedgerAssumption DEF Times
  <2> QED
    BY <2>1, FS_Subset
<1>2. \A u \in Times : /\ Energies(b)[u] = b[u].energy /\ Costs(b)[u] = b[u].cost
                       /\ b[u].energy \in Nat /\ b[u].cost \in Int
  BY DEF Energies, Costs, Histories
<1>3. \A u \in S : Energies(b)[u] \in Nat /\ Costs(b)[u] \in Int
  BY <1>2
<1> QED
  BY <1>1, <1>2, <1>3, SumNatural, SumInteger

\* Where nothing is booked the sums are zero.
LEMMA NothingThere ==
    ASSUME NEW b \in Histories, NEW S \in SUBSET Times,
           \A u \in S : b[u] = [energy |-> 0, cost |-> 0]
    PROVE  SumOf(S, Energies(b)) = 0 /\ SumOf(S, Costs(b)) = 0
<1>1. IsFiniteSet(S) /\ \A u \in S : Energies(b)[u] = b[u].energy /\ Costs(b)[u] = b[u].cost
  BY HistoryFacts
<1>2. \A u \in S : Energies(b)[u] = 0 /\ Costs(b)[u] = 0
  BY <1>1
<1> QED
  BY <1>1, <1>2, SumZero

\* A new ledger and an empty history belong together.
LEMMA NewLedgerSound ==
    ASSUME NEW t \in Times, NEW c
    PROVE  /\ NewLedger \in Ledgers
           /\ OpenSound(NoInterval, c, t) /\ BookSound(NoTotals, NothingBooked, t)
           /\ Energy(NothingBooked) = 0
<1>1. NothingBooked \in Histories /\ \A u \in Times : NothingBooked[u] = [energy |-> 0, cost |-> 0]
  BY DEF NothingBooked, Histories
<1>2. NoTotals \in Totals
  BY DEF NoTotals, Totals, Missing
<1>3. NoInterval \in Opens /\ Len(NoInterval.segments) = 0
  BY DEF NoInterval, Opens, Missing, Segments
<1>4. NoInterval.at = Missing /\ NoInterval.segments = << >>
  BY DEF NoInterval
<1>5. /\ NoTotals.day = Missing /\ NoTotals.month = Missing
      /\ NoTotals.daily_energy = 0 /\ NoTotals.daily_effective = 0
      /\ NoTotals.monthly_energy = 0 /\ NoTotals.monthly_effective = 0
  BY DEF NoTotals
<1>6. DayOf(t) \in Nat
  BY Calendar
<1>7. OpenSound(NoInterval, c, t)
  BY <1>3, <1>4, LedgerAssumption DEF OpenSound
<1>8. \A S \in SUBSET Times : SumOf(S, Energies(NothingBooked)) = 0 /\ SumOf(S, Costs(NothingBooked)) = 0
  BY <1>1, NothingThere
<1>9. Tallied(NoTotals, NothingBooked)
  BY <1>5, <1>8 DEF Tallied
<1>10. BookSound(NoTotals, NothingBooked, t)
  BY <1>1, <1>2, <1>5, <1>6, <1>9 DEF BookSound, Missing
<1>11. Energy(NothingBooked) = 0
  BY <1>8 DEF Energy
<1>12. NewLedger \in Ledgers
  BY <1>2, <1>3 DEF NewLedger, Ledgers
<1> QED
  BY <1>7, <1>10, <1>11, <1>12

\* What an update begins with: nothing, in another currency, or what there was.
Old(l, q) == IF Foreign(l, q.unit) THEN NewLedger ELSE l

(* The beginning of an update: a foreign currency starts anew, a new day or   *)
(* month starts at zero, and nothing else changes.                            *)
LEMMA OpenedFacts ==
    ASSUME now \in Times, NEW l \in Ledgers, NEW q \in Quotes
    PROVE  LET o == Opened(l, now, q)
               k == Old(l, q)
           IN  /\ o \in Ledgers /\ o.open = k.open
               /\ o.totals.day = DayOf(now) /\ o.totals.month = MonthOf[DayOf(now)]
               /\ o.totals.high = k.totals.high
               /\ o.totals.daily_energy =
                     IF k.totals.day = DayOf(now) THEN k.totals.daily_energy ELSE 0
               /\ o.totals.daily_effective =
                     IF k.totals.day = DayOf(now) THEN k.totals.daily_effective ELSE 0
               /\ o.totals.monthly_energy =
                     IF k.totals.month = MonthOf[DayOf(now)] THEN k.totals.monthly_energy ELSE 0
               /\ o.totals.monthly_effective =
                     IF k.totals.month = MonthOf[DayOf(now)] THEN k.totals.monthly_effective ELSE 0
               /\ o.totals.unit \in {k.totals.unit, q.unit}
<1> DEFINE k == Old(l, q)
           s == SetUnit(l, q.unit)
           d == DayOf(now)
<1>1. k \in Ledgers
  BY NewLedgerSound DEF Old
<1>2. q.unit \in {x.unit : x \in Quotes} \union {NoUnit}
  OBVIOUS
<1>3. s = IF q.unit = NoUnit THEN k ELSE [k EXCEPT !.totals.unit = q.unit]
  BY DEF SetUnit, Old, Foreign
<1> HIDE DEF k, s
<1>4. s \in Ledgers /\ s.open = k.open
  BY <1>1, <1>2, <1>3 DEF Ledgers, Totals
<1>5. s.totals = IF q.unit = NoUnit THEN k.totals ELSE [k.totals EXCEPT !.unit = q.unit]
  BY <1>1, <1>3 DEF Ledgers
<1>6. k.totals \in Totals /\ s.totals \in Totals
  BY <1>1, <1>4 DEF Ledgers
<1>7. /\ s.totals.day = k.totals.day /\ s.totals.month = k.totals.month /\ s.totals.high = k.totals.high
      /\ s.totals.daily_energy = k.totals.daily_energy /\ s.totals.daily_effective = k.totals.daily_effective
      /\ s.totals.monthly_energy = k.totals.monthly_energy
      /\ s.totals.monthly_effective = k.totals.monthly_effective
      /\ s.totals.unit \in {k.totals.unit, q.unit}
  BY <1>5, <1>6 DEF Totals
<1>8. d \in Days /\ MonthOf[d] \in Nat
  BY Calendar
<1> DEFINE z == StartPeriods(s.totals, now)
<1>9. /\ z \in Totals
      /\ z.day = d /\ z.month = MonthOf[d] /\ z.high = s.totals.high /\ z.unit = s.totals.unit
      /\ z.daily_energy      = IF s.totals.day = d THEN s.totals.daily_energy ELSE 0
      /\ z.daily_effective   = IF s.totals.day = d THEN s.totals.daily_effective ELSE 0
      /\ z.monthly_energy    = IF s.totals.month = MonthOf[d] THEN s.totals.monthly_energy ELSE 0
      /\ z.monthly_effective = IF s.totals.month = MonthOf[d] THEN s.totals.monthly_effective ELSE 0
  <2> PICK tot \in Totals : tot = s.totals
    BY <1>6
  <2> DEFINE mo == MonthOf[d]
             de == IF tot.day = d THEN tot.daily_energy ELSE 0
             dc == IF tot.day = d THEN tot.daily_effective ELSE 0
             me == IF tot.month = mo THEN tot.monthly_energy ELSE 0
             mc == IF tot.month = mo THEN tot.monthly_effective ELSE 0
  <2>1. z = [tot EXCEPT !.day = d, !.month = mo, !.daily_energy = de, !.daily_effective = dc,
                        !.monthly_energy = me, !.monthly_effective = mc]
    BY DEF StartPeriods
  <2>2. d \in Days /\ mo \in Nat
    BY <1>8
  <2>3. de \in Nat /\ dc \in Int /\ me \in Nat /\ mc \in Int
    BY DEF Totals
  <2> PICK units : units = {x.unit : x \in Quotes} \union {NoUnit}
    OBVIOUS
  <2>4. Totals = [day : Days \union {Missing}, month : Nat \union {Missing},
                  unit : units, high : Nat \union {Missing},
                  daily_energy : Nat, daily_effective : Int,
                  monthly_energy : Nat, monthly_effective : Int]
    BY Zenon DEF Totals
  <2> HIDE DEF z, d, mo, de, dc, me, mc
  <2>5. /\ z \in Totals
        /\ z.day = d /\ z.month = mo /\ z.high = tot.high /\ z.unit = tot.unit
        /\ z.daily_energy = de /\ z.daily_effective = dc
        /\ z.monthly_energy = me /\ z.monthly_effective = mc
    BY <2>1, <2>2, <2>3, <2>4
  <2> QED
    BY <2>5 DEF de, dc, me, mc, mo
<1> HIDE DEF z
<1>10. Opened(l, now, q) = [s EXCEPT !.totals = z]
  BY DEF Opened, s, z
<1>11. LET o == [s EXCEPT !.totals = z] IN o \in Ledgers /\ o.open = s.open /\ o.totals = z
  BY <1>4, <1>9 DEF Ledgers
<1> QED
  BY <1>4, <1>7, <1>9, <1>10, <1>11 DEF k

-----------------------------------------------------------------------------
(* What Opened and Allocate do to totals and their history.                   *)

\* A day, month or currency that begins starts at zero, and nothing has been booked to it.
LEMMA OpenedSound ==
    ASSUME now \in Times, NEW l \in Ledgers, NEW q \in Quotes, NEW b,
           BookSound(l.totals, b, now)
    PROVE  BookSound(Opened(l, now, q).totals,
                     IF Foreign(l, q.unit) THEN NothingBooked ELSE b, now)
<1> DEFINE k == Old(l, q)
           h == IF Foreign(l, q.unit) THEN NothingBooked ELSE b
           o == Opened(l, now, q)
           d == DayOf(now)
           mo == MonthOf[d]
<1>1. BookSound(k.totals, h, now)
  BY NewLedgerSound DEF Old, NewLedger
<1>2. /\ o \in Ledgers /\ o.totals.day = d /\ o.totals.month = mo
      /\ o.totals.daily_energy = IF k.totals.day = d THEN k.totals.daily_energy ELSE 0
      /\ o.totals.daily_effective = IF k.totals.day = d THEN k.totals.daily_effective ELSE 0
      /\ o.totals.monthly_energy = IF k.totals.month = mo THEN k.totals.monthly_energy ELSE 0
      /\ o.totals.monthly_effective = IF k.totals.month = mo THEN k.totals.monthly_effective ELSE 0
  BY OpenedFacts
<1> HIDE DEF k, h, o
<1>3. d \in Days /\ d \in Nat /\ mo \in Nat
  BY Calendar
<1>4. /\ h \in Histories /\ k.totals \in Totals
      /\ k.totals.day <= d /\ k.totals.day \in Nat \union {-1}
      /\ k.totals.month = IF k.totals.day = Missing THEN Missing ELSE MonthOf[k.totals.day]
      /\ \A u \in Times : DayOf(u) > k.totals.day => h[u] = [energy |-> 0, cost |-> 0]
      /\ Tallied(k.totals, h)
  <2>1. Days \subseteq Nat
    BY LedgerAssumption, Calendar DEF Days
  <2> QED
    BY <1>1, <2>1 DEF BookSound, Totals, Missing
<1>5. \A u \in Times : DayOf(u) \in Nat /\ DayOf(u) \in Days
  BY Calendar
<1>6. ASSUME NEW u \in Times, DayOf(u) > d PROVE h[u] = [energy |-> 0, cost |-> 0]
  BY <1>3, <1>4, <1>5, <1>6
<1> DEFINE today == {u \in Times : DayOf(u) = d}
           month == {u \in Times : MonthOf[DayOf(u)] = mo}
<1>7. /\ o.totals.daily_energy = SumOf(today, Energies(h))
      /\ o.totals.daily_effective = SumOf(today, Costs(h))
  <2>1. CASE k.totals.day = d
    BY <1>2, <1>4, <2>1 DEF Tallied
  <2>2. CASE k.totals.day # d
    <3>1. \A u \in today : h[u] = [energy |-> 0, cost |-> 0]
      BY <1>3, <1>4, <2>2
    <3>2. today \in SUBSET Times
      OBVIOUS
    <3> HIDE DEF today
    <3> QED
      BY <1>2, <1>4, <2>2, <3>1, <3>2, NothingThere
  <2> QED
    BY <2>1, <2>2
<1>8. /\ o.totals.monthly_energy = SumOf(month, Energies(h))
      /\ o.totals.monthly_effective = SumOf(month, Costs(h))
  <2>1. CASE k.totals.month = mo
    BY <1>2, <1>4, <2>1 DEF Tallied
  <2>2. CASE k.totals.month # mo
    <3>1. ASSUME NEW u \in month PROVE DayOf(u) > k.totals.day
      <4> SUFFICES ASSUME ~ (DayOf(u) > k.totals.day) PROVE FALSE
        OBVIOUS
      <4>1. u \in Times /\ DayOf(u) \in Days /\ DayOf(u) \in Nat /\ MonthOf[DayOf(u)] = mo
        BY <1>5
      <4>2. DayOf(u) <= k.totals.day /\ k.totals.day # Missing /\ k.totals.day \in Days
        BY <1>4, <4>1 DEF Missing, Totals
      <4>3. MonthOf[DayOf(u)] <= MonthOf[k.totals.day] /\ MonthOf[k.totals.day] <= MonthOf[d]
        BY <1>3, <1>4, <4>1, <4>2, LedgerAssumption
      <4>4. MonthOf[k.totals.day] \in Nat
        BY <4>2, LedgerAssumption
      <4> QED
        BY <1>3, <1>4, <2>2, <4>1, <4>2, <4>3, <4>4
    <3>2. \A u \in month : h[u] = [energy |-> 0, cost |-> 0]
      BY <1>4, <3>1
    <3>3. month \in SUBSET Times
      OBVIOUS
    <3> HIDE DEF month
    <3> QED
      BY <1>2, <1>4, <2>2, <3>2, <3>3, NothingThere
  <2> QED
    BY <2>1, <2>2
<1>9. Tallied(o.totals, h)
  BY <1>2, <1>7, <1>8 DEF Tallied
<1>10. o.totals \in Totals
  BY <1>2 DEF Ledgers
<1>11. BookSound(o.totals, h, now)
  <2>1. d # Missing
    BY <1>3 DEF Missing
  <2> HIDE DEF d
  <2>2. d <= d
    BY <1>3
  <2> QED
    BY <1>2, <1>4, <1>6, <1>9, <1>10, <2>1, <2>2 DEF BookSound, d
<1> QED
  BY <1>11 DEF o, h

\* The even shares of a delta make up no more than the delta.
LEMMA SharesOf ==
    ASSUME NEW delta \in Nat, NEW n \in Nat, n > 0, NEW k \in Nat, k <= n
    PROVE  delta \div n \in Nat /\ (delta \div n) * k \in 0 .. delta
<1> DEFINE s == delta \div n
<1>1. s \in Nat /\ n * s <= delta
  BY Z3
<1> HIDE DEF s
<1>2. s * k <= s * n /\ s * k \in Nat /\ s * n = n * s
  BY <1>1, Z3
<1> QED
  BY <1>1, <1>2 DEF s

(* Allocate books to the totals what the history gains: no more than the      *)
(* delta in all, and all of that to the day if the interval lies in it.       *)
LEMMA AllocateFacts ==
    ASSUME now \in Times, charge \in [Times -> SUBSET Int],
           NEW l \in Ledgers, OpenSound(l.open, charge, now), NEW b, BookSound(l.totals, b, now),
           l.totals.day = DayOf(now), NEW m \in Nat,
           l.open.at # Missing, l.open.at < now, l.open.meter <= m
    PROVE  LET o == l.open
               a == Allocate(l, now, m)
               share == (m - o.meter) \div (now - o.at)
               c == [u \in Times |->
                        IF u \in o.at .. now - 1 /\ charge[u] # NoPrice
                        THEN [energy |-> b[u].energy + share,
                              cost   |-> b[u].cost + share * Amount(charge[u])]
                        ELSE b[u]]
               gain == Energy(c) - Energy(b)
               more == a.totals.daily_energy - l.totals.daily_energy
           IN  /\ a \in Ledgers /\ a.open = o /\ a.totals.high = l.totals.high
               /\ a.totals.day = l.totals.day
               /\ BookSound(a.totals, c, now)
               /\ gain \in 0 .. m - o.meter /\ more \in 0 .. gain
               /\ DayOf(o.at) = DayOf(now) => more = gain
<1> DEFINE o == l.open
           a == Allocate(l, now, m)
           share == (m - o.meter) \div (now - o.at)
           units == {u \in o.at .. now - 1 : charge[u] # NoPrice}
           c == [u \in Times |->
                    IF u \in o.at .. now - 1 /\ charge[u] # NoPrice
                    THEN [energy |-> b[u].energy + share,
                          cost   |-> b[u].cost + share * Amount(charge[u])]
                    ELSE b[u]]
<1>1. /\ o.at \in Times /\ o.at \in Nat /\ now \in Nat /\ o.meter \in Nat /\ o.at < now
      /\ m - o.meter \in Nat /\ now - o.at \in Nat /\ now - o.at > 0
      /\ \A u \in Times : o.at <= u => charge[u] = SegmentPrice(o.segments, u)
      /\ \A u \in o.at .. now - 1 : u \in Times
  BY LedgerAssumption DEF OpenSound, Times
<1>2. share \in Nat
  <2>1. \A x, y \in Nat : y > 0 => x \div y \in Nat
    BY Z3
  <2> QED
    BY <1>1, <2>1
<1>3. /\ l.totals \in Totals /\ b \in Histories
      /\ l.totals.month = MonthOf[DayOf(now)] /\ DayOf(now) # Missing
      /\ Tallied(l.totals, b)
      /\ \A u \in Times : DayOf(u) > DayOf(now) => b[u] = [energy |-> 0, cost |-> 0]
  BY Calendar DEF BookSound, Missing
<1>4. units \in SUBSET Times /\ units \subseteq o.at .. now - 1
  BY <1>1
<1>5. \A u \in Times : charge[u] # NoPrice => Amount(charge[u]) \in Int
  <2> SUFFICES ASSUME NEW u \in Times, charge[u] # NoPrice PROVE Amount(charge[u]) \in Int
    OBVIOUS
  <2>1. \E n \in charge[u] : TRUE
    BY DEF NoPrice
  <2>2. Amount(charge[u]) \in charge[u]
    BY <2>1, Zenon DEF Amount
  <2> QED
    BY <2>2
<1> HIDE DEF share
<1>6. c \in Histories
  <2> SUFFICES ASSUME NEW u \in Times PROVE c[u] \in [energy : Nat, cost : Int]
    BY DEF Histories
  <2>1. b[u] \in [energy : Nat, cost : Int]
    BY <1>3 DEF Histories
  <2>2. CASE u \in o.at .. now - 1 /\ charge[u] # NoPrice
    <3>1. b[u].energy + share \in Nat /\ b[u].cost + share * Amount(charge[u]) \in Int
      BY <1>2, <1>5, <2>1, <2>2
    <3> QED
      BY <2>2, <3>1
  <2>3. CASE ~ (u \in o.at .. now - 1 /\ charge[u] # NoPrice)
    BY <2>1, <2>3
  <2> QED
    BY <2>2, <2>3
<1> HIDE DEF units
<1>7. \A u \in Times :
         /\ c[u].energy = IF u \in units THEN b[u].energy + share ELSE b[u].energy
         /\ c[u].cost = IF u \in units THEN b[u].cost + share * Amount(charge[u]) ELSE b[u].cost
         /\ u \notin units => c[u] = b[u]
  BY DEF units
<1> HIDE DEF c
(* What the history gains over any units is what the ledger books of them. *)
<1>8. ASSUME NEW S \in SUBSET Times, NEW P, P = units \intersect S
      PROVE  /\ SumOf(S, Energies(c)) = SumOf(S, Energies(b)) + share * Cardinality(P)
             /\ SumOf(S, Costs(c)) =
                   SumOf(S, Costs(b))
                      + share * SumOf(P, [u \in P |-> Amount(SegmentPrice(o.segments, u))])
  <2> DEFINE w == [u \in P |-> Amount(SegmentPrice(o.segments, u))]
  <2>1. IsFiniteSet(S) /\ P \in SUBSET S /\ share \in Int
    BY <1>2, <1>8, HistoryFacts, <1>3
  <2>2. \A u \in Times : /\ Energies(b)[u] = b[u].energy /\ Costs(b)[u] = b[u].cost
                         /\ b[u].energy \in Nat /\ b[u].cost \in Int
                         /\ Energies(c)[u] = c[u].energy /\ Costs(c)[u] = c[u].cost
    BY <1>3, <1>6, HistoryFacts
  <2>3. \A u \in P : w[u] = Amount(charge[u]) /\ w[u] \in Int
    <3> SUFFICES ASSUME NEW u \in P
                 PROVE  Amount(SegmentPrice(o.segments, u)) = Amount(charge[u])
                        /\ Amount(charge[u]) \in Int
      OBVIOUS
    <3>1. u \in units /\ u \in Times
      BY <1>8
    <3>2. o.at <= u /\ charge[u] # NoPrice
      BY <1>1, <3>1 DEF units
    <3> QED
      BY <1>1, <1>5, <3>1, <3>2
  <2> HIDE DEF w
  <2>4. \A u \in S : /\ Energies(b)[u] \in Int /\ Costs(b)[u] \in Int
                     /\ Energies(c)[u] = IF u \in P THEN Energies(b)[u] + share ELSE Energies(b)[u]
                     /\ Costs(c)[u] = IF u \in P THEN Costs(b)[u] + share * w[u] ELSE Costs(b)[u]
    BY <1>7, <1>8, <2>2, <2>3
  <2>5. SumOf(S, Energies(c)) = SumOf(S, Energies(b)) + share * Cardinality(P)
    BY <2>1, <2>4, SumGrows
  <2>6. SumOf(S, Costs(c)) = SumOf(S, Costs(b)) + share * SumOf(P, w)
    BY <2>1, <2>3, <2>4, SumChanges
  <2> QED
    BY <2>5, <2>6 DEF w
<1> DEFINE days   == {u \in Times : DayOf(u) = l.totals.day}
           months == {u \in Times : MonthOf[DayOf(u)] = l.totals.month}
           today  == units \intersect days
           month  == units \intersect months
           Paid(P) == SumOf(P, [u \in P |-> Amount(SegmentPrice(o.segments, u))])
           de == l.totals.daily_energy + share * Cardinality(today)
           dc == l.totals.daily_effective + share * Paid(today)
           me == l.totals.monthly_energy + share * Cardinality(month)
           mc == l.totals.monthly_effective + share * Paid(month)
<1>9. a = [l EXCEPT !.totals.monthly_energy = me, !.totals.monthly_effective = mc,
                    !.totals.daily_energy = de, !.totals.daily_effective = dc]
  <2>1. units = {u \in o.at .. now - 1 : SegmentPrice(o.segments, u) # NoPrice}
    BY <1>1 DEF units
  <2>2. today = {u \in units : DayOf(u) = l.totals.day}
    BY <1>4
  <2>3. month = {u \in units : MonthOf[DayOf(u)] = l.totals.month}
    BY <1>4
  <2> HIDE DEF today, month
  <2> QED
    BY <2>1, <2>2, <2>3, Zenon DEF Allocate, share
<1>10. /\ de = SumOf(days, Energies(c)) /\ dc = SumOf(days, Costs(c))
       /\ me = SumOf(months, Energies(c)) /\ mc = SumOf(months, Costs(c))
  <2>1. days \in SUBSET Times /\ months \in SUBSET Times
    OBVIOUS
  <2>2. /\ l.totals.daily_energy = SumOf(days, Energies(b))
        /\ l.totals.daily_effective = SumOf(days, Costs(b))
        /\ l.totals.monthly_energy = SumOf(months, Energies(b))
        /\ l.totals.monthly_effective = SumOf(months, Costs(b))
    BY <1>3 DEF Tallied
  <2> HIDE DEF days, months
  <2>3. /\ SumOf(days, Energies(c)) = SumOf(days, Energies(b)) + share * Cardinality(today)
        /\ SumOf(days, Costs(c)) = SumOf(days, Costs(b)) + share * Paid(today)
    BY <1>8, <2>1
  <2>4. /\ SumOf(months, Energies(c)) = SumOf(months, Energies(b)) + share * Cardinality(month)
        /\ SumOf(months, Costs(c)) = SumOf(months, Costs(b)) + share * Paid(month)
    BY <1>8, <2>1
  <2> HIDE DEF today, month, Paid
  <2> QED
    BY <2>2, <2>3, <2>4
<1>11. /\ IsFiniteSet(units) /\ Cardinality(units) \in Nat /\ Cardinality(units) <= now - o.at
       /\ Cardinality(today) \in Nat /\ Cardinality(today) <= Cardinality(units)
  <2>1. IsFiniteSet(o.at .. now - 1) /\ Cardinality(o.at .. now - 1) = now - o.at
    <3>1. \A x, y \in Int : x < y => /\ IsFiniteSet(x .. y - 1)
                                     /\ Cardinality(x .. y - 1) = y - x
      <4> SUFFICES ASSUME NEW x \in Int, NEW y \in Int, x < y
                   PROVE  IsFiniteSet(x .. y - 1) /\ Cardinality(x .. y - 1) = y - x
        OBVIOUS
      <4>1. y - 1 \in Int /\ ~ (x > y - 1)
        OBVIOUS
      <4>2. Cardinality(x .. y - 1) = (y - 1) - x + 1
        BY <4>1, FS_Interval, Zenon
      <4>3. (y - 1) - x + 1 = y - x
        OBVIOUS
      <4> QED
        BY <4>1, <4>2, <4>3, FS_Interval, Zenon
    <3>2. o.at \in Int /\ now \in Int
      BY <1>1
    <3> QED
      BY <1>1, <3>1, <3>2
  <2>2. IsFiniteSet(units) /\ Cardinality(units) <= Cardinality(o.at .. now - 1)
    BY <1>4, <2>1, FS_Subset
  <2>3. IsFiniteSet(today) /\ Cardinality(today) <= Cardinality(units)
    <3>1. today \in SUBSET units
      OBVIOUS
    <3> QED
      BY <2>2, <3>1, FS_Subset
  <2>4. Cardinality(units) \in Nat /\ Cardinality(today) \in Nat
    BY <2>2, <2>3, FS_CardinalityType
  <2> QED
    BY <2>1, <2>2, <2>3, <2>4
<1>12. Energy(c) = Energy(b) + share * Cardinality(units) /\ Energy(b) \in Nat
  <2>1. Times \in SUBSET Times /\ units = units \intersect Times
    BY <1>4
  <2> QED
    BY <2>1, <1>3, <1>8, HistoryFacts, Zenon DEF Energy
<1>13. share * Cardinality(units) \in 0 .. m - o.meter
  BY <1>1, <1>11, SharesOf DEF share
<1>14. share * Cardinality(today) \in 0 .. share * Cardinality(units)
  <2> PICK i \in Nat : i = Cardinality(today)
    BY <1>11
  <2> PICK j \in Nat : j = Cardinality(units)
    BY <1>11
  <2>1. i <= j
    BY <1>11
  <2>2. \A x, y, z \in Nat : y <= z => x * y \in 0 .. x * z
    BY Z3
  <2>3. share * i \in 0 .. share * j
    BY <1>2, <2>1, <2>2
  <2> QED
    BY <2>3
<1>15. ASSUME DayOf(o.at) = DayOf(now) PROVE today = units
  <2>1. ASSUME NEW u \in units PROVE DayOf(u) = DayOf(now)
    <3>1. u \in Times /\ o.at <= u /\ u <= now /\ DayOf(u) \in Nat /\ DayOf(now) \in Nat
      BY <1>1, <1>4, Calendar
    <3>2. DayOf(o.at) <= DayOf(u) /\ DayOf(u) <= DayOf(now)
      BY <1>1, <3>1, Calendar
    <3> QED
      BY <1>15, <3>1, <3>2
  <2> QED
    BY <1>4, <2>1
<1>16. \A S \in SUBSET Times : SumOf(S, Energies(c)) \in Nat /\ SumOf(S, Costs(c)) \in Int
  BY <1>6, HistoryFacts
<1>17. de \in Nat /\ dc \in Int /\ me \in Nat /\ mc \in Int
  <2>1. days \in SUBSET Times /\ months \in SUBSET Times
    OBVIOUS
  <2> HIDE DEF days, months, de, dc, me, mc
  <2> QED
    BY <1>10, <1>16, <2>1
<1> HIDE DEF de, dc, me, mc, today, month, days, months
<1>18. /\ a \in Ledgers /\ a.open = l.open /\ a.totals \in Totals
       /\ a.totals.high = l.totals.high /\ a.totals.day = l.totals.day
       /\ a.totals.month = l.totals.month /\ a.totals.unit = l.totals.unit
       /\ a.totals.daily_energy = de /\ a.totals.daily_effective = dc
       /\ a.totals.monthly_energy = me /\ a.totals.monthly_effective = mc
  <2> PICK units1 : units1 = {x.unit : x \in Quotes} \union {NoUnit}
    OBVIOUS
  <2>1. Totals = [day : Days \union {Missing}, month : Nat \union {Missing},
                  unit : units1, high : Nat \union {Missing},
                  daily_energy : Nat, daily_effective : Int,
                  monthly_energy : Nat, monthly_effective : Int]
    BY Zenon DEF Totals
  <2> HIDE DEF a
  <2> QED
    BY <1>9, <1>17, <2>1 DEF Ledgers
<1>19. Tallied(a.totals, c)
  BY <1>10, <1>18 DEF Tallied, days, months
<1>20. BookSound(a.totals, c, now)
  <2>1. ASSUME NEW u \in Times, DayOf(u) > DayOf(now) PROVE c[u] = [energy |-> 0, cost |-> 0]
    <3>1. u \notin units
      <4> SUFFICES ASSUME u \in units PROVE FALSE
        OBVIOUS
      <4>1. u <= now /\ DayOf(u) \in Nat /\ DayOf(now) \in Nat
        BY <1>1, <1>4, Calendar
      <4>2. DayOf(u) <= DayOf(now)
        BY <4>1, Calendar
      <4> QED
        BY <2>1, <4>1, <4>2
    <3> QED
      BY <1>3, <1>7, <2>1, <3>1
  <2>2. DayOf(now) <= DayOf(now)
    BY Calendar
  <2> HIDE DEF a
  <2> QED
    BY <1>3, <1>6, <1>18, <1>19, <2>1, <2>2 DEF BookSound
<1>21. a.totals.daily_energy - l.totals.daily_energy = share * Cardinality(today)
  <2>1. l.totals.daily_energy \in Nat /\ a.totals.daily_energy = de
    BY <1>3, <1>18 DEF Totals
  <2>2. share * Cardinality(today) \in Nat
    BY <1>14
  <2> HIDE DEF a
  <2> QED
    BY <2>1, <2>2 DEF de
<1>22. Energy(c) - Energy(b) = share * Cardinality(units)
  BY <1>12, <1>13
<1> HIDE DEF a
<1>23. /\ Energy(c) - Energy(b) \in 0 .. m - o.meter
       /\ a.totals.daily_energy - l.totals.daily_energy \in 0 .. Energy(c) - Energy(b)
       /\ DayOf(o.at) = DayOf(now) =>
             a.totals.daily_energy - l.totals.daily_energy = Energy(c) - Energy(b)
  BY <1>13, <1>14, <1>15, <1>21, <1>22
<1> QED
  BY <1>18, <1>20, <1>23 DEF a, c, share

-----------------------------------------------------------------------------
(* How the open interval goes on.                                             *)

\* The prices in force once the price has been read.
After(p) == [u \in Times |-> IF u >= now THEN p ELSE charge[u]]

\* The ledger r differs from l by an interval begun now.
Begun(r, l, m, p) ==
    /\ r \in Ledgers /\ r.totals = l.totals /\ OpenSound(r.open, After(p), now)
    /\ r.open.at = now /\ r.open.meter = m

\* The ledger r differs from l by the prices of its open interval.
Continued(r, l, p) ==
    /\ r \in Ledgers /\ r.totals = l.totals /\ OpenSound(r.open, After(p), now)
    /\ r.open.at = l.open.at /\ r.open.meter = l.open.meter /\ r.open.discard = l.open.discard

\* A new interval holds the price just read.
LEMMA BaselineFacts ==
    ASSUME now \in Times, NEW l \in Ledgers, NEW m \in Nat, NEW p \in SUBSET Int
    PROVE  Begun(Baseline(l, now, m, p), l, m, p)
<1> DEFINE new == <<[at |-> now, price |-> p]>>
           r == Baseline(l, now, m, p)
<1>1. /\ new \in Segments /\ InOrder(new, now, now) /\ Len(new) = 1
      /\ \A u \in Int : now <= u => SegmentPrice(new, u) = p
  BY SingleFacts
<1>2. r = [l EXCEPT !.open = [l.open EXCEPT !.meter = m, !.at = now, !.segments = new]]
  BY DEF Baseline, Ledgers
<1>3. now \in Int /\ now <= now /\ 1 <= MaxSegments /\ \A u \in Times : u \in Int
  BY LedgerAssumption DEF Times
<1>4. l.open \in Opens /\ l.totals \in Totals
  BY DEF Ledgers
<1> HIDE DEF new, r
<1>5. /\ r \in Ledgers /\ r.totals = l.totals /\ r.open \in Opens
      /\ r.open.at = now /\ r.open.meter = m /\ r.open.segments = new
      /\ r.open.discard = l.open.discard
  <2> PICK o \in Opens : o = l.open
    BY <1>4
  <2> PICK n : n = [o EXCEPT !.meter = m, !.at = now, !.segments = new]
    OBVIOUS
  <2>1. /\ n \in Opens /\ n.at = now /\ n.meter = m /\ n.segments = new
        /\ n.discard = o.discard
    BY <1>1 DEF Opens
  <2>2. r = [l EXCEPT !.open = n]
    BY <1>2, Zenon
  <2>3. r \in Ledgers /\ r.totals = l.totals /\ r.open = n
    BY <2>1, <2>2 DEF Ledgers
  <2> QED
    BY <2>1, <2>3
<1>6. \A u \in Times : now <= u => After(p)[u] = p /\ SegmentPrice(new, u) = p
  BY <1>1, <1>3 DEF After
<1>7. \A u \in Times : r.open.at <= u => After(p)[u] = SegmentPrice(r.open.segments, u)
  BY <1>5, <1>6
<1>8. OpenSound(r.open, After(p), now)
  BY <1>1, <1>3, <1>5, <1>7 DEF OpenSound
<1> QED
  BY <1>5, <1>8 DEF Begun, r

\* Discarding changes nothing else.
LEMMA DiscardingFacts ==
    ASSUME NEW r, NEW l, NEW m, NEW p, Begun(r, l, m, p), NEW x \in BOOLEAN
    PROVE  Begun(Discarding(r, x), l, m, p) /\ (Discarding(r, x).open.discard <=> x)
<1> DEFINE d == Discarding(r, x)
<1>1. r \in Ledgers
  BY DEF Begun
<1>2. /\ d \in Ledgers /\ d.totals = r.totals /\ d.open \in Opens
      /\ d.open.at = r.open.at /\ d.open.meter = r.open.meter
      /\ d.open.segments = r.open.segments
      /\ d.open.discard <=> x
  BY <1>1 DEF Discarding, Ledgers, Opens
<1> HIDE DEF d
<1>3. OpenSound(d.open, After(p), now)
  BY <1>2 DEF OpenSound, Begun
<1> QED
  BY <1>2, <1>3 DEF Begun, d

\* A change of price within the interval is remembered, or discards the interval.
LEMMA QuotedFacts ==
    ASSUME now \in Times, NEW l \in Ledgers, OpenSound(l.open, charge, now), l.open.at # Missing,
           NEW m \in Nat, NEW p \in SUBSET Int
    PROVE  LET r == Quoted(l, now, m, p)
           IN  Continued(r, l, p) \/ (Begun(r, l, m, p) /\ r.open.discard)
<1> DEFINE s == l.open.segments
           a == Append(s, [at |-> now, price |-> p])
           r == Quoted(l, now, m, p)
<1>1. /\ l.open \in Opens /\ l.totals \in Totals /\ s \in Segments /\ Len(s) <= MaxSegments
      /\ l.open.at \in Times /\ l.open.at <= now /\ l.open.meter \in Nat
      /\ InOrder(s, l.open.at, now)
      /\ \A u \in Times : l.open.at <= u => charge[u] = SegmentPrice(s, u)
  BY DEF OpenSound, Ledgers, Opens
<1>2. now \in Int /\ l.open.at \in Int /\ \A u \in Times : u \in Int
  BY <1>1, LedgerAssumption DEF Times
<1>3. CASE s[Len(s)].price = p
  <2>1. r = l
    BY <1>3 DEF Quoted
  <2>2. ASSUME NEW u \in Times, l.open.at <= u PROVE After(p)[u] = SegmentPrice(s, u)
    <3>1. u \in Int
      BY <1>2
    <3>2. CASE u >= now
      <4>1. now <= u
        BY <1>2, <3>1, <3>2
      <4>2. SegmentPrice(s, u) = p
        BY <1>1, <1>2, <1>3, <3>1, <4>1, LastInForce
      <4> QED
        BY <3>2, <4>2 DEF After
    <3>3. CASE ~ (u >= now)
      BY <1>1, <2>2, <3>3 DEF After
    <3> QED
      BY <3>2, <3>3
  <2> QED
    BY <1>1, <2>1, <2>2 DEF OpenSound, Continued
<1>4. CASE s[Len(s)].price # p /\ Len(a) > MaxSegments
  <2>1. r = Discarding(Baseline(l, now, m, p), TRUE) /\ TRUE \in BOOLEAN
    BY <1>4 DEF Quoted
  <2> HIDE DEF r
  <2>2. Begun(Baseline(l, now, m, p), l, m, p)
    BY BaselineFacts
  <2>3. Begun(r, l, m, p) /\ (r.open.discard <=> TRUE)
    BY <2>1, <2>2, DiscardingFacts
  <2> QED
    BY <2>3 DEF r
<1>5. CASE s[Len(s)].price # p /\ ~ (Len(a) > MaxSegments)
  <2>1. r = [l EXCEPT !.open.segments = a]
    BY <1>5 DEF Quoted
  <2>2. /\ a \in Segments /\ InOrder(a, l.open.at, now) /\ Len(a) = Len(s) + 1
        /\ \A u \in Int : /\ l.open.at <= u /\ u < now => SegmentPrice(a, u) = SegmentPrice(s, u)
                          /\ now <= u => SegmentPrice(a, u) = p
    BY <1>1, <1>2, AppendFacts
  <2>3. Len(a) <= MaxSegments
    BY <1>1, <1>5, <2>2, SegmentFacts, LedgerAssumption
  <2> HIDE DEF a
  <2>4. /\ r \in Ledgers /\ r.totals = l.totals /\ r.open \in Opens
        /\ r.open.at = l.open.at /\ r.open.meter = l.open.meter
        /\ r.open.discard = l.open.discard /\ r.open.segments = a
    BY <1>1, <2>1, <2>2 DEF Ledgers, Opens
  <2>5. ASSUME NEW u \in Times, l.open.at <= u PROVE After(p)[u] = SegmentPrice(a, u)
    BY <1>1, <1>2, <2>2, <2>5 DEF After
  <2> HIDE DEF r
  <2>6. OpenSound(r.open, After(p), now)
    BY <1>1, <2>2, <2>3, <2>4, <2>5 DEF OpenSound
  <2> QED
    BY <2>4, <2>6 DEF r, Continued
<1> QED
  BY <1>3, <1>4, <1>5

\* The open interval of a daily source begins anew at midnight, with zero.
LEMMA MidnightFacts ==
    ASSUME now \in Times, NEW l \in Ledgers, OpenSound(l.open, charge, now),
           l.open.at # Missing, DayOf(l.open.at) # DayOf(now)
    PROVE  LET r == FromMidnight(l, now)
           IN  /\ r \in Ledgers /\ r.totals = l.totals /\ OpenSound(r.open, charge, now)
               /\ r.open.at = Midnight(now) /\ r.open.meter = 0
               /\ r.open.discard = l.open.discard
<1> PICK x : x = Midnight(now)
  OBVIOUS
<1> DEFINE s == l.open.segments
           a == SegmentsFrom(s, x)
           r == FromMidnight(l, now)
<1>1. /\ l.open \in Opens /\ l.totals \in Totals /\ s \in Segments /\ Len(s) <= MaxSegments
      /\ l.open.at \in Times /\ l.open.at <= now
      /\ InOrder(s, l.open.at, now)
      /\ \A u \in Times : l.open.at <= u => charge[u] = SegmentPrice(s, u)
  BY DEF OpenSound, Ledgers, Opens
<1>2. now \in Int /\ l.open.at \in Int /\ \A u \in Times : u \in Int
  BY <1>1, LedgerAssumption DEF Times
<1>3. x \in Times /\ x <= now /\ l.open.at < x /\ l.open.at \in Int /\ x \in Int
  <2>1. DayOf(l.open.at) \in Nat /\ DayOf(now) \in Nat /\ DayOf(l.open.at) <= DayOf(now)
    BY <1>1, Calendar
  <2>2. DayOf(l.open.at) < DayOf(now)
    BY <2>1
  <2> QED
    BY <1>1, <1>2, <2>2, Calendar
<1>4. /\ a \in Segments /\ InOrder(a, x, now) /\ Len(a) <= Len(s)
      /\ \A u \in Int : x <= u => SegmentPrice(a, u) = SegmentPrice(s, u)
  <2>1. l.open.at <= x
    BY <1>3
  <2> QED
    BY <1>1, <1>2, <1>3, <2>1, KeptFacts
<1>5. r = [l EXCEPT !.open = [l.open EXCEPT !.meter = 0, !.at = x, !.segments = a]]
  BY DEF FromMidnight, Ledgers
<1> HIDE DEF a
<1>6. Len(a) <= MaxSegments
  BY <1>1, <1>4, SegmentFacts, LedgerAssumption
<1>7. ASSUME NEW u \in Times, x <= u PROVE charge[u] = SegmentPrice(a, u)
  <2>1. u \in Int /\ l.open.at <= u
    BY <1>2, <1>3, <1>7
  <2> QED
    BY <1>1, <1>4, <1>7, <2>1
<1>8. /\ r \in Ledgers /\ r.totals = l.totals /\ r.open \in Opens
      /\ r.open.at = x /\ r.open.meter = 0
      /\ r.open.discard = l.open.discard /\ r.open.segments = a
  <2> PICK o \in Opens : o = l.open
    BY <1>1
  <2> PICK n : n = [o EXCEPT !.meter = 0, !.at = x, !.segments = a]
    OBVIOUS
  <2>1. /\ n \in Opens /\ n.at = x /\ n.meter = 0 /\ n.segments = a
        /\ n.discard = o.discard
    BY <1>3, <1>4 DEF Opens
  <2>2. r = [l EXCEPT !.open = n]
    BY <1>5, Zenon
  <2>3. r \in Ledgers /\ r.totals = l.totals /\ r.open = n
    BY <2>1, <2>2 DEF Ledgers
  <2> QED
    BY <2>1, <2>3
<1> HIDE DEF r
<1>9. OpenSound(r.open, charge, now)
  BY <1>3, <1>4, <1>6, <1>7, <1>8 DEF OpenSound
<1> QED
  BY <1>8, <1>9 DEF r

-----------------------------------------------------------------------------
(* Booking an interval.                                                       *)

\* What a history holds once the delta up to m has been spread over the interval o.
Spread(b, o, m) ==
    LET share == (m - o.meter) \div (now - o.at)
    IN  [u \in Times |-> IF u \in o.at .. now - 1 /\ charge[u] # NoPrice
                         THEN [energy |-> b[u].energy + share,
                               cost   |-> b[u].cost + share * Amount(charge[u])]
                         ELSE b[u]]

(* The ledger r has booked what the interval o of l gained up to the reading  *)
(* m: no more than the delta to all units, and no more than that to the day.  *)
Booked(r, l, o, b, m, p) ==
    LET gain == Energy(Spread(b, o, m)) - Energy(b)
        more == r.totals.daily_energy - l.totals.daily_energy
    IN  /\ r \in Ledgers /\ OpenSound(r.open, After(p), now)
        /\ r.open.at = now /\ r.open.meter = m
        /\ r.totals.high = l.totals.high /\ r.totals.day = l.totals.day
        /\ BookSound(r.totals, Spread(b, o, m), now)
        /\ o.at # Missing /\ o.at < now /\ o.meter < m
        /\ gain \in 0 .. m - o.meter /\ more \in 0 .. gain
        /\ DayOf(o.at) = DayOf(now) => more = gain

\* Settle books the interval and begins the next one, or goes on with it.
LEMMA SettleFacts ==
    ASSUME now \in Times, charge \in [Times -> SUBSET Int],
           NEW l \in Ledgers, OpenSound(l.open, charge, now), NEW b, BookSound(l.totals, b, now),
           l.totals.day = DayOf(now), NEW m \in Nat, NEW p \in SUBSET Int,
           l.open.at # Missing, l.open.meter <= m
    PROVE  LET r == Settle(l, now, m, p)
           IN  \/ Chargeable(l.open, now, m) /\ Booked(r, l, l.open, b, m, p)
               \/ /\ ~Chargeable(l.open, now, m)
                  /\ Continued(r, l, p) \/ (Begun(r, l, m, p) /\ r.open.discard)
<1> DEFINE r == Settle(l, now, m, p)
<1>1. l.open.at \in Int /\ now \in Int /\ l.open.meter \in Nat
  BY LedgerAssumption DEF OpenSound, Times
<1>2. CASE ~Chargeable(l.open, now, m)
  <2>1. r = Quoted(l, now, m, p)
    BY <1>2 DEF Settle
  <2> QED
    BY <1>2, <2>1, QuotedFacts
<1>3. CASE Chargeable(l.open, now, m)
  <2> DEFINE a == Allocate(l, now, m)
  <2>1. r = Baseline(a, now, m, p)
    BY <1>3 DEF Settle
  <2>2. l.open.at < now /\ l.open.meter < m
    BY <1>1, <1>3 DEF Chargeable
  <2>3. /\ a \in Ledgers /\ a.open = l.open /\ a.totals.high = l.totals.high
        /\ a.totals.day = l.totals.day
        /\ BookSound(a.totals, Spread(b, l.open, m), now)
        /\ Energy(Spread(b, l.open, m)) - Energy(b) \in 0 .. m - l.open.meter
        /\ a.totals.daily_energy - l.totals.daily_energy
              \in 0 .. Energy(Spread(b, l.open, m)) - Energy(b)
        /\ DayOf(l.open.at) = DayOf(now) =>
              a.totals.daily_energy - l.totals.daily_energy
                 = Energy(Spread(b, l.open, m)) - Energy(b)
    BY <2>2, AllocateFacts DEF Spread
  <2> HIDE DEF a
  <2>4. Begun(Baseline(a, now, m, p), a, m, p)
    BY <2>3, BaselineFacts
  <2> HIDE DEF r
  <2>5. Begun(r, a, m, p)
    BY <2>1, <2>4, Zenon
  <2>6. /\ r \in Ledgers /\ OpenSound(r.open, After(p), now)
        /\ r.open.at = now /\ r.open.meter = m /\ r.totals = a.totals
    BY <2>5 DEF Begun
  <2>7. Booked(r, l, l.open, b, m, p)
    BY <2>2, <2>3, <2>6 DEF Booked
  <2> QED
    BY <1>3, <2>7 DEF r
<1> QED
  BY <1>2, <1>3

\* An accepted reading raises the high-water mark of a lifetime meter.
LEMMA HighFacts ==
    ASSUME NEW l \in Ledgers, NEW b, NEW t, BookSound(l.totals, b, t),
           NEW x \in Nat \union {Missing}
    PROVE  LET e == [l EXCEPT !.totals.high = x]
           IN  /\ e \in Ledgers /\ e.open = l.open /\ e.totals.high = x
               /\ e.totals.day = l.totals.day /\ e.totals.unit = l.totals.unit
               /\ e.totals.daily_energy = l.totals.daily_energy
               /\ BookSound(e.totals, b, t)
<1> PICK tot \in Totals : tot = l.totals
  BY DEF Ledgers
<1> PICK n : n = [tot EXCEPT !.high = x]
  OBVIOUS
<1> DEFINE e == [l EXCEPT !.totals.high = x]
<1>1. /\ n \in Totals /\ n.high = x /\ n.day = tot.day /\ n.month = tot.month /\ n.unit = tot.unit
      /\ n.daily_energy = tot.daily_energy /\ n.daily_effective = tot.daily_effective
      /\ n.monthly_energy = tot.monthly_energy /\ n.monthly_effective = tot.monthly_effective
  BY DEF Totals
<1>2. e = [l EXCEPT !.totals = n]
  BY Zenon
<1> HIDE DEF e
<1>3. e \in Ledgers /\ e.open = l.open /\ e.totals = n
  BY <1>1, <1>2 DEF Ledgers
<1>4. BookSound(n, b, t)
  <2>1. BookSound(tot, b, t)
    OBVIOUS
  <2>2. Tallied(n, b)
    BY <1>1, <2>1 DEF Tallied, BookSound
  <2> QED
    BY <1>1, <2>1, <2>2 DEF BookSound
<1> QED
  BY <1>1, <1>3, <1>4 DEF e

-----------------------------------------------------------------------------
(* The outcomes of an update.                                                 *)

\* The ledger r has only ended the observation of l.
Ended(r, l, p) ==
    /\ r \in Ledgers /\ r.totals = l.totals /\ OpenSound(r.open, After(p), now)
    /\ r.open.at = Missing

\* The history an update adds to.
Base(l, b, q) == IF Foreign(l, q.unit) THEN NothingBooked ELSE b

(* What an update does, by its verdict: it ends the observation, begins an    *)
(* interval, goes on with the one there is, or books it and begins the next.  *)
Outcome(r, l, b, c, m, q) ==
    LET o == Opened(l, now, q)
        e == Marked(o, m)
        h == Base(l, b, q)
        p == PriceOf(q)
        v == Verdict(o.open, now, m)
        n == FromMidnight(e, now)
    IN  \/ Rejected(o, m) /\ c = h /\ Ended(r, o, p)
        \/ ~Rejected(o, m) /\
              \/ /\ v \in {"first", "gap", "resume", "backward"} /\ c = h /\ Begun(r, e, m, p)
                 /\ v = "gap" => (r.open.discard <=> m = o.open.meter)
              \/ /\ v \in {"stale", "settle"} /\ c = h
                 /\ v = "settle" => ~Chargeable(o.open, now, m)
                 /\ Continued(r, e, p) \/ (Begun(r, e, m, p) /\ r.open.discard)
              \/ /\ v = "midnight" /\ c = h /\ ~Chargeable(n.open, now, m)
                 /\ Continued(r, n, p) \/ (Begun(r, n, m, p) /\ r.open.discard)
              \/ v = "settle" /\ c = Spread(h, o.open, m) /\ Booked(r, e, o.open, h, m, p)
              \/ v = "midnight" /\ c = Spread(h, n.open, m) /\ Booked(r, n, n.open, h, m, p)

\* An accepted reading finds the totals of the current day, all of them booked.
LEMMA MarkedFacts ==
    ASSUME now \in Times, NEW l \in Ledgers, OpenSound(l.open, charge, now),
           NEW b, BookSound(l.totals, b, now), NEW m \in Nat, NEW q \in Quotes
    PROVE  LET o == Opened(l, now, q)
               e == Marked(o, m)
           IN  /\ e \in Ledgers /\ e.open = o.open /\ e.totals.day = DayOf(now)
               /\ e.totals.high = IF Lifetime THEN m ELSE o.totals.high
               /\ e.totals.daily_energy = o.totals.daily_energy
               /\ BookSound(e.totals, Base(l, b, q), now)
<1> DEFINE o == Opened(l, now, q)
           e == Marked(o, m)
           h == Base(l, b, q)
<1>1. o \in Ledgers /\ o.totals.day = DayOf(now)
  BY OpenedFacts
<1>2. BookSound(o.totals, h, now)
  <2>1. BookSound(Opened(l, now, q).totals, IF Foreign(l, q.unit) THEN NothingBooked ELSE b, now)
    BY OpenedSound
  <2> QED
    BY <2>1 DEF Base
<1> PICK x : x = IF Lifetime THEN m ELSE o.totals.high
  OBVIOUS
<1>3. x \in Nat \union {Missing}
  <2>1. o.totals.high \in Nat \union {Missing}
    BY <1>1 DEF Ledgers, Totals
  <2> QED
    BY <2>1
<1>4. e = [o EXCEPT !.totals.high = x]
  BY Zenon DEF Marked
<1> HIDE DEF o, h, e
<1>5. LET z == [o EXCEPT !.totals.high = x]
      IN  /\ z \in Ledgers /\ z.open = o.open /\ z.totals.high = x
          /\ z.totals.day = o.totals.day /\ z.totals.daily_energy = o.totals.daily_energy
          /\ BookSound(z.totals, h, now)
  BY <1>1, <1>2, <1>3, HighFacts
<1>6. /\ e \in Ledgers /\ e.open = o.open /\ e.totals.high = x
      /\ e.totals.day = o.totals.day /\ e.totals.daily_energy = o.totals.daily_energy
      /\ BookSound(e.totals, h, now)
  BY <1>4, <1>5, Zenon
<1> QED
  BY <1>1, <1>6 DEF o, h, e

\* Every update has one of the outcomes.
LEMMA UpdateFacts ==
    ASSUME now \in Times, charge \in [Times -> SUBSET Int], Lifetime \in BOOLEAN,
           NEW l \in Ledgers, OpenSound(l.open, charge, now), NEW b, BookSound(l.totals, b, now),
           NEW m \in Nat \union {Missing}, NEW q \in Quotes, PriceOf(q) \in SUBSET Int
    PROVE  Outcome(Update(l, now, m, q), l, b, BookedAfter(b, l, now, m, q), m, q)
<1> DEFINE o == Opened(l, now, q)
           e == Marked(o, m)
           h == Base(l, b, q)
           p == PriceOf(q)
           v == Verdict(o.open, now, m)
           n == FromMidnight(e, now)
           r == Update(l, now, m, q)
           c == BookedAfter(b, l, now, m, q)
<1>1. o \in Ledgers /\ o.open = Old(l, q).open /\ o.totals.day = DayOf(now)
  BY OpenedFacts
<1>2. BookSound(o.totals, h, now) /\ h \in Histories
  <2>1. BookSound(Opened(l, now, q).totals, IF Foreign(l, q.unit) THEN NothingBooked ELSE b, now)
    BY OpenedSound
  <2> QED
    BY <2>1 DEF Base, BookSound
<1>3. OpenSound(o.open, charge, now)
  BY <1>1, NewLedgerSound DEF Old, NewLedger
<1>4. ASSUME ~Books(l, now, m, q) PROVE c = h
  <2>1. c = [u \in Times |-> h[u]]
    BY <1>4 DEF BookedAfter, Base
  <2> QED
    BY <1>2, <2>1 DEF Histories
<1>5. CASE Rejected(o, m)
  <2>1. r = Unobserved(o)
    BY <1>5 DEF Update
  <2>2. c = h
    BY <1>4, <1>5 DEF Books
  <2> HIDE DEF o, r, c, h
  <2>3. r \in Ledgers /\ r.totals = o.totals /\ r.open.at = Missing
        /\ r.open.segments = << >> /\ r.open \in Opens
    <3> PICK x \in BOOLEAN : x = o.open.discard
      BY <1>1 DEF Ledgers, Opens
    <3> PICK y : y = [NoInterval EXCEPT !.discard = x]
      OBVIOUS
    <3>1. NoInterval \in Opens /\ NoInterval.at = Missing /\ NoInterval.segments = << >>
      BY NewLedgerSound DEF NoInterval, NewLedger, Ledgers
    <3>2. y \in Opens /\ y.at = Missing /\ y.segments = << >>
      BY <3>1 DEF Opens
    <3>3. r = [o EXCEPT !.open = y]
      BY <2>1, Zenon DEF Unobserved
    <3> QED
      BY <1>1, <3>2, <3>3 DEF Ledgers
  <2>4. OpenSound(r.open, After(p), now)
    BY <2>3, LedgerAssumption DEF OpenSound
  <2>5. Ended(r, o, p)
    BY <2>3, <2>4 DEF Ended
  <2> QED
    BY <1>5, <2>2, <2>5 DEF Outcome, o, r, c, h
<1>6. CASE ~Rejected(o, m)
  <2>1. m \in Nat /\ m # Missing
    BY <1>6 DEF Rejected, Missing
  <2>2. r = Observe(e, now, m, p)
    BY <1>6 DEF Update
  <2>3. /\ e \in Ledgers /\ e.open = o.open /\ e.totals.day = DayOf(now)
        /\ BookSound(e.totals, h, now)
    BY <2>1, MarkedFacts
  <2>4. Begun(Baseline(e, now, m, p), e, m, p)
    BY <2>1, <2>3, BaselineFacts
  <2> HIDE DEF o, e, h, p, r, c
  <2>5. CASE v \in {"first", "backward"}
    <3>1. r = Baseline(e, now, m, p)
      BY <2>2, <2>3, <2>5 DEF Observe
    <3>2. ~Books(l, now, m, q)
      BY <2>5 DEF Books, o
    <3>3. Begun(r, e, m, p) /\ c = h
      BY <1>4, <2>4, <3>1, <3>2, Zenon
    <3> QED
      BY <1>6, <2>5, <3>3 DEF Outcome, o, e, h, p, r, c
  <2>6. CASE v = "gap"
    <3>1. r = Discarding(Baseline(e, now, m, p), m = e.open.meter)
      BY <2>2, <2>3, <2>6 DEF Observe
    <3>2. ~Books(l, now, m, q)
      BY <2>6 DEF Books, o
    <3> PICK x \in BOOLEAN : x <=> m = e.open.meter
      OBVIOUS
    <3>3. r = Discarding(Baseline(e, now, m, p), x)
      BY <3>1
    <3>4. Begun(r, e, m, p) /\ (r.open.discard <=> x)
      BY <2>4, <3>3, DiscardingFacts
    <3>5. c = h
      BY <1>4, <3>2
    <3> QED
      BY <1>6, <2>3, <2>6, <3>4, <3>5 DEF Outcome, o, e, h, p, r, c
  <2>7. CASE v = "resume"
    <3>1. r = Discarding(Baseline(e, now, m, p), FALSE) /\ FALSE \in BOOLEAN
      BY <2>2, <2>3, <2>7 DEF Observe
    <3>2. ~Books(l, now, m, q)
      BY <2>7 DEF Books, o
    <3>3. Begun(r, e, m, p)
      BY <2>4, <3>1, DiscardingFacts
    <3>4. c = h
      BY <1>4, <3>2
    <3> QED
      BY <1>6, <2>7, <3>3, <3>4 DEF Outcome, o, e, h, p, r, c
  <2>8. CASE v = "stale"
    <3>1. r = Quoted(e, now, m, p)
      BY <2>2, <2>3, <2>8 DEF Observe
    <3>2. ~Books(l, now, m, q)
      BY <2>8 DEF Books, o
    <3>3. e.open.at # Missing
      BY <2>3, <2>8 DEF Verdict
    <3>4. Continued(r, e, p) \/ (Begun(r, e, m, p) /\ r.open.discard)
      <4>1. LET z == Quoted(e, now, m, p)
            IN  Continued(z, e, p) \/ (Begun(z, e, m, p) /\ z.open.discard)
        BY <1>3, <2>1, <2>3, <3>3, QuotedFacts DEF p
      <4> QED
        BY <3>1, <4>1, Zenon
    <3>5. c = h
      BY <1>4, <3>2
    <3> QED
      BY <1>6, <2>8, <3>4, <3>5 DEF Outcome, o, e, h, p, r, c
  <2>9. CASE v = "settle"
    <3>1. r = Settle(e, now, m, p)
      BY <2>2, <2>3, <2>9 DEF Observe
    <3>2. e.open.at # Missing /\ e.open.meter <= m
      BY <1>3, <2>1, <2>3, <2>9 DEF Verdict, OpenSound
    <3>3. LET z == Settle(e, now, m, p)
          IN  \/ Chargeable(e.open, now, m) /\ Booked(z, e, e.open, h, m, p)
              \/ /\ ~Chargeable(e.open, now, m)
                 /\ Continued(z, e, p) \/ (Begun(z, e, m, p) /\ z.open.discard)
      BY <1>3, <2>1, <2>3, <3>2, SettleFacts DEF p
    <3>4. Closing(l, now, m, q) = o.open
      BY <2>9 DEF Closing, o
    <3>5. Books(l, now, m, q) <=> Chargeable(o.open, now, m)
      BY <1>6, <2>9, <3>4 DEF Books, o
    <3>6. CASE Chargeable(o.open, now, m)
      <4>1. c = Spread(h, o.open, m)
        BY <3>4, <3>5, <3>6 DEF c, h, BookedAfter, Base, Spread
      <4>2. Booked(r, e, o.open, h, m, p)
        BY <2>3, <3>1, <3>3, <3>6, Zenon
      <4> QED
        BY <1>6, <2>9, <4>1, <4>2 DEF Outcome, o, e, h, p, r, c
    <3>7. CASE ~Chargeable(o.open, now, m)
      <4>1. c = h
        BY <1>4, <3>5, <3>7
      <4>2. Continued(r, e, p) \/ (Begun(r, e, m, p) /\ r.open.discard)
        BY <2>3, <3>1, <3>3, <3>7, Zenon
      <4> QED
        BY <1>6, <2>9, <3>7, <4>1, <4>2 DEF Outcome, o, e, h, p, r, c
    <3> QED
      BY <3>6, <3>7
  <2>10. CASE v = "midnight"
    <3>1. r = Settle(n, now, m, p)
      BY <2>2, <2>3, <2>10 DEF Observe
    <3>2. e.open.at # Missing /\ DayOf(e.open.at) # DayOf(now)
      BY <2>3, <2>10 DEF Verdict
    <3>3. /\ n \in Ledgers /\ n.totals = e.totals /\ OpenSound(n.open, charge, now)
          /\ n.open.at = Midnight(now) /\ n.open.meter = 0
      BY <1>3, <2>3, <3>2, MidnightFacts
    <3>4. FromMidnight(o, now).open = n.open
      BY <1>1, <2>3 DEF FromMidnight, Ledgers
    <3> HIDE DEF n
    <3>5. n.open.at # Missing /\ n.open.meter <= m
      <4>1. Midnight(now) \in Nat
        BY Calendar, LedgerAssumption DEF Times
      <4> QED
        BY <2>1, <3>3, <4>1 DEF Missing
    <3>6. LET z == Settle(n, now, m, p)
          IN  \/ Chargeable(n.open, now, m) /\ Booked(z, n, n.open, h, m, p)
              \/ /\ ~Chargeable(n.open, now, m)
                 /\ Continued(z, n, p) \/ (Begun(z, n, m, p) /\ z.open.discard)
      BY <2>1, <2>3, <3>3, <3>5, SettleFacts DEF p
    <3>7. Closing(l, now, m, q) = n.open
      BY <2>10, <3>4 DEF Closing, o
    <3>8. Books(l, now, m, q) <=> Chargeable(n.open, now, m)
      BY <1>6, <2>10, <3>7 DEF Books, o
    <3>9. CASE Chargeable(n.open, now, m)
      <4>1. c = Spread(h, n.open, m)
        BY <3>7, <3>8, <3>9 DEF c, h, BookedAfter, Base, Spread
      <4>2. Booked(r, n, n.open, h, m, p)
        BY <3>1, <3>6, <3>9, Zenon
      <4> QED
        BY <1>6, <2>10, <4>1, <4>2 DEF Outcome, o, e, h, p, r, c, n
    <3>10. CASE ~Chargeable(n.open, now, m)
      <4>1. c = h
        BY <1>4, <3>8, <3>10
      <4>2. Continued(r, n, p) \/ (Begun(r, n, m, p) /\ r.open.discard)
        BY <3>1, <3>6, <3>10, Zenon
      <4> QED
        BY <1>6, <2>10, <3>10, <4>1, <4>2 DEF Outcome, o, e, h, p, r, c, n
    <3> QED
      BY <3>9, <3>10
  <2>11. v \in {"first", "gap", "resume", "stale", "settle", "midnight", "backward"}
    BY DEF Verdict
  <2> QED
    BY <2>5, <2>6, <2>7, <2>8, <2>9, <2>10, <2>11
<1> QED
  BY <1>5, <1>6

-----------------------------------------------------------------------------
(* An update, and a lifetime meter.                                           *)

\* An update keeps the open interval and the totals sound.
LEMMA UpdateSound ==
    ASSUME now \in Times, charge \in [Times -> SUBSET Int], Lifetime \in BOOLEAN,
           NEW l \in Ledgers, OpenSound(l.open, charge, now), NEW b, BookSound(l.totals, b, now),
           NEW m \in Nat \union {Missing}, NEW q \in Quotes, PriceOf(q) \in SUBSET Int
    PROVE  LET r == Update(l, now, m, q)
           IN  /\ r \in Ledgers /\ OpenSound(r.open, After(PriceOf(q)), now)
               /\ BookSound(r.totals, BookedAfter(b, l, now, m, q), now)
<1> DEFINE o == Opened(l, now, q)
           e == Marked(o, m)
           h == Base(l, b, q)
           p == PriceOf(q)
           v == Verdict(o.open, now, m)
           n == FromMidnight(e, now)
           r == Update(l, now, m, q)
           c == BookedAfter(b, l, now, m, q)
<1>1. Outcome(r, l, b, c, m, q)
  BY UpdateFacts
<1>2. o \in Ledgers /\ o.open = Old(l, q).open /\ BookSound(o.totals, h, now)
  BY OpenedFacts, OpenedSound DEF Base
<1>3. CASE Rejected(o, m)
  <2>1. c = h /\ Ended(r, o, p)
    BY <1>1, <1>3 DEF Outcome
  <2> HIDE DEF o, h, p, r, c
  <2> QED
    BY <1>2, <2>1, Zenon DEF Ended, p, r, c
<1>4. CASE ~Rejected(o, m)
  <2>1. m \in Nat
    BY <1>4 DEF Rejected
  <2>2. e \in Ledgers /\ e.open = o.open /\ BookSound(e.totals, h, now)
    BY <2>1, MarkedFacts
  <2>3. ASSUME v = "midnight" PROVE n.totals = e.totals
    <3>1. OpenSound(e.open, charge, now)
      BY <1>2, <2>2, NewLedgerSound DEF Old, NewLedger
    <3>2. e.open.at # Missing /\ DayOf(e.open.at) # DayOf(now)
      BY <2>2, <2>3 DEF Verdict
    <3> QED
      BY <2>2, <3>1, <3>2, MidnightFacts
  <2> HIDE DEF o, e, h, p, v, n, r, c
  <2>4. \/ c = h /\ Begun(r, e, m, p)
        \/ c = h /\ Continued(r, e, p)
        \/ v = "midnight" /\ c = h /\ (Continued(r, n, p) \/ Begun(r, n, m, p))
        \/ c = Spread(h, o.open, m) /\ Booked(r, e, o.open, h, m, p)
        \/ c = Spread(h, n.open, m) /\ Booked(r, n, n.open, h, m, p)
    BY <1>1, <1>4 DEF Outcome, o, e, h, p, v, n
  <2>5. \/ c = h /\ r \in Ledgers /\ r.totals = e.totals /\ OpenSound(r.open, After(p), now)
        \/ r \in Ledgers /\ BookSound(r.totals, c, now) /\ OpenSound(r.open, After(p), now)
    BY <2>3, <2>4, Zenon DEF Begun, Continued, Booked
  <2> QED
    BY <2>2, <2>5, Zenon DEF p, r, c
<1> QED
  BY <1>3, <1>4

\* A reading, a mark or nothing.
Known(x) == IF x = Missing THEN 0 ELSE x

\* What a lifetime meter has shown at the end of what has been priced.
Floor(l) == IF l.open.at # Missing THEN l.open.meter ELSE Known(l.totals.high)

(* A lifetime meter: nothing above the mark of the meter that began when B    *)
(* had flowed has been priced.                                                *)
Priced(b, l, B) ==
    /\ Energy(b) <= B + Floor(l)
    /\ l.open.at # Missing => l.totals.high # Missing /\ l.open.meter <= l.totals.high

\* An update with a reading that has flowed prices nothing above the mark.
LEMMA LifetimeRead ==
    ASSUME now \in Times, charge \in [Times -> SUBSET Int], Lifetime,
           NEW l \in Ledgers, OpenSound(l.open, charge, now), NEW b, BookSound(l.totals, b, now),
           NEW m \in Nat \union {Missing}, NEW q \in Quotes, PriceOf(q) \in SUBSET Int,
           NEW B \in Nat, NEW F \in Nat, Priced(b, l, B),
           B + Known(l.totals.high) <= F, B + Known(m) <= F
    PROVE  LET r == Update(l, now, m, q)
           IN  /\ Priced(BookedAfter(b, l, now, m, q), r, B)
               /\ B + Known(r.totals.high) <= F
<1> DEFINE o == Opened(l, now, q)
           e == Marked(o, m)
           h == Base(l, b, q)
           p == PriceOf(q)
           v == Verdict(o.open, now, m)
           r == Update(l, now, m, q)
           c == BookedAfter(b, l, now, m, q)
<1>1. Outcome(r, l, b, c, m, q)
  BY UpdateFacts
<1>2. /\ o \in Ledgers /\ o.open = Old(l, q).open /\ o.totals.high = Old(l, q).totals.high
      /\ h \in Histories
  BY OpenedFacts, OpenedSound DEF Base, BookSound
<1>3. Priced(h, o, B) /\ B + Known(o.totals.high) <= F
  <2>1. CASE Foreign(l, q.unit)
    <3>1. h = NothingBooked /\ o.open.at = Missing /\ o.totals.high = Missing
      BY <1>2, <2>1 DEF Old, Base, NewLedger, NoInterval, NoTotals
    <3>2. Energy(h) = 0 /\ Known(o.totals.high) = 0 /\ Floor(o) = 0
      BY <3>1, NewLedgerSound DEF Known, Floor
    <3>3. Known(m) \in Nat
      BY DEF Known
    <3> QED
      BY <3>1, <3>2, <3>3 DEF Priced
  <2>2. CASE ~Foreign(l, q.unit)
    BY <1>2, <2>2 DEF Old, Base, Priced, Floor
  <2> QED
    BY <2>1, <2>2
<1>4. OpenSound(o.open, charge, now)
  BY <1>2, NewLedgerSound DEF Old, NewLedger
<1>5. /\ o.totals.high \in Nat \union {Missing} /\ Energy(h) \in Nat
      /\ o.open.at # Missing => o.open.meter \in Nat
  BY <1>2, <1>4, HistoryFacts DEF Ledgers, Totals, OpenSound, Energy
<1>6. CASE Rejected(o, m)
  <2>1. c = h /\ r.totals = o.totals /\ r.open.at = Missing
    BY <1>1, <1>6 DEF Outcome, Ended
  <2> HIDE DEF o, h, r, c
  <2>2. Known(r.totals.high) = Known(o.totals.high) /\ Floor(r) = Known(o.totals.high)
    BY <2>1 DEF Floor
  <2>3. Energy(c) = Energy(h)
    BY <2>1
  <2>4. Energy(h) <= B + Known(o.totals.high)
    BY <1>3, <1>5 DEF Priced, Floor, Known, Missing
  <2> QED
    BY <1>3, <2>1, <2>2, <2>3, <2>4 DEF Priced, r, c
<1>7. CASE ~Rejected(o, m)
  <2>1. /\ m \in Nat /\ m # Missing /\ Known(m) = m
        /\ o.totals.high = Missing \/ o.totals.high <= m
    BY <1>5, <1>7 DEF Rejected, Missing, Known
  <2>2. e \in Ledgers /\ e.open = o.open /\ e.totals.high = m
    BY <2>1, MarkedFacts
  <2>3. v # "midnight"
    BY DEF Verdict
  <2>4. Energy(h) <= B + m
    BY <1>3, <1>5, <2>1 DEF Priced, Floor, Known, Missing
  <2> HIDE DEF o, e, h, p, v, r, c
  <2>5. \/ c = h /\ Begun(r, e, m, p)
        \/ c = h /\ Continued(r, e, p) /\ v \in {"stale", "settle"}
        \/ c = Spread(h, o.open, m) /\ Booked(r, e, o.open, h, m, p)
    BY <1>1, <1>7, <2>3 DEF Outcome, o, e, h, p, v
  <2>6. CASE c = h /\ Begun(r, e, m, p)
    <3>1. r.totals.high = m /\ r.open.at # Missing /\ r.open.meter = m /\ Energy(c) = Energy(h)
      BY <2>2, <2>6, LedgerAssumption DEF Begun, Missing, Times
    <3> QED
      BY <2>1, <2>4, <3>1 DEF Priced, Floor, Known, r, c
  <2>7. CASE c = h /\ Continued(r, e, p) /\ v \in {"stale", "settle"}
    <3>1. /\ r.totals.high = m /\ r.open.at = o.open.at /\ r.open.meter = o.open.meter
          /\ Energy(c) = Energy(h) /\ o.open.at # Missing
      BY <2>2, <2>7 DEF Continued, Verdict, v
    <3>2. Energy(h) <= B + o.open.meter /\ o.open.meter <= m
      BY <1>3, <1>5, <2>1, <3>1 DEF Priced, Floor
    <3> QED
      BY <2>1, <3>1, <3>2 DEF Priced, Floor, Known, r, c
  <2>8. CASE c = Spread(h, o.open, m) /\ Booked(r, e, o.open, h, m, p)
    <3>1. /\ r.totals.high = m /\ r.open.at # Missing /\ r.open.meter = m
          /\ o.open.at # Missing /\ Energy(c) - Energy(h) \in 0 .. m - o.open.meter
      BY <2>2, <2>8, LedgerAssumption DEF Booked, Missing, Times
    <3>2. BookSound(r.totals, c, now)
      BY <2>8 DEF Booked
    <3>3. Energy(c) \in Nat
      BY <3>2, HistoryFacts DEF BookSound, Energy
    <3>4. Energy(h) <= B + o.open.meter
      BY <1>3, <3>1 DEF Priced, Floor
    <3>5. Energy(c) <= B + m
      BY <1>5, <2>1, <3>1, <3>3, <3>4
    <3> QED
      BY <2>1, <3>1, <3>5 DEF Priced, Floor, Known, r, c
  <2> QED
    BY <2>5, <2>6, <2>7, <2>8
<1> QED
  BY <1>6, <1>7

-----------------------------------------------------------------------------
(* An update, and a source of today's energy.                                 *)

\* What totals say of the current day.
Today(tot) == IF tot.day = DayOf(now) THEN tot.daily_energy ELSE 0

(* A source of today's energy: the day holds no more than its meter, and the  *)
(* open interval begins where the day's energy ends.                          *)
Dated(b, l, W) ==
    /\ Today(l.totals) <= register /\ Energy(b) <= W + Today(l.totals)
    /\ l.open.at # Missing =>
          Today(l.totals) <= IF DayOf(l.open.at) = DayOf(now) THEN l.open.meter ELSE 0

\* The reading m of a source that has not fallen back, and the open interval before it.
Shown(l, m) ==
    m # Missing =>
        /\ Today(l.totals) <= m
        /\ l.open.at # Missing /\ (m < l.open.meter
                                   \/ (DayOf(l.open.at) = DayOf(now) /\ m > l.open.meter))
              => m <= register

\* The reading m and the open interval after it.
UpTo(l, m) ==
    m # Missing =>
        /\ Today(l.totals) <= m
        /\ l.open.at # Missing =>
              /\ l.open.meter <= m
              /\ DayOf(l.open.at) # DayOf(now) \/ l.open.meter = m \/ m <= register

\* An update with a reading of a source that has not fallen back keeps the day within it.
LEMMA DailyRead ==
    ASSUME now \in Times, charge \in [Times -> SUBSET Int], Lifetime \in BOOLEAN, ~Lifetime,
           NEW l \in Ledgers, OpenSound(l.open, charge, now), NEW b, BookSound(l.totals, b, now),
           NEW m \in Nat \union {Missing}, NEW q \in Quotes, PriceOf(q) \in SUBSET Int,
           NEW W \in Nat, register \in Nat, Dated(b, l, W), Shown(l, m)
    PROVE  LET r == Update(l, now, m, q)
           IN  Dated(BookedAfter(b, l, now, m, q), r, W) /\ UpTo(r, m)
<1> DEFINE o == Opened(l, now, q)
           e == Marked(o, m)
           h == Base(l, b, q)
           p == PriceOf(q)
           v == Verdict(o.open, now, m)
           n == FromMidnight(e, now)
           r == Update(l, now, m, q)
           c == BookedAfter(b, l, now, m, q)
           d == DayOf(now)
           T == o.totals.daily_energy
<1>1. Outcome(r, l, b, c, m, q)
  BY UpdateFacts
<1>2. /\ o \in Ledgers /\ o.open = Old(l, q).open /\ o.totals.day = d
      /\ T = Today(Old(l, q).totals) /\ h \in Histories
  BY OpenedFacts, OpenedSound DEF Base, BookSound, Today
<1>3. OpenSound(o.open, charge, now)
  BY <1>2, NewLedgerSound DEF Old, NewLedger
<1>4. /\ T \in Nat /\ Energy(h) \in Nat /\ d \in Nat
      /\ o.open.at # Missing => /\ o.open.meter \in Nat /\ o.open.at \in Times
                                /\ DayOf(o.open.at) \in Nat
  BY <1>2, <1>3, HistoryFacts, Calendar DEF Ledgers, Totals, OpenSound, Energy
<1>5. /\ T <= register /\ Energy(h) <= W + T
      /\ o.open.at # Missing => T <= IF DayOf(o.open.at) = d THEN o.open.meter ELSE 0
      /\ m # Missing => /\ T <= m
                        /\ o.open.at # Missing /\ (m < o.open.meter
                                                   \/ (DayOf(o.open.at) = d /\ m > o.open.meter))
                              => m <= register
  <2>1. CASE Foreign(l, q.unit)
    <3>1. h = NothingBooked /\ o.open.at = Missing /\ Old(l, q).totals = NoTotals
      BY <1>2, <2>1 DEF Old, Base, NewLedger, NoInterval
    <3>2. Energy(h) = 0 /\ T = 0
      BY <1>2, <3>1, NewLedgerSound DEF Today, NoTotals
    <3>3. m # Missing => m >= 0
      OBVIOUS
    <3> HIDE DEF T, h, o
    <3> QED
      BY <3>1, <3>2, <3>3
  <2>2. CASE ~Foreign(l, q.unit)
    <3>1. h = b /\ o.open = l.open /\ T = Today(l.totals)
      BY <1>2, <2>2 DEF Old, Base
    <3> HIDE DEF T, h, o
    <3> QED
      BY <3>1 DEF Dated, Shown
  <2> QED
    BY <2>1, <2>2
<1>6. CASE Rejected(o, m)
  <2>1. c = h /\ r.totals = o.totals /\ r.open.at = Missing /\ m = Missing
    BY <1>1, <1>6 DEF Outcome, Ended, Rejected
  <2> HIDE DEF h, r, c, d
  <2>2. Today(r.totals) = T
    BY <1>2, <2>1 DEF Today, d
  <2> HIDE DEF T, o
  <2> QED
    BY <1>5, <2>1, <2>2 DEF Dated, UpTo, r, c
<1>7. CASE ~Rejected(o, m)
  <2>1. m \in Nat /\ m # Missing
    BY <1>7 DEF Rejected, Missing
  <2>2. /\ e \in Ledgers /\ e.open = o.open /\ e.totals.day = d /\ e.totals.daily_energy = T
    BY <2>1, MarkedFacts
  <2>3. ASSUME v = "midnight"
        PROVE  /\ n.totals = e.totals /\ n.open.at = Midnight(now) /\ n.open.meter = 0
               /\ o.open.at # Missing /\ m < o.open.meter /\ DayOf(o.open.at) # d
               /\ Midnight(now) \in Times /\ DayOf(Midnight(now)) = d
    <3>1. OpenSound(e.open, charge, now)
      BY <1>3, <2>2
    <3>2. e.open.at # Missing /\ DayOf(e.open.at) # d /\ ~ (m >= o.open.meter)
      BY <2>2, <2>3 DEF Verdict
    <3>3. n.totals = e.totals /\ n.open.at = Midnight(now) /\ n.open.meter = 0
      BY <2>2, <3>1, <3>2, MidnightFacts
    <3>4. m < o.open.meter
      BY <1>4, <2>1, <2>2, <3>2
    <3> QED
      BY <2>2, <3>2, <3>3, <3>4, Calendar
  <2>4. ASSUME v = "stale"
        PROVE  o.open.at # Missing /\ o.open.meter <= m /\ DayOf(o.open.at) # d
    BY <1>4, <2>1, <2>4 DEF Verdict
  <2>5. ASSUME v = "settle"
        PROVE  o.open.at # Missing /\ o.open.meter <= m /\ DayOf(o.open.at) = d
    BY <1>4, <2>1, <2>5 DEF Verdict
  <2> HIDE DEF o, e, h, p, v, n, r, c, T
  <2>6. /\ T <= register /\ Energy(h) <= W + T /\ T <= m
        /\ o.open.at # Missing => T <= IF DayOf(o.open.at) = d THEN o.open.meter ELSE 0
        /\ o.open.at # Missing /\ m < o.open.meter => m <= register
        /\ o.open.at # Missing /\ DayOf(o.open.at) = d /\ m > o.open.meter => m <= register
    <3>1. T <= register /\ Energy(h) <= W + T
      BY <1>5
    <3>2. o.open.at # Missing => T <= IF DayOf(o.open.at) = d THEN o.open.meter ELSE 0
      BY <1>5
    <3>3. T <= m
      BY <1>5, <2>1
    <3>4. o.open.at # Missing /\ m < o.open.meter => m <= register
      BY <1>5, <2>1
    <3>5. o.open.at # Missing /\ DayOf(o.open.at) = d /\ m > o.open.meter => m <= register
      BY <1>5, <2>1
    <3> QED
      BY <3>1, <3>2, <3>3, <3>4, <3>5
(* Nothing is booked and an interval begins now. *)
  <2>7. ASSUME c = h, NEW z, z.totals = e.totals, Begun(r, z, m, p)
        PROVE  Dated(c, r, W) /\ UpTo(r, m)
    <3>1. Today(r.totals) = T /\ r.open.at = now /\ r.open.meter = m /\ now # Missing
      BY <2>2, <2>7, LedgerAssumption DEF Begun, Today, d, Times, Missing
    <3> HIDE DEF d
    <3> QED
      BY <1>4, <2>1, <2>6, <2>7, <3>1 DEF Dated, UpTo, d
(* Nothing is booked and the interval goes on. *)
  <2>8. ASSUME c = h, Continued(r, e, p), v \in {"stale", "settle"}
        PROVE  Dated(c, r, W) /\ UpTo(r, m)
    <3>1. Today(r.totals) = T /\ r.open.at = o.open.at /\ r.open.meter = o.open.meter
      BY <2>2, <2>8 DEF Continued, Today, d
    <3> HIDE DEF d
    <3>2. Dated(c, r, W)
      BY <1>4, <2>6, <2>8, <3>1 DEF Dated, d
    <3>3. o.open.at # Missing /\ o.open.meter <= m
      BY <2>4, <2>5, <2>8
    <3>4. DayOf(o.open.at) # d \/ o.open.meter = m \/ m <= register
      BY <1>4, <2>1, <2>6, <3>3
    <3>5. UpTo(r, m)
      BY <2>6, <3>1, <3>3, <3>4 DEF UpTo, d
    <3> QED
      BY <3>2, <3>5
  <2>9. ASSUME c = h, Continued(r, n, p), v = "midnight"
        PROVE  Dated(c, r, W) /\ UpTo(r, m)
    <3>1. /\ Today(r.totals) = T /\ r.open.at = Midnight(now) /\ r.open.meter = 0
          /\ m <= register /\ T = 0
      BY <1>4, <2>2, <2>3, <2>6, <2>9 DEF Continued, Today, d
    <3>2. DayOf(r.open.at) = d /\ 0 <= m
      BY <2>1, <2>3, <2>9, <3>1
    <3> HIDE DEF d
    <3> QED
      BY <1>4, <2>1, <2>6, <2>9, <3>1, <3>2 DEF Dated, UpTo, d
(* The interval x is booked; what it gained belongs to the current day. *)
  <2>10. ASSUME NEW z, z.totals = e.totals, NEW x, c = Spread(h, x, m), Booked(r, z, x, h, m, p),
                DayOf(x.at) = d, x.meter \in Nat, T <= x.meter, m <= register
         PROVE  Dated(c, r, W) /\ UpTo(r, m)
    <3>1. /\ r.open.at = now /\ r.open.meter = m /\ now # Missing /\ r.totals.day = d
          /\ BookSound(r.totals, c, now) /\ x.meter < m
          /\ Energy(c) - Energy(h) \in 0 .. m - x.meter
          /\ r.totals.daily_energy - T = Energy(c) - Energy(h)
      BY <2>2, <2>10, LedgerAssumption DEF Booked, d, Times, Missing
    <3>2. Energy(c) \in Nat /\ r.totals.daily_energy \in Nat
      BY <3>1, HistoryFacts DEF BookSound, Totals, Energy
    <3>3. Today(r.totals) = r.totals.daily_energy
      BY <3>1 DEF Today, d
    <3>4. Energy(c) <= W + r.totals.daily_energy /\ r.totals.daily_energy <= m
      <4> PICK i \in Nat : i = Energy(c)
        BY <3>2
      <4> PICK j \in Nat : j = r.totals.daily_energy
        BY <3>2
      <4> QED
        BY <1>4, <2>1, <2>6, <2>10, <3>1
    <3>5. r.totals.daily_energy <= register
      BY <2>1, <2>10, <3>2, <3>4
    <3> HIDE DEF d
    <3> QED
      BY <1>4, <3>1, <3>3, <3>4, <3>5, <2>1, <2>10, <3>2 DEF Dated, UpTo, d
  <2>11. CASE v \in {"first", "gap", "resume", "backward"}
    <3>1. c = h /\ Begun(r, e, m, p)
      BY <1>1, <1>7, <2>11 DEF Outcome, o, e, h, p, v
    <3> QED
      BY <2>7, <3>1 DEF r, c
  <2>12. CASE v = "stale"
    <3>1. c = h /\ (Continued(r, e, p) \/ Begun(r, e, m, p))
      BY <1>1, <1>7, <2>12 DEF Outcome, o, e, h, p, v
    <3> QED
      BY <2>7, <2>8, <2>12, <3>1 DEF r, c
  <2>13. CASE v = "settle"
    <3>1. \/ c = h /\ (Continued(r, e, p) \/ Begun(r, e, m, p))
          \/ c = Spread(h, o.open, m) /\ Booked(r, e, o.open, h, m, p)
      BY <1>1, <1>7, <2>13 DEF Outcome, o, e, h, p, v
    <3>2. CASE c = h /\ (Continued(r, e, p) \/ Begun(r, e, m, p))
      BY <2>7, <2>8, <2>13, <3>2 DEF r, c
    <3>3. CASE c = Spread(h, o.open, m) /\ Booked(r, e, o.open, h, m, p)
      <4>1. o.open.meter < m
        BY <3>3 DEF Booked
      <4>2. m <= register /\ T <= o.open.meter
        BY <1>4, <2>1, <2>5, <2>6, <2>13, <4>1
      <4> QED
        BY <1>4, <2>5, <2>10, <2>13, <3>3, <4>2 DEF r, c
    <3> QED
      BY <3>1, <3>2, <3>3
  <2>14. CASE v = "midnight"
    <3>1. \/ c = h /\ (Continued(r, n, p) \/ Begun(r, n, m, p))
          \/ c = Spread(h, n.open, m) /\ Booked(r, n, n.open, h, m, p)
      BY <1>1, <1>7, <2>14 DEF Outcome, o, e, h, p, v, n
    <3>2. CASE c = h /\ (Continued(r, n, p) \/ Begun(r, n, m, p))
      BY <2>3, <2>7, <2>9, <2>14, <3>2 DEF r, c
    <3>3. CASE c = Spread(h, n.open, m) /\ Booked(r, n, n.open, h, m, p)
      <4>1. m <= register /\ T <= n.open.meter /\ n.open.meter \in Nat /\ DayOf(n.open.at) = d
        BY <1>4, <2>3, <2>6, <2>14
      <4> QED
        BY <2>3, <2>10, <2>14, <3>3, <4>1 DEF r, c
    <3> QED
      BY <3>1, <3>2, <3>3
  <2>15. v \in {"first", "gap", "resume", "stale", "settle", "midnight", "backward"}
    BY DEF Verdict, v
  <2> QED
    BY <2>11, <2>12, <2>13, <2>14, <2>15
<1> QED
  BY <1>6, <1>7

-----------------------------------------------------------------------------
(* Types and soundness.                                                       *)

Seen == [value : Nat \union {Missing}, mark : Nat, at : Times, broken : BOOLEAN,
         excluded : Int, fell : BOOLEAN]

Types ==
    /\ scenario \in Scenarios /\ quote \in Quotes /\ running \in BOOLEAN
    /\ now \in Times /\ register \in Nat /\ meterBase \in Nat
    /\ reported \in Nat \union {Missing} /\ seen \in Seen
    /\ charge \in [Times -> SUBSET Int]
    /\ ledger \in Ledgers /\ file \in Totals

\* The totals in the file, as the ledger that is restored from them.
Restored == [totals |-> file, open |-> NoInterval]

Sound ==
    /\ OpenSound(ledger.open, charge, now) /\ BookSound(ledger.totals, booked, now)
    /\ BookSound(file, fileBooked, now)

\* Every scenario has a kind of source, and prices that are sets of integers.
LEMMA ScenarioFacts ==
    ASSUME scenario \in Scenarios
    PROVE  Lifetime \in BOOLEAN /\ \A q \in Quotes : PriceOf(q) \in SUBSET Int
BY LedgerAssumption DEF Lifetime, Quotes, PriceOf, NoPrice

\* What is restored from the file is a sound ledger.
LEMMA RestoredFacts ==
    ASSUME Types, Sound
    PROVE  /\ Restored \in Ledgers /\ OpenSound(Restored.open, charge, now)
           /\ BookSound(Restored.totals, fileBooked, now)
           /\ Restored.open.at = Missing /\ Restored.totals = file
BY NewLedgerSound DEF Types, Sound, Restored, Ledgers, NewLedger, NoInterval

\* A reading keeps the ledger, its history and the prices in force together.
LEMMA ReadSound ==
    ASSUME Types, NEW l \in Ledgers, OpenSound(l.open, charge, now),
           NEW b, BookSound(l.totals, b, now),
           NEW m \in Nat \union {Missing}, NEW q \in Quotes, Read(l, b, m, q)
    PROVE  /\ ledger' \in Ledgers /\ charge' \in [Times -> SUBSET Int]
           /\ OpenSound(ledger'.open, charge', now) /\ BookSound(ledger'.totals, booked', now)
<1>1. Lifetime \in BOOLEAN /\ PriceOf(q) \in SUBSET Int
  BY ScenarioFacts DEF Types
<1> DEFINE r == Update(l, now, m, q)
           c == BookedAfter(b, l, now, m, q)
           p == PriceOf(q)
<1>2. r \in Ledgers /\ OpenSound(r.open, After(p), now) /\ BookSound(r.totals, c, now)
  BY <1>1, UpdateSound DEF Types
<1>3. ledger' = r /\ booked' = c /\ charge' = After(p)
  BY DEF Read, After
<1> HIDE DEF r, c, p
<1>4. After(p) \in [Times -> SUBSET Int]
  BY <1>1 DEF After, Types, p
<1> QED
  BY <1>2, <1>3, <1>4, Zenon

\* Every reading is a number or missing.
LEMMA ReadingFacts ==
    ASSUME Types, NEW m \in Readings
    PROVE  m \in Nat \union {Missing}
BY DEF Types, Readings, Seen, Missing

\* The witness keeps its type.
LEMMA WitnessFacts ==
    ASSUME Types, NEW m \in Nat \union {Missing}
    PROVE  Witness(m) \in Seen
<1> PICK s \in Seen : s = seen
  BY DEF Types
<1> DEFINE mark == meterBase + m
           fell == s.fell \/ m \notin {register, Missing}
<1>1. now \in Times /\ meterBase \in Nat /\ register \in Nat
  BY DEF Types
<1>2. fell \in BOOLEAN
  BY DEF Seen
<1> HIDE DEF fell
<1>3. CASE m = Missing \/ (Lifetime /\ m < s.value)
  <2>1. Witness(m) = [s EXCEPT !.broken = TRUE, !.fell = fell]
    BY <1>3 DEF Witness, fell
  <2> QED
    BY <1>2, <2>1 DEF Seen
<1>4. CASE ~ (m = Missing \/ (Lifetime /\ m < s.value))
  <2> DEFINE at == IF mark # s.mark \/ s.broken THEN now ELSE s.at
             broken == s.broken /\ mark = s.mark /\ m < register
             excluded == IF s.broken \/ now - s.at > MaxGap
                         THEN s.excluded + (mark - s.mark) ELSE s.excluded
  <2>1. Witness(m) = [fell |-> fell, value |-> m, mark |-> mark, at |-> at,
                      broken |-> broken, excluded |-> excluded]
    BY <1>4 DEF Witness, fell
  <2>2. m \in Nat /\ mark \in Nat /\ at \in Times /\ excluded \in Int
    BY <1>1, <1>4 DEF Seen
  <2>3. broken \in BOOLEAN
    BY DEF Seen
  <2> HIDE DEF mark, at, broken, excluded
  <2> QED
    BY <1>2, <2>1, <2>2, <2>3 DEF Seen
<1> QED
  BY <1>3, <1>4

\* What depends on the scenario alone stays with it.
LEMMA TotalsSame ==
    ASSUME scenario' = scenario
    PROVE  /\ Totals' = Totals /\ Ledgers' = Ledgers /\ Quotes' = Quotes /\ Lifetime' = Lifetime
           /\ Faults' = Faults
<1>1. Quotes' = Quotes /\ Lifetime' = Lifetime /\ Faults' = Faults
  BY DEF Quotes, Lifetime, Faults
<1>2. Totals' = Totals
  BY <1>1, Zenon DEF Totals
<1>3. Ledgers' = Ledgers
  BY <1>2, Zenon DEF Ledgers
<1> QED
  BY <1>1, <1>2, <1>3

\* BookSound depends on no other variable than the scenario.
LEMMA SoundSame ==
    ASSUME scenario' = scenario, NEW tot, NEW b, NEW t
    PROVE  BookSound(tot, b, t)' <=> BookSound(tot, b, t)
BY TotalsSame, Zenon DEF BookSound

\* Time goes on.
LEMMA SoundLater ==
    ASSUME NEW t \in Times, t + 1 \in Times, NEW tot, NEW b, BookSound(tot, b, t)
    PROVE  BookSound(tot, b, t + 1)
<1>1. DayOf(t) \in Nat /\ DayOf(t + 1) \in Nat /\ DayOf(t) <= DayOf(t + 1)
  <2>1. t <= t + 1
    BY LedgerAssumption DEF Times
  <2> QED
    BY <2>1, Calendar
<1>2. tot.day \in Int
  BY LedgerAssumption, Calendar DEF BookSound, Totals, Missing, Days
<1> QED
  BY <1>1, <1>2 DEF BookSound

\* An open interval stays sound as time passes.
LEMMA OpenLater ==
    ASSUME NEW t \in Times, t + 1 \in Times, NEW o, NEW c, OpenSound(o, c, t)
    PROVE  OpenSound(o, c, t + 1)
<1>1. t \in Int /\ \A u \in Times : u \in Int
  BY LedgerAssumption DEF Times
<1>2. CASE o.at = Missing /\ o.segments = << >>
  BY <1>2 DEF OpenSound
<1>3. CASE ~ (o.at = Missing /\ o.segments = << >>)
  <2>1. o.segments \in Segments /\ InOrder(o.segments, o.at, t) /\ o.at \in Times /\ o.at <= t
    BY <1>3 DEF OpenSound, Opens
  <2>2. o.segments[Len(o.segments)].at \in Int
    BY <2>1, SegmentFacts DEF InOrder
  <2>3. InOrder(o.segments, o.at, t + 1) /\ o.at <= t + 1
    <3>1. \A x \in Int : x <= t => x <= t + 1
      BY <1>1
    <3>2. o.at \in Int
      BY <1>1, <2>1
    <3> PICK s : s = o.segments
      OBVIOUS
    <3> QED
      BY <2>1, <2>2, <3>1, <3>2 DEF InOrder
  <2> QED
    BY <1>3, <2>3 DEF OpenSound
<1> QED
  BY <1>2, <1>3

\* A confirmed replacement ends the observation and starts the mark anew.
LEMMA ConfirmFacts ==
    ASSUME NEW l \in Ledgers, NEW b, now \in Times, BookSound(l.totals, b, now), NEW m \in Nat
    PROVE  LET k == Confirm(l, m)
           IN  /\ k \in Ledgers /\ k.open = NoInterval /\ k.open.at = Missing
               /\ OpenSound(k.open, charge, now)
               /\ k.totals.high = m /\ k.totals.day = l.totals.day
               /\ BookSound(k.totals, b, now)
<1> PICK e : e = [l EXCEPT !.totals.high = m]
  OBVIOUS
<1> DEFINE k == Confirm(l, m)
<1>1. /\ e \in Ledgers /\ e.totals.high = m /\ e.totals.day = l.totals.day
      /\ BookSound(e.totals, b, now)
  <2>1. LET z == [l EXCEPT !.totals.high = m]
        IN  /\ z \in Ledgers /\ z.totals.high = m /\ z.totals.day = l.totals.day
            /\ BookSound(z.totals, b, now)
    BY HighFacts
  <2> QED
    BY <2>1, Zenon
<1>2. k = [e EXCEPT !.open = NoInterval]
  BY DEF Confirm, Ledgers
<1>3. NoInterval \in Opens /\ OpenSound(NoInterval, charge, now) /\ NoInterval.at = Missing
  BY NewLedgerSound DEF NewLedger, Ledgers, NoInterval
<1> HIDE DEF k
<1>4. k \in Ledgers /\ k.open = NoInterval /\ k.totals = e.totals
  BY <1>1, <1>2, <1>3 DEF Ledgers
<1> QED
  BY <1>1, <1>3, <1>4, Zenon DEF k

\* The program begins well typed and sound.
LEMMA SoundInit == Init => Types /\ Sound
<1> SUFFICES ASSUME Init PROVE Types /\ Sound
  OBVIOUS
<1>1. now = 0 /\ now \in Times /\ scenario \in Scenarios
  BY LedgerAssumption DEF Init, Times
<1>2. /\ NewLedger \in Ledgers /\ OpenSound(NoInterval, charge, now)
      /\ BookSound(NoTotals, NothingBooked, now)
  BY <1>1, NewLedgerSound
<1>3. /\ quote \in Quotes /\ running \in BOOLEAN /\ register \in Nat /\ meterBase \in Nat
      /\ reported \in Nat \union {Missing} /\ charge \in [Times -> SUBSET Int]
  BY DEF Init, NoPrice
<1>4. seen \in Seen
  BY <1>1 DEF Init, Seen, Missing
<1>5. ledger = NewLedger /\ file = NoTotals /\ booked = NothingBooked /\ fileBooked = NothingBooked
  BY DEF Init
<1>6. NewLedger.totals = NoTotals /\ NewLedger.open = NoInterval /\ NoTotals \in Totals
  BY <1>2 DEF NewLedger, BookSound
<1> QED
  BY <1>1, <1>2, <1>3, <1>4, <1>5, <1>6, Zenon DEF Types, Sound

\* Every step keeps types and soundness.
LEMMA SoundNext == Types /\ Sound /\ [Next]_vars => Types' /\ Sound'
<1> SUFFICES ASSUME Types, Sound, [Next]_vars PROVE Types' /\ Sound'
  OBVIOUS
<1> USE DEF Types, Sound
<1>1. scenario' = scenario
  BY DEF Next, vars, TimePass, Consume, ReplaceMeter, EnergyChanged, PriceChanged, TimingTick,
         ConfirmMeterReset, Save, Stop, Start
<1>2. /\ Totals' = Totals /\ Ledgers' = Ledgers /\ Quotes' = Quotes
      /\ \A tot, b, t : BookSound(tot, b, t)' <=> BookSound(tot, b, t)
  BY <1>1, TotalsSame, SoundSame
<1>3. scenario' \in Scenarios
  BY <1>1
(* A step that leaves the time, the ledger and the prices alone. *)
<1>4. ASSUME UNCHANGED <<now, quote, running, ledger, file, booked, fileBooked, charge>>,
             register' \in Nat, meterBase' \in Nat, reported' \in Nat \union {Missing}, seen' \in Seen
      PROVE  Types' /\ Sound'
  <2>1. Types'
    BY <1>2, <1>3, <1>4
  <2>2. Sound'
    BY <1>2, <1>4
  <2> QED
    BY <2>1, <2>2
(* A step that reads the ledger l. *)
<1>5. ASSUME NEW l \in Ledgers, OpenSound(l.open, charge, now),
             NEW b, BookSound(l.totals, b, now),
             NEW m \in Nat \union {Missing}, NEW q \in Quotes, Read(l, b, m, q),
             UNCHANGED <<now, register, meterBase, file, fileBooked>>,
             quote' \in Quotes, running' \in BOOLEAN, reported' \in Nat \union {Missing}, seen' \in Seen
      PROVE  Types' /\ Sound'
  <2>1. /\ ledger' \in Ledgers /\ charge' \in [Times -> SUBSET Int]
        /\ OpenSound(ledger'.open, charge', now) /\ BookSound(ledger'.totals, booked', now)
    BY <1>5, ReadSound
  <2>2. Types'
    BY <1>2, <1>3, <1>5, <2>1
  <2>3. OpenSound(ledger.open, charge, now)'
    BY <1>5, <2>1, Zenon
  <2>4. BookSound(ledger.totals, booked, now)'
    BY <1>2, <1>5, <2>1 DEF BookSound
  <2>5. BookSound(file, fileBooked, now)'
    BY <1>2, <1>5 DEF BookSound
  <2> QED
    BY <2>2, <2>3, <2>4, <2>5
<1>6. CASE TimePass
  <2>1. /\ now' = now + 1 /\ now + 1 \in Times
        /\ UNCHANGED <<reported, quote, running, ledger, file, booked, fileBooked, charge, seen>>
    BY <1>6, LedgerAssumption DEF TimePass, Times
  <2>2. register' \in Nat /\ meterBase' \in Nat
    BY <1>6 DEF TimePass, Flowed
  <2>3. /\ OpenSound(ledger.open, charge, now + 1) /\ BookSound(ledger.totals, booked, now + 1)
        /\ BookSound(file, fileBooked, now + 1)
    BY <2>1, SoundLater, OpenLater
  <2>4. Types'
    BY <1>2, <1>3, <2>1, <2>2
  <2>5. OpenSound(ledger.open, charge, now)'
    BY <2>1, <2>3, Zenon
  <2>6. BookSound(ledger.totals, booked, now)' /\ BookSound(file, fileBooked, now)'
    BY <1>2, <2>1, <2>3 DEF BookSound
  <2> QED
    BY <2>4, <2>5, <2>6
<1>7. CASE Consume
  BY <1>4, <1>7 DEF Consume, Quantum
<1>8. CASE ReplaceMeter
  BY <1>4, <1>8 DEF ReplaceMeter, Flowed
<1>9. CASE EnergyChanged
  <2>1. PICK m \in Readings : /\ reported' = m /\ seen' = Witness(m) /\ Read(ledger, booked, m, quote)
    BY <1>9 DEF EnergyChanged
  <2>2. m \in Nat \union {Missing} /\ Witness(m) \in Seen
    BY ReadingFacts, WitnessFacts
  <2>3. UNCHANGED <<now, register, meterBase, quote, running, file, fileBooked>>
    BY <1>9 DEF EnergyChanged
  <2> QED
    BY <1>5, <2>1, <2>2, <2>3
<1>10. CASE PriceChanged
  <2>1. PICK q \in Quotes : quote' = q /\ Read(ledger, booked, reported, q)
    BY <1>10 DEF PriceChanged
  <2>2. UNCHANGED <<now, register, meterBase, reported, running, file, fileBooked, seen>>
    BY <1>10 DEF PriceChanged
  <2> QED
    BY <1>5, <2>1, <2>2
<1>11. CASE TimingTick
  BY <1>5, <1>11 DEF TimingTick
<1>12. CASE ConfirmMeterReset
  <2>1. /\ Lifetime /\ reported = register /\ Read(Confirm(ledger, reported), booked, reported, quote)
        /\ UNCHANGED <<now, register, meterBase, reported, quote, running, file, fileBooked>>
    BY <1>12 DEF ConfirmMeterReset
  <2>2. seen' = [value |-> reported, mark |-> Flowed, at |-> now, broken |-> FALSE,
                 excluded |-> seen.excluded + (Flowed - seen.mark), fell |-> seen.fell]
    BY <1>12 DEF ConfirmMeterReset
  <2>3. seen' \in Seen
    <3> PICK s \in Seen : s = seen
      OBVIOUS
    <3>1. Flowed \in Nat /\ s.excluded + (Flowed - s.mark) \in Int /\ s.fell \in BOOLEAN
      BY DEF Flowed, Seen
    <3> HIDE DEF Flowed
    <3> QED
      BY <2>1, <2>2, <3>1 DEF Seen
  <2> PICK k : k = Confirm(ledger, reported)
    OBVIOUS
  <2>4. k \in Ledgers /\ OpenSound(k.open, charge, now) /\ BookSound(k.totals, booked, now)
    BY <2>1, ConfirmFacts
  <2> QED
    BY <1>5, <2>1, <2>3, <2>4
<1>13. CASE Save
  <2>1. /\ file' = ledger.totals /\ fileBooked' = booked
        /\ UNCHANGED <<now, register, meterBase, reported, quote, running, ledger, booked, charge, seen>>
    BY <1>13 DEF Save
  <2>2. Types'
    BY <1>2, <1>3, <2>1 DEF BookSound
  <2>3. OpenSound(ledger.open, charge, now)'
    BY <2>1
  <2>4. BookSound(ledger.totals, booked, now)' /\ BookSound(file, fileBooked, now)'
    BY <1>2, <2>1 DEF BookSound
  <2> QED
    BY <2>2, <2>3, <2>4
<1>14. CASE Stop
  <2>1. /\ running' = FALSE /\ reported' = Missing /\ ledger' = NewLedger /\ booked' = NothingBooked
        /\ seen' = [seen EXCEPT !.broken = TRUE]
        /\ UNCHANGED <<now, register, meterBase, quote, file, fileBooked, charge>>
    BY <1>14 DEF Stop
  <2>2. /\ NewLedger \in Ledgers /\ OpenSound(NoInterval, charge, now)
        /\ BookSound(NoTotals, NothingBooked, now)
    BY NewLedgerSound
  <2>3. NewLedger.totals = NoTotals /\ NewLedger.open = NoInterval
    BY DEF NewLedger
  <2>4. seen' \in Seen
    BY <2>1 DEF Seen
  <2>5. Types'
    BY <1>2, <1>3, <2>1, <2>2, <2>4
  <2>6. OpenSound(ledger.open, charge, now)'
    BY <2>1, <2>2, <2>3, Zenon
  <2>7. BookSound(ledger.totals, booked, now)' /\ BookSound(file, fileBooked, now)'
    BY <1>2, <2>1, <2>2, <2>3 DEF BookSound
  <2> QED
    BY <2>5, <2>6, <2>7
<1>15. CASE Start
  <2>1. PICK m \in Readings \union {Missing} :
           reported' = m /\ seen' = Witness(m) /\ Read(Restored, fileBooked, m, quote)
    BY <1>15 DEF Start, Restored
  <2>2. m \in Nat \union {Missing} /\ Witness(m) \in Seen
    BY ReadingFacts, WitnessFacts
  <2>3. running' = TRUE /\ UNCHANGED <<now, register, meterBase, quote, file, fileBooked>>
    BY <1>15 DEF Start
  <2>4. /\ Restored \in Ledgers /\ OpenSound(Restored.open, charge, now)
        /\ BookSound(Restored.totals, fileBooked, now)
    BY RestoredFacts
  <2> QED
    BY <1>5, <2>1, <2>2, <2>3, <2>4
<1>16. CASE UNCHANGED vars
  BY <1>4, <1>16 DEF vars
<1> QED
  BY <1>6, <1>7, <1>8, <1>9, <1>10, <1>11, <1>12, <1>13, <1>14, <1>15, <1>16 DEF Next

-----------------------------------------------------------------------------
(* A lifetime meter: NothingPricedTwice.                                      *)

Within(x, B) == B + Known(x) <= Flowed

(* What a lifetime meter has priced, and what its ledger, its witness and its *)
(* entity show, lies within what has flowed since B.                          *)
Kept(b, l, B) ==
    Priced(b, l, B) /\ Within(l.totals.high, B) /\ Within(seen.value, B) /\ Within(reported, B)

LifetimeInv ==
    Lifetime => /\ \E B \in 0 .. meterBase : Kept(booked, ledger, B)
                /\ \E B \in 0 .. meterBase : Kept(fileBooked, Restored, B)

\* The program begins with nothing priced.
LEMMA LifetimeInit == Init => LifetimeInv
<1> SUFFICES ASSUME Init PROVE LifetimeInv
  OBVIOUS
<1>1. /\ ledger.open.at = Missing /\ ledger.totals.high = Missing /\ booked = NothingBooked
      /\ Restored.open.at = Missing /\ Restored.totals.high = Missing /\ fileBooked = NothingBooked
      /\ seen.value = Missing /\ reported = Missing /\ meterBase = 0 /\ register = 0
  BY DEF Init, NewLedger, NoInterval, NoTotals, Restored
<1>2. Energy(NothingBooked) = 0
  <2>1. 0 \in Times
    BY LedgerAssumption DEF Times
  <2> QED
    BY <2>1, NewLedgerSound
<1>3. Kept(booked, ledger, 0) /\ Kept(fileBooked, Restored, 0)
  <2> HIDE DEF Restored
  <2> QED
    BY <1>1, <1>2 DEF Kept, Priced, Within, Floor, Known, Flowed
<1> QED
  BY <1>1, <1>3 DEF LifetimeInv

\* Every reading lies within what has flowed, and so does what the witness keeps of it.
LEMMA ReadingsWithin ==
    ASSUME Types, NEW B \in 0 .. meterBase, Within(seen.value, B), NEW m \in Readings \union {Missing}
    PROVE  Within(m, B) /\ Within(Witness(m).value, B)
<1>1. Within(m, B)
  <2>1. m \in {register, 0, Missing, seen.value}
    BY DEF Readings
  <2>2. B \in Nat /\ register \in Nat /\ meterBase \in Nat /\ B <= meterBase
    BY DEF Types
  <2> QED
    BY <2>1, <2>2 DEF Within, Known, Flowed, Missing
<1>2. Witness(m).value \in {seen.value, m}
  BY DEF Witness, Types, Seen
<1> QED
  BY <1>1, <1>2

\* Every step keeps what is priced below the mark of the meter that counts.
LEMMA LifetimeNext ==
    ASSUME Types, Sound, LifetimeInv, [Next]_vars
    PROVE  LifetimeInv'
<1> SUFFICES ASSUME Lifetime'
             PROVE  /\ (\E B \in 0 .. meterBase : Kept(booked, ledger, B))'
                    /\ (\E B \in 0 .. meterBase : Kept(fileBooked, Restored, B))'
  BY DEF LifetimeInv
<1>1. scenario' = scenario
  BY DEF Next, vars, TimePass, Consume, ReplaceMeter, EnergyChanged, PriceChanged, TimingTick,
         ConfirmMeterReset, Save, Stop, Start
<1>2. Lifetime /\ Lifetime \in BOOLEAN /\ \A q \in Quotes : PriceOf(q) \in SUBSET Int
  BY <1>1, TotalsSame, ScenarioFacts DEF Types
<1>3. register \in Nat /\ meterBase \in Nat /\ now \in Times /\ reported \in Nat \union {Missing}
  BY DEF Types
<1>4. PICK B \in 0 .. meterBase : Kept(booked, ledger, B)
  BY <1>2 DEF LifetimeInv
<1>5. PICK C \in 0 .. meterBase : Kept(fileBooked, Restored, C)
  BY <1>2 DEF LifetimeInv
<1>6. B \in Nat /\ C \in Nat /\ B <= meterBase /\ C <= meterBase
  BY <1>3
(* More has flowed, and nothing else has changed. *)
<1>7. ASSUME UNCHANGED <<reported, ledger, file, booked, fileBooked, seen>>,
             register' \in Nat, meterBase' \in Nat, meterBase <= meterBase', Flowed <= Flowed'
      PROVE  /\ (\E D \in 0 .. meterBase : Kept(booked, ledger, D))'
             /\ (\E D \in 0 .. meterBase : Kept(fileBooked, Restored, D))'
  <2>1. ASSUME NEW x \in Nat \union {Missing}, NEW D \in Nat, D + Known(x) <= Flowed
        PROVE  D + Known(x) <= Flowed'
    <3>1. Known(x) \in Nat
      BY DEF Known
    <3>2. Flowed \in Nat /\ Flowed' \in Nat
      <4>1. Flowed = meterBase + register /\ Flowed' = meterBase' + register'
        BY DEF Flowed
      <4>2. meterBase' \in Nat /\ register' \in Nat
        BY <1>7
      <4>3. \A i, j \in Nat : i + j \in Nat
        OBVIOUS
      <4> QED
        BY <1>3, <4>1, <4>2, <4>3
    <3> QED
      BY <1>7, <2>1, <3>1, <3>2
  <2>2. /\ seen.value \in Nat \union {Missing} /\ ledger.totals.high \in Nat \union {Missing}
        /\ file.high \in Nat \union {Missing}
    BY DEF Types, Seen, Ledgers, Totals
  <2>3. /\ B + Known(ledger.totals.high) <= Flowed' /\ B + Known(seen.value) <= Flowed'
        /\ B + Known(reported) <= Flowed'
    BY <1>3, <1>4, <1>6, <2>1, <2>2 DEF Kept, Within
  <2>4. /\ C + Known(Restored.totals.high) <= Flowed' /\ C + Known(seen.value) <= Flowed'
        /\ C + Known(reported) <= Flowed'
    <3>1. Restored.totals.high \in Nat \union {Missing}
      BY <2>2 DEF Restored
    <3> QED
      BY <1>3, <1>5, <1>6, <2>1, <2>2, <3>1 DEF Kept, Within
  <2>5. B \in 0 .. meterBase' /\ C \in 0 .. meterBase'
    BY <1>3, <1>6, <1>7
  <2>6. Restored' = Restored
    BY <1>7 DEF Restored
  <2>7. Kept(booked, ledger, B)'
    BY <1>4, <1>7, <2>3 DEF Kept, Within, Priced
  <2>8. Kept(fileBooked, Restored, C)'
    <3>1. Priced(fileBooked, Restored, C) /\ fileBooked' = fileBooked
      BY <1>5, <1>7 DEF Kept
    <3> HIDE DEF Restored
    <3> QED
      BY <1>7, <2>4, <2>6, <3>1 DEF Kept, Within, Priced
  <2> QED
    BY <2>5, <2>7, <2>8
(* A step that reads a ledger of which D is true. *)
<1>8. ASSUME NEW l \in Ledgers, OpenSound(l.open, charge, now),
             NEW b, BookSound(l.totals, b, now),
             NEW m \in Nat \union {Missing}, NEW q \in Quotes, Read(l, b, m, q),
             NEW D \in 0 .. meterBase, Priced(b, l, D),
             Within(l.totals.high, D), Within(m, D), Within(seen'.value, D),
             Within(seen'.value, C), Within(m, C),
             reported' = m, UNCHANGED <<register, meterBase, file, fileBooked>>
      PROVE  /\ (\E E \in 0 .. meterBase : Kept(booked, ledger, E))'
             /\ (\E E \in 0 .. meterBase : Kept(fileBooked, Restored, E))'
  <2> DEFINE r == Update(l, now, m, q)
             c == BookedAfter(b, l, now, m, q)
  <2>1. D \in Nat /\ Flowed \in Nat /\ Flowed' = Flowed
    BY <1>3, <1>8 DEF Flowed
  <2>2. Priced(c, r, D) /\ D + Known(r.totals.high) <= Flowed
    BY <1>2, <1>8, <2>1, LifetimeRead DEF Types, Within
  <2>3. ledger' = r /\ booked' = c
    BY <1>8 DEF Read
  <2> HIDE DEF r, c
  <2>4. Kept(booked, ledger, D)'
    BY <1>8, <2>1, <2>2, <2>3 DEF Kept, Within
  <2>5. Restored' = Restored
    BY <1>8 DEF Restored
  <2>6. Kept(fileBooked, Restored, C)'
    <3>1. Priced(fileBooked, Restored, C) /\ Within(Restored.totals.high, C)
      BY <1>5 DEF Kept
    <3> HIDE DEF Restored
    <3> QED
      BY <1>8, <2>1, <2>5, <3>1 DEF Kept, Within
  <2> QED
    BY <1>8, <2>4, <2>6
<1>9. CASE TimePass
  BY <1>2, <1>7, <1>9, <1>3 DEF TimePass, Flowed
<1>10. CASE Consume
  BY <1>3, <1>7, <1>10 DEF Consume, Flowed, Quantum
<1>11. CASE ReplaceMeter
  BY <1>3, <1>7, <1>11 DEF ReplaceMeter, Flowed
<1>12. CASE EnergyChanged
  <2>1. PICK m \in Readings : /\ reported' = m /\ seen' = Witness(m) /\ Read(ledger, booked, m, quote)
    BY <1>12 DEF EnergyChanged
  <2>2. UNCHANGED <<register, meterBase, file, fileBooked>>
    BY <1>12 DEF EnergyChanged
  <2>3. /\ Within(m, B) /\ Within(Witness(m).value, B) /\ Within(m, C) /\ Within(Witness(m).value, C)
    BY <1>4, <1>5, ReadingsWithin DEF Kept
  <2>4. m \in Nat \union {Missing}
    BY ReadingFacts
  <2>5. Priced(booked, ledger, B) /\ Within(ledger.totals.high, B)
    BY <1>4 DEF Kept
  <2> QED
    BY <1>8, <2>1, <2>2, <2>3, <2>4, <2>5 DEF Types, Sound
<1>13. CASE PriceChanged
  <2>1. PICK q \in Quotes : Read(ledger, booked, reported, q)
    BY <1>13 DEF PriceChanged
  <2>2. UNCHANGED <<register, meterBase, file, fileBooked, reported, seen>>
    BY <1>13 DEF PriceChanged
  <2>3. /\ Priced(booked, ledger, B) /\ Within(ledger.totals.high, B)
        /\ Within(reported, B) /\ Within(seen'.value, B) /\ Within(reported, C) /\ Within(seen'.value, C)
    BY <1>4, <1>5, <2>2 DEF Kept
  <2> QED
    BY <1>8, <1>3, <2>1, <2>2, <2>3 DEF Types, Sound
<1>14. CASE TimingTick
  <2>1. Read(ledger, booked, reported, quote)
    BY <1>14 DEF TimingTick
  <2>2. UNCHANGED <<register, meterBase, file, fileBooked, reported, seen>>
    BY <1>14 DEF TimingTick
  <2>3. /\ Priced(booked, ledger, B) /\ Within(ledger.totals.high, B)
        /\ Within(reported, B) /\ Within(seen'.value, B) /\ Within(reported, C) /\ Within(seen'.value, C)
    BY <1>4, <1>5, <2>2 DEF Kept
  <2> QED
    BY <1>8, <1>3, <2>1, <2>2, <2>3 DEF Types, Sound
<1>15. CASE ConfirmMeterReset
  <2>1. /\ reported = register /\ Read(Confirm(ledger, reported), booked, reported, quote)
        /\ UNCHANGED <<register, meterBase, reported, file, fileBooked>>
        /\ seen'.value = reported
    BY <1>15 DEF ConfirmMeterReset
  <2> PICK k : k = Confirm(ledger, reported)
    OBVIOUS
  <2>2. /\ k \in Ledgers /\ OpenSound(k.open, charge, now) /\ BookSound(k.totals, booked, now)
        /\ k.open.at = Missing /\ k.totals.high = register
    BY <1>3, <2>1, ConfirmFacts DEF Types, Sound
  <2>3. Energy(booked) \in Nat
    BY HistoryFacts DEF Sound, BookSound, Energy
  <2>4. Floor(ledger) <= Known(ledger.totals.high) /\ Known(ledger.totals.high) \in Nat
        /\ Floor(ledger) \in Nat
    <3>1. /\ ledger.totals.high \in Nat \union {Missing}
          /\ ledger.open.at # Missing => ledger.open.meter \in Nat
      BY DEF Types, Sound, OpenSound, Ledgers, Totals
    <3>2. ledger.open.at # Missing =>
             ledger.totals.high # Missing /\ ledger.open.meter <= ledger.totals.high
      BY <1>4 DEF Kept, Priced
    <3> QED
      BY <3>1, <3>2 DEF Floor, Known
  <2>5. Energy(booked) <= meterBase + register
    BY <1>3, <1>4, <1>6, <2>3, <2>4 DEF Kept, Priced, Within, Flowed
  <2>6. Priced(booked, k, meterBase)
    BY <1>3, <2>2, <2>5 DEF Priced, Floor, Known, Missing
  <2>7. \A D \in 0 .. meterBase : Within(register, D)
    BY <1>3 DEF Within, Flowed, Known, Missing
  <2>8. meterBase \in 0 .. meterBase
    BY <1>3
  <2> QED
    BY <1>5, <1>8, <1>3, <2>1, <2>2, <2>6, <2>7, <2>8 DEF Types
<1>16. CASE Save
  <2>1. /\ file' = ledger.totals /\ fileBooked' = booked
        /\ UNCHANGED <<register, meterBase, reported, ledger, booked, seen>>
    BY <1>16 DEF Save
  <2>2. Kept(booked, ledger, B)'
    BY <1>4, <2>1 DEF Kept, Priced, Within, Flowed
  <2>3. Restored'.totals = ledger.totals /\ Restored'.open.at = Missing
    BY <2>1 DEF Restored, NoInterval
  <2>4. Priced(booked, Restored', B)
    <3>1. Energy(booked) \in Nat
      BY HistoryFacts DEF Sound, BookSound, Energy
    <3>2. Floor(Restored') = Known(ledger.totals.high)
      BY <2>3 DEF Floor
    <3>3. Floor(ledger) <= Known(ledger.totals.high) /\ Known(ledger.totals.high) \in Nat
          /\ Floor(ledger) \in Nat
      <4>1. /\ ledger.totals.high \in Nat \union {Missing}
            /\ ledger.open.at # Missing => ledger.open.meter \in Nat
        BY DEF Types, Sound, OpenSound, Ledgers, Totals
      <4>2. ledger.open.at # Missing =>
               ledger.totals.high # Missing /\ ledger.open.meter <= ledger.totals.high
        BY <1>4 DEF Kept, Priced
      <4> QED
        BY <4>1, <4>2 DEF Floor, Known
    <3>4. Energy(booked) <= B + Floor(ledger)
      BY <1>4 DEF Kept, Priced
    <3>5. Energy(booked) <= B + Floor(Restored')
      BY <1>6, <3>1, <3>2, <3>3, <3>4
    <3> QED
      BY <2>3, <3>5 DEF Priced
  <2>5. Kept(fileBooked, Restored, B)'
    <3> HIDE DEF Restored
    <3> QED
      BY <1>4, <2>1, <2>3, <2>4 DEF Kept, Within, Flowed
  <2> QED
    BY <2>1, <2>2, <2>5
<1>17. CASE Stop
  <2>1. /\ ledger' = NewLedger /\ booked' = NothingBooked /\ reported' = Missing
        /\ seen'.value = seen.value
        /\ UNCHANGED <<register, meterBase, file, fileBooked>>
    BY <1>17 DEF Stop, Types, Seen
  <2>2. NewLedger.open.at = Missing /\ NewLedger.totals.high = Missing /\ Energy(NothingBooked) = 0
    BY <1>3, NewLedgerSound DEF NewLedger, NoInterval, NoTotals
  <2>3. Kept(booked, ledger, B)'
    <3>1. Within(seen.value, B) /\ B + 0 <= Flowed
      BY <1>3, <1>4, <1>6 DEF Kept, Flowed
    <3> QED
      BY <1>3, <1>6, <2>1, <2>2, <3>1 DEF Kept, Priced, Within, Flowed, Floor, Known
  <2>4. Restored' = Restored
    BY <2>1 DEF Restored
  <2>5. Kept(fileBooked, Restored, C)'
    <3>1. /\ Priced(fileBooked, Restored, C) /\ Within(Restored.totals.high, C)
          /\ Within(seen.value, C) /\ C + 0 <= Flowed
      BY <1>3, <1>5, <1>6 DEF Kept, Flowed
    <3> HIDE DEF Restored
    <3> QED
      BY <2>1, <2>4, <3>1 DEF Kept, Within, Flowed, Known
  <2> QED
    BY <2>1, <2>3, <2>5
<1>18. CASE Start
  <2>1. PICK m \in Readings \union {Missing} :
           reported' = m /\ seen' = Witness(m) /\ Read(Restored, fileBooked, m, quote)
    BY <1>18 DEF Start, Restored
  <2>2. m \in Nat \union {Missing}
    BY ReadingFacts
  <2>3. UNCHANGED <<register, meterBase, file, fileBooked>>
    BY <1>18 DEF Start
  <2>4. /\ Restored \in Ledgers /\ OpenSound(Restored.open, charge, now)
        /\ BookSound(Restored.totals, fileBooked, now)
    BY RestoredFacts
  <2>5. Within(m, C) /\ Within(Witness(m).value, C)
    BY <1>5, ReadingsWithin DEF Kept
  <2>6. Priced(fileBooked, Restored, C) /\ Within(Restored.totals.high, C)
    BY <1>5 DEF Kept
  <2> QED
    BY <1>8, <2>1, <2>2, <2>3, <2>4, <2>5, <2>6 DEF Types
<1>19. CASE UNCHANGED vars
  BY <1>3, <1>7, <1>19 DEF vars, Flowed
<1> QED
  BY <1>9, <1>10, <1>11, <1>12, <1>13, <1>14, <1>15, <1>16, <1>17, <1>18, <1>19 DEF Next

-----------------------------------------------------------------------------
(* A daily source: TodayWithinDailyMeter.                                     *)

DailyInv ==
    ~Lifetime /\ ~seen.fell =>
        /\ Dated(booked, ledger, meterBase) /\ Dated(fileBooked, Restored, meterBase)
        /\ UpTo(ledger, reported)

\* The program begins with nothing booked to the day.
LEMMA DailyInit == Init => DailyInv
<1> SUFFICES ASSUME Init PROVE DailyInv
  OBVIOUS
<1>1. /\ ledger.open.at = Missing /\ ledger.totals = NoTotals /\ booked = NothingBooked
      /\ Restored.open.at = Missing /\ Restored.totals = NoTotals /\ fileBooked = NothingBooked
      /\ reported = Missing /\ meterBase = 0 /\ register = 0 /\ now \in Times
  BY LedgerAssumption DEF Init, NewLedger, NoInterval, Restored, Times
<1>2. Energy(NothingBooked) = 0
  BY <1>1, NewLedgerSound
<1>3. Today(NoTotals) = 0
  BY DEF Today, NoTotals
<1> HIDE DEF Restored
<1> QED
  BY <1>1, <1>2, <1>3 DEF DailyInv, Dated, UpTo

\* What totals say of the day is a natural number.
LEMMA TodayFacts ==
    ASSUME Types, NEW tot \in Totals
    PROVE  Today(tot) \in Nat
BY DEF Types, Totals, Today

\* Every step keeps the day within its meter.
LEMMA DailyNext ==
    ASSUME Types, Sound, DailyInv, [Next]_vars
    PROVE  DailyInv'
<1> SUFFICES ASSUME ~Lifetime', ~seen.fell'
             PROVE  /\ Dated(booked, ledger, meterBase)' /\ Dated(fileBooked, Restored, meterBase)'
                    /\ UpTo(ledger, reported)'
  BY DEF DailyInv
<1>1. scenario' = scenario
  BY DEF Next, vars, TimePass, Consume, ReplaceMeter, EnergyChanged, PriceChanged, TimingTick,
         ConfirmMeterReset, Save, Stop, Start
<1>2. ~Lifetime /\ Lifetime \in BOOLEAN /\ \A q \in Quotes : PriceOf(q) \in SUBSET Int
  BY <1>1, TotalsSame, ScenarioFacts DEF Types
<1>3. /\ register \in Nat /\ meterBase \in Nat /\ now \in Times
      /\ reported \in Nat \union {Missing} /\ seen \in Seen
      /\ ledger.totals \in Totals /\ file \in Totals /\ Flowed \in Nat
  BY DEF Types, Ledgers, Flowed
<1>4. ASSUME NEW m, Witness(m).fell = FALSE PROVE ~seen.fell /\ m \in {register, Missing}
  BY <1>3, <1>4 DEF Witness, Seen
<1>5. ASSUME ~seen.fell
      PROVE  /\ Dated(booked, ledger, meterBase) /\ Dated(fileBooked, Restored, meterBase)
             /\ UpTo(ledger, reported)
  BY <1>2, <1>5 DEF DailyInv
<1>6. /\ Today(ledger.totals) \in Nat /\ Today(file) \in Nat
      /\ Restored.totals = file /\ Restored.open.at = Missing
      /\ Energy(booked) \in Nat /\ Energy(fileBooked) \in Nat
      /\ ledger.open.at # Missing => /\ ledger.open.at \in Times /\ ledger.open.at <= now
                                     /\ ledger.open.meter \in Nat
  BY <1>3, TodayFacts, HistoryFacts DEF Restored, NoInterval, Sound, BookSound, OpenSound, Energy
(* A step that reads a ledger. *)
<1>7. ASSUME NEW l \in Ledgers, OpenSound(l.open, charge, now),
             NEW b, BookSound(l.totals, b, now),
             NEW m \in Nat \union {Missing}, NEW q \in Quotes, Read(l, b, m, q),
             Dated(b, l, meterBase), Shown(l, m), Dated(fileBooked, Restored, meterBase),
             reported' = m, UNCHANGED <<now, register, meterBase, file, fileBooked>>
      PROVE  /\ Dated(booked, ledger, meterBase)' /\ Dated(fileBooked, Restored, meterBase)'
             /\ UpTo(ledger, reported)'
  <2> DEFINE r == Update(l, now, m, q)
             c == BookedAfter(b, l, now, m, q)
  <2>1. Dated(c, r, meterBase) /\ UpTo(r, m)
    BY <1>2, <1>3, <1>7, DailyRead DEF Types
  <2>2. ledger' = r /\ booked' = c
    BY <1>7 DEF Read
  <2> HIDE DEF r, c
  <2>3. Restored' = Restored
    BY <1>7 DEF Restored
  <2> HIDE DEF Restored
  <2> QED
    BY <1>7, <2>1, <2>2, <2>3 DEF Dated, UpTo, Today
<1>8. CASE TimePass
  <2>1. /\ now' = now + 1 /\ now + 1 \in Times
        /\ UNCHANGED <<reported, ledger, file, booked, fileBooked, seen>>
    BY <1>3, <1>8, LedgerAssumption DEF TimePass, Times
  <2>2. /\ Dated(booked, ledger, meterBase) /\ Dated(fileBooked, Restored, meterBase)
        /\ UpTo(ledger, reported)
    BY <1>5, <2>1
  <2>3. Restored' = Restored
    BY <2>1 DEF Restored
  <2>4. DayOf(now) \in Nat /\ DayOf(now + 1) \in Nat /\ DayOf(now) <= DayOf(now + 1)
    <3>1. now <= now + 1
      BY <1>3, LedgerAssumption DEF Times
    <3> QED
      BY <1>3, <2>1, <3>1, Calendar
  <2>5. CASE DayOf(now + 1) = DayOf(now)
    <3>1. register' = register /\ meterBase' = meterBase
      BY <1>8, <2>1, <2>5 DEF TimePass
    <3>2. DayOf(now') = DayOf(now)
      BY <2>1, <2>5
    <3> HIDE DEF Restored
    <3> QED
      BY <2>1, <2>2, <2>3, <3>1, <3>2 DEF Dated, UpTo, Today
  <2>6. CASE DayOf(now + 1) # DayOf(now)
    <3>1. register' = 0 /\ meterBase' = Flowed
      BY <1>2, <1>8, <2>1, <2>6 DEF TimePass
    <3>2. ledger.totals.day # DayOf(now + 1) /\ file.day # DayOf(now + 1)
      <4>1. /\ ledger.totals.day <= DayOf(now) /\ file.day <= DayOf(now)
            /\ ledger.totals.day \in Int /\ file.day \in Int
        BY <1>3, LedgerAssumption, Calendar DEF Sound, BookSound, Totals, Missing, Days
      <4> QED
        BY <2>4, <2>6, <4>1
    <3>3. Today(ledger.totals)' = 0 /\ Today(Restored.totals)' = 0
      BY <1>6, <2>1, <2>3, <3>2 DEF Today
    <3>4. ledger.open.at # Missing => DayOf(ledger.open.at) # DayOf(now + 1)
      <4> SUFFICES ASSUME ledger.open.at # Missing PROVE DayOf(ledger.open.at) # DayOf(now + 1)
        OBVIOUS
      <4>1. DayOf(ledger.open.at) \in Nat /\ DayOf(ledger.open.at) <= DayOf(now)
        BY <1>3, <1>6, Calendar
      <4> QED
        BY <2>4, <2>6, <4>1
    <3>5. Energy(booked) <= Flowed /\ Energy(fileBooked) <= Flowed
      <4>1. /\ Today(ledger.totals) <= register /\ Energy(booked) <= meterBase + Today(ledger.totals)
            /\ Today(file) <= register /\ Energy(fileBooked) <= meterBase + Today(file)
        BY <1>6, <2>2 DEF Dated
      <4> QED
        BY <1>3, <1>6, <4>1 DEF Flowed
    <3>6. reported # Missing => 0 <= reported
      BY <1>3
    <3> HIDE DEF Restored
    <3>7. Dated(booked, ledger, meterBase)'
      BY <1>3, <2>1, <3>1, <3>3, <3>4, <3>5 DEF Dated
    <3>8. Dated(fileBooked, Restored, meterBase)'
      BY <1>3, <1>6, <2>1, <2>3, <3>1, <3>3, <3>5 DEF Dated
    <3>9. UpTo(ledger, reported)'
      BY <2>1, <2>2, <3>3, <3>4, <3>6 DEF UpTo
    <3> QED
      BY <3>7, <3>8, <3>9
  <2> QED
    BY <2>5, <2>6
<1>9. CASE Consume
  <2>1. /\ register' = register + Quantum
        /\ UNCHANGED <<now, meterBase, reported, ledger, file, booked, fileBooked, seen>>
    BY <1>9 DEF Consume
  <2>2. /\ Dated(booked, ledger, meterBase) /\ Dated(fileBooked, Restored, meterBase)
        /\ UpTo(ledger, reported)
    BY <1>5, <2>1
  <2>3. Restored' = Restored
    BY <2>1 DEF Restored
  <2>4. \A x \in Nat \union {Missing} : x <= register => x <= register'
    BY <1>3, <2>1 DEF Quantum, Missing
  <2>5. Today(Restored.totals) \in Nat
    BY <1>6
  <2> HIDE DEF Restored
  <2>6. Dated(booked, ledger, meterBase)' /\ Dated(fileBooked, Restored, meterBase)'
    BY <1>6, <2>1, <2>2, <2>3, <2>4, <2>5 DEF Dated, Today
  <2>7. UpTo(ledger, reported)'
    BY <1>3, <2>1, <2>2, <2>4 DEF UpTo, Today
  <2> QED
    BY <2>6, <2>7
<1>10. CASE ReplaceMeter \/ ConfirmMeterReset
  BY <1>2, <1>10 DEF ReplaceMeter, ConfirmMeterReset
<1>11. CASE EnergyChanged
  <2>1. PICK m \in Readings : /\ reported' = m /\ seen' = Witness(m) /\ Read(ledger, booked, m, quote)
    BY <1>11 DEF EnergyChanged
  <2>2. UNCHANGED <<now, register, meterBase, file, fileBooked>>
    BY <1>11 DEF EnergyChanged
  <2>3. m \in Nat \union {Missing} /\ Witness(m) \in Seen
    BY <2>1, ReadingFacts, WitnessFacts
  <2>4. ~seen.fell /\ m \in {register, Missing}
    BY <1>4, <2>1, <2>3 DEF Seen
  <2>5. /\ Dated(booked, ledger, meterBase) /\ Dated(fileBooked, Restored, meterBase)
    BY <1>5, <2>4
  <2>6. Shown(ledger, m)
    BY <1>3, <2>4, <2>5 DEF Shown, Dated
  <2> QED
    BY <1>7, <2>1, <2>2, <2>3, <2>5, <2>6 DEF Types, Sound
<1>12. ASSUME UpTo(ledger, reported) PROVE Shown(ledger, reported)
  <2>1. CASE reported = Missing
    BY <2>1 DEF Shown
  <2>2. CASE reported # Missing
    <3>1. Today(ledger.totals) <= reported
      BY <1>12, <2>2 DEF UpTo
    <3>2. ASSUME ledger.open.at # Missing
          PROVE  /\ ~ (reported < ledger.open.meter)
                 /\ DayOf(ledger.open.at) = DayOf(now) /\ reported > ledger.open.meter
                       => reported <= register
      BY <1>3, <1>6, <1>12, <2>2, <3>2 DEF UpTo
    <3> QED
      BY <3>1, <3>2 DEF Shown
  <2> QED
    BY <2>1, <2>2
<1>13. CASE PriceChanged
  <2>1. PICK q \in Quotes : Read(ledger, booked, reported, q)
    BY <1>13 DEF PriceChanged
  <2>2. UNCHANGED <<now, register, meterBase, file, fileBooked, reported, seen>>
    BY <1>13 DEF PriceChanged
  <2>3. /\ Dated(booked, ledger, meterBase) /\ Dated(fileBooked, Restored, meterBase)
        /\ Shown(ledger, reported)
    BY <1>5, <1>12, <2>2
  <2> QED
    BY <1>3, <1>7, <2>1, <2>2, <2>3 DEF Types, Sound
<1>14. CASE TimingTick
  <2>1. Read(ledger, booked, reported, quote)
    BY <1>14 DEF TimingTick
  <2>2. UNCHANGED <<now, register, meterBase, file, fileBooked, reported, seen>>
    BY <1>14 DEF TimingTick
  <2>3. /\ Dated(booked, ledger, meterBase) /\ Dated(fileBooked, Restored, meterBase)
        /\ Shown(ledger, reported)
    BY <1>5, <1>12, <2>2
  <2> QED
    BY <1>3, <1>7, <2>1, <2>2, <2>3 DEF Types, Sound
<1>15. CASE Save
  <2>1. /\ file' = ledger.totals /\ fileBooked' = booked
        /\ UNCHANGED <<now, register, meterBase, reported, ledger, booked, seen>>
    BY <1>15 DEF Save
  <2>2. Dated(booked, ledger, meterBase) /\ UpTo(ledger, reported)
    BY <1>5, <2>1
  <2>3. Restored'.totals = ledger.totals /\ Restored'.open.at = Missing
    BY <2>1 DEF Restored, NoInterval
  <2> HIDE DEF Restored
  <2>4. Dated(booked, ledger, meterBase)' /\ UpTo(ledger, reported)'
    BY <2>1, <2>2 DEF Dated, UpTo, Today
  <2>5. Dated(fileBooked, Restored, meterBase)'
    BY <2>1, <2>2, <2>3 DEF Dated, Today
  <2> QED
    BY <2>4, <2>5
<1>16. CASE Stop
  <2>1. /\ ledger' = NewLedger /\ booked' = NothingBooked /\ reported' = Missing
        /\ seen'.fell = seen.fell
        /\ UNCHANGED <<now, register, meterBase, file, fileBooked>>
    BY <1>3, <1>16 DEF Stop, Seen
  <2>2. Dated(fileBooked, Restored, meterBase)
    BY <1>5, <2>1
  <2>3. Restored' = Restored
    BY <2>1 DEF Restored
  <2>4. /\ NewLedger.open.at = Missing /\ NewLedger.totals = NoTotals
        /\ Energy(NothingBooked) = 0 /\ Today(NoTotals)' = 0
    BY <1>3, NewLedgerSound DEF NewLedger, NoInterval, NoTotals, Today
  <2> HIDE DEF Restored
  <2>5. Dated(booked, ledger, meterBase)' /\ UpTo(ledger, reported)'
    BY <1>3, <2>1, <2>4 DEF Dated, UpTo
  <2>6. Dated(fileBooked, Restored, meterBase)'
    BY <2>1, <2>2, <2>3 DEF Dated, Today
  <2> QED
    BY <2>5, <2>6
<1>17. CASE Start
  <2>1. PICK m \in Readings \union {Missing} :
           reported' = m /\ seen' = Witness(m) /\ Read(Restored, fileBooked, m, quote)
    BY <1>17 DEF Start, Restored
  <2>2. UNCHANGED <<now, register, meterBase, file, fileBooked>>
    BY <1>17 DEF Start
  <2>3. m \in Nat \union {Missing} /\ Witness(m) \in Seen
    BY <2>1, ReadingFacts, WitnessFacts
  <2>4. ~seen.fell /\ m \in {register, Missing}
    BY <1>4, <2>1, <2>3 DEF Seen
  <2>5. Dated(fileBooked, Restored, meterBase)
    BY <1>5, <2>4
  <2>6. Shown(Restored, m)
    <3> HIDE DEF Restored
    <3> QED
      BY <1>3, <1>6, <2>4, <2>5 DEF Shown, Dated
  <2>7. /\ Restored \in Ledgers /\ OpenSound(Restored.open, charge, now)
        /\ BookSound(Restored.totals, fileBooked, now)
    BY RestoredFacts
  <2> QED
    BY <1>7, <2>1, <2>2, <2>3, <2>5, <2>6, <2>7 DEF Types
<1>18. CASE UNCHANGED vars
  <2>1. Restored' = Restored
    BY <1>18 DEF Restored, vars
  <2> HIDE DEF Restored
  <2> QED
    BY <1>5, <1>18, <2>1 DEF vars, Dated, UpTo, Today
<1> QED
  BY <1>8, <1>9, <1>10, <1>11, <1>13, <1>14, <1>15, <1>16, <1>17, <1>18 DEF Next

-----------------------------------------------------------------------------
(* One meter that never falls back: ExcludedStaysUnpriced.                    *)

(* What reading m of a lifetime meter that does not fall back does to the     *)
(* ledger l, which becomes r, and to its history b, which becomes c.          *)
Steady(r, c, l, b, m) ==
    /\ r.totals.high = IF m = Missing THEN l.totals.high ELSE m
    /\ IF m = Missing THEN r.open.at = Missing ELSE r.open.at \in Times /\ r.open.meter = m
    /\ m = Missing \/ l.open.at = Missing \/ m = l.open.meter => c = b
    /\ m # Missing /\ l.open.at = Missing => r.open.at = now
    /\ m # Missing /\ l.open.at # Missing /\ m = l.open.meter =>
          \/ r.open.discard
          \/ r.open.at = l.open.at /\ (r.open.discard <=> l.open.discard)
    /\ m # Missing /\ l.open.at # Missing /\ l.open.meter < m =>
          /\ r.open.at = now
          /\ Energy(c) <= Energy(b) + (m - l.open.meter)
          /\ c = b \/ (~l.open.discard /\ now - l.open.at <= MaxGap)

\* Without a foreign currency an update begins with the interval and mark there are.
LEMMA OneUnitOpened ==
    ASSUME now \in Times, NEW l \in Ledgers, NEW q \in Quotes, ~Foreign(l, q.unit)
    PROVE  Opened(l, now, q).open = l.open /\ Opened(l, now, q).totals.high = l.totals.high
<1> PICK o : o = Opened(l, now, q)
  OBVIOUS
<1> PICK k : k = Old(l, q)
  OBVIOUS
<1>1. o.open = k.open /\ o.totals.high = k.totals.high
  BY OpenedFacts
<1>2. k = l
  BY DEF Old
<1> QED
  BY <1>1, <1>2

\* Every reading that does not fall back is steady.
LEMMA SteadyRead ==
    ASSUME now \in Times, charge \in [Times -> SUBSET Int], Lifetime,
           NEW l \in Ledgers, OpenSound(l.open, charge, now), NEW b, BookSound(l.totals, b, now),
           NEW m \in Nat \union {Missing}, NEW q \in Quotes, PriceOf(q) \in SUBSET Int,
           ~Foreign(l, q.unit), m = Missing \/ l.totals.high <= m,
           m = Missing \/ l.open.at = Missing \/ m = l.open.meter
              \/ (l.open.meter < m /\ (l.open.discard \/ l.open.at < now))
    PROVE  Steady(Update(l, now, m, q), BookedAfter(b, l, now, m, q), l, b, m)
<1> DEFINE r == Update(l, now, m, q)
           c == BookedAfter(b, l, now, m, q)
           o == Opened(l, now, q)
           e == Marked(o, m)
           p == PriceOf(q)
           v == Verdict(l.open, now, m)
           n == FromMidnight(e, now)
<1> SUFFICES Steady(r, c, l, b, m)
  OBVIOUS
<1>1. Old(l, q) = l /\ Base(l, b, q) = b
  BY DEF Old, Base
<1>2. o.open = l.open /\ o.totals.high = l.totals.high
  BY OneUnitOpened
<1>3. Outcome(r, l, b, c, m, q)
  BY UpdateFacts
<1>4. Rejected(o, m) <=> m = Missing
  <2>1. l.totals.high \in Nat \union {Missing}
    BY DEF Ledgers, Totals
  <2> QED
    BY <1>2, <2>1 DEF Rejected, Missing
<1>5. now \in Int /\ l.open.at \in Int /\ l.open.meter \in Int /\ l.open.discard \in BOOLEAN
  BY LedgerAssumption DEF Ledgers, Opens, Times, Missing
<1>6. CASE m = Missing
  <2>1. c = b /\ Ended(r, o, p)
    BY <1>1, <1>3, <1>4, <1>6 DEF Outcome
  <2> HIDE DEF r, c, o
  <2> QED
    BY <1>2, <1>6, <2>1 DEF Steady, Ended
<1>7. CASE m # Missing
  <2>1. m \in Nat
    BY <1>7
  <2>2. e.totals.high = m /\ e.open = l.open
    BY <1>2, <2>1, MarkedFacts
  <2>3. v \notin {"stale", "midnight"}
    BY DEF Verdict
  <2>4. \/ /\ v \in {"first", "gap", "resume", "backward"} /\ c = b /\ Begun(r, e, m, p)
           /\ v = "gap" => (r.open.discard <=> m = l.open.meter)
        \/ /\ v = "settle" /\ c = b /\ ~Chargeable(l.open, now, m)
           /\ Continued(r, e, p) \/ (Begun(r, e, m, p) /\ r.open.discard)
        \/ v = "settle" /\ c = Spread(b, l.open, m) /\ Booked(r, e, l.open, b, m, p)
    <3> HIDE DEF r, c, e, p
    <3>1. Verdict(o.open, now, m) = v
      BY <1>2
    <3> HIDE DEF o, v, n
    <3> QED
      BY <1>1, <1>2, <1>3, <1>4, <1>7, <2>3, <3>1 DEF Outcome, e, n, o, p
  <2>5. /\ v = "first" <=> l.open.at = Missing
        /\ v = "settle" => /\ now - l.open.at <= MaxGap /\ l.open.at <= now
                           /\ ~l.open.discard \/ m = l.open.meter
                           /\ l.open.meter <= m
        /\ v = "resume" => m # l.open.meter
        /\ v = "backward" => m < l.open.meter
    BY <1>5, <2>1 DEF Verdict, MaxGap
  <2> HIDE DEF r, c, o, e, n, v
  <2>6. CASE /\ v \in {"first", "gap", "resume", "backward"} /\ c = b /\ Begun(r, e, m, p)
             /\ v = "gap" => (r.open.discard <=> m = l.open.meter)
    <3>1. r.totals = e.totals /\ r.open.at = now /\ r.open.meter = m
      BY <2>6 DEF Begun
    <3>2. l.open.at # Missing /\ m = l.open.meter => r.open.discard
      BY <1>5, <2>1, <2>5, <2>6
    <3>3. Energy(b) \in Nat
      BY HistoryFacts DEF BookSound, Energy
    <3>4. l.open.meter < m => Energy(c) <= Energy(b) + (m - l.open.meter)
      BY <1>5, <2>1, <2>6, <3>3
    <3> QED
      BY <1>7, <2>2, <2>6, <3>1, <3>2, <3>4 DEF Steady
  <2>7. CASE /\ v = "settle" /\ c = b /\ ~Chargeable(l.open, now, m)
             /\ Continued(r, e, p) \/ (Begun(r, e, m, p) /\ r.open.discard)
    <3>2. /\ l.open.at # Missing /\ m # Missing /\ (~l.open.discard \/ m = l.open.meter)
          /\ m = l.open.meter \/ ~(now > l.open.at)
      BY <1>7, <2>5, <2>7 DEF Chargeable
    <3>1. m = l.open.meter
      <4> SUFFICES ASSUME m # l.open.meter PROVE FALSE
        OBVIOUS
      <4>1. l.open.at < now
        BY <3>2
      <4> QED
        BY <1>5, <3>2, <4>1
    <3>3. r.totals = e.totals /\ r.open.meter = m
      BY <2>2, <2>7, <3>1 DEF Continued, Begun
    <3>4. \/ r.open.discard /\ r.open.at = now
          \/ r.open.at = l.open.at /\ r.open.discard = l.open.discard
      BY <2>2, <2>7 DEF Continued, Begun
    <3>5. l.open.at \in Times
      BY <3>2 DEF Ledgers, Opens
    <3>6. ~(l.open.meter < m)
      BY <1>5, <3>1
    <3> QED
      BY <1>7, <2>2, <2>7, <3>1, <3>2, <3>3, <3>4, <3>5, <3>6 DEF Steady
  <2>8. CASE v = "settle" /\ c = Spread(b, l.open, m) /\ Booked(r, e, l.open, b, m, p)
    <3>1. /\ r.open.at = now /\ r.open.meter = m /\ r.totals.high = m
          /\ l.open.at # Missing /\ l.open.meter < m
          /\ Energy(c) - Energy(b) \in 0 .. m - l.open.meter
      BY <2>2, <2>8 DEF Booked
    <3>2. Energy(b) \in Nat /\ Energy(c) \in Nat
      BY <2>8, HistoryFacts DEF Booked, BookSound, Energy
    <3>3. Energy(c) <= Energy(b) + (m - l.open.meter)
      BY <1>5, <2>1, <3>1, <3>2
    <3>4. ~l.open.discard /\ now - l.open.at <= MaxGap
      BY <1>5, <2>1, <2>5, <2>8, <3>1
    <3>5. m # l.open.meter
      BY <1>5, <2>1, <3>1
    <3> QED
      BY <1>7, <3>1, <3>3, <3>4, <3>5 DEF Steady
  <2> QED
    BY <2>4, <2>6, <2>7, <2>8
<1> QED
  BY <1>6, <1>7

(* One lifetime meter whose source has never fallen back, and one currency.   *)
OneMeter ==
    Lifetime /\ ~seen.fell /\ meterBase = 0 /\ \A p, q \in Quotes : p.unit = q.unit

(* What the ledger l and its history b are to the witness w: what is booked   *)
(* and what must stay unpriced share the energy up to the last reading, from  *)
(* which the open interval goes on.                                           *)
Watched(l, b, w) ==
    /\ l.totals.high <= w.value /\ Energy(b) + w.excluded <= w.mark
    /\ l.open.at # Missing => l.open.meter = w.value /\ (l.open.discard \/ l.open.at = w.at)

ExcludedInv ==
    OneMeter =>
        /\ seen.value <= register /\ seen.mark = Known(seen.value)
        /\ reported = IF seen.broken THEN Missing ELSE seen.value
        /\ ~seen.broken => running /\ seen.value # Missing
        /\ running => (ledger.open.at = Missing <=> seen.broken)
        /\ Watched(ledger, booked, seen) /\ Watched(Restored, fileBooked, seen)

\* The program begins with nothing priced and nothing excluded.
LEMMA ExcludedInit == Init => ExcludedInv
<1> SUFFICES ASSUME Init PROVE ExcludedInv
  OBVIOUS
<1>1. /\ ledger.open.at = Missing /\ ledger.totals.high = Missing /\ booked = NothingBooked
      /\ Restored.open.at = Missing /\ Restored.totals.high = Missing /\ fileBooked = NothingBooked
      /\ seen.value = Missing /\ seen.mark = 0 /\ seen.excluded = 0 /\ seen.broken
      /\ reported = Missing /\ register = 0
  BY DEF Init, NewLedger, NoInterval, NoTotals, Restored
<1>2. Energy(NothingBooked) = 0
  <2>1. 0 \in Times
    BY LedgerAssumption DEF Times
  <2> QED
    BY <2>1, NewLedgerSound
<1> HIDE DEF Restored
<1>3. seen.value <= register
  BY <1>1 DEF Missing
<1>4. Watched(ledger, booked, seen) /\ Watched(Restored, fileBooked, seen)
  BY <1>1, <1>2 DEF Watched, Missing
<1> QED
  BY <1>1, <1>3, <1>4 DEF ExcludedInv, Known

\* With one currency no quote is foreign.
LEMMA OneUnit ==
    ASSUME \A p, q \in Quotes : p.unit = q.unit, NEW l \in Ledgers, NEW q \in Quotes
    PROVE  ~Foreign(l, q.unit)
<1>1. l.totals.unit \in {p.unit : p \in Quotes} \union {NoUnit}
  BY DEF Ledgers, Totals
<1> QED
  BY <1>1 DEF Foreign

\* The witness of a new reading, after an interruption or beyond the last one.
LEMMA WitnessRise ==
    ASSUME Types, meterBase = 0, NEW m \in Nat, m = register, seen.value <= m,
           seen.mark = Known(seen.value), seen.broken \/ seen.value \notin {Missing, m}
    PROVE  LET w == Witness(m)
           IN  /\ w.value = m /\ w.mark = m /\ w.at = now /\ ~w.broken
               /\ w.excluded = IF seen.broken \/ now - seen.at > MaxGap
                               THEN seen.excluded + (m - seen.mark) ELSE seen.excluded
<1>1. /\ seen.value \in Nat \union {Missing} /\ seen.mark \in Nat /\ register \in Nat
      /\ ~(m < seen.value) /\ m # Missing /\ meterBase + m = m
  BY DEF Types, Seen, Missing
<1>2. seen.broken \/ m # seen.mark
  BY DEF Known
<1>4. ~(m < register)
  BY <1>1
<1>5. /\ (IF m # seen.mark \/ seen.broken THEN now ELSE seen.at) = now
      /\ (seen.broken /\ m = seen.mark /\ m < register) = FALSE
  BY <1>2, <1>4
<1>3. Witness(m) = [fell     |-> seen.fell \/ m \notin {register, Missing},
                    value    |-> m,
                    mark     |-> m,
                    at       |-> now,
                    broken   |-> FALSE,
                    excluded |-> IF seen.broken \/ now - seen.at > MaxGap
                                 THEN seen.excluded + (m - seen.mark) ELSE seen.excluded]
  BY <1>1, <1>5, Zenon DEF Witness
<1> QED
  BY <1>3

\* A ledger without an open interval that a step leaves alone stays watched.
LEMMA WatchedUnread ==
    ASSUME Types, NEW l, NEW b \in Histories, l.open.at = Missing, l.totals.high \in Int,
           Watched(l, b, seen), NEW w, NEW m \in Nat,
           w.value = m, w.mark = m, seen.value <= m, seen.mark <= m,
           w.excluded \in {seen.excluded, seen.excluded + (m - seen.mark)}
    PROVE  Watched(l, b, w)
<1>1. /\ Energy(b) \in Nat /\ seen.excluded \in Int /\ seen.mark \in Nat
      /\ seen.value \in Int
  BY HistoryFacts DEF Types, Seen, Energy, Missing
<1>2. l.totals.high <= m
  BY <1>1 DEF Watched
<1>3. Energy(b) + w.excluded <= m
  BY <1>1 DEF Watched
<1> QED
  BY <1>2, <1>3 DEF Watched

\* Unless the source falls back it shows its register or nothing.
LEMMA FellFacts ==
    ASSUME Types, NEW m, ~Witness(m).fell
    PROVE  ~seen.fell /\ m \in {register, Missing}
BY DEF Types, Witness, Seen

\* One steady meter after a step was one steady meter before it, and only counts up.
LEMMA OneMeterBefore ==
    ASSUME Types, [Next]_vars, OneMeter'
    PROVE  OneMeter /\ register' >= register
<1>1. scenario' = scenario
  BY DEF Next, vars, TimePass, Consume, ReplaceMeter, EnergyChanged, PriceChanged, TimingTick,
         ConfirmMeterReset, Save, Stop, Start
<1>2. Lifetime /\ Quotes' = Quotes
  BY <1>1, TotalsSame DEF OneMeter
<1>3. register \in Nat /\ meterBase \in Nat
  BY DEF Types
<1>4. meterBase = 0 /\ register' >= register
  <2>1. CASE ReplaceMeter
    BY <1>3, <2>1 DEF ReplaceMeter, OneMeter, Flowed
  <2>2. CASE Consume
    BY <1>3, <2>2 DEF Consume, OneMeter, Quantum
  <2>3. CASE ~ReplaceMeter /\ ~Consume
    <3>1. UNCHANGED <<register, meterBase>>
      BY <1>2, <2>3 DEF Next, vars, TimePass, EnergyChanged, PriceChanged, TimingTick,
                        ConfirmMeterReset, Save, Stop, Start
    <3> QED
      BY <1>3, <3>1 DEF OneMeter
  <2> QED
    BY <2>1, <2>2, <2>3
<1>5. ~seen.fell
  <2>1. CASE EnergyChanged \/ Start
    <3>1. PICK m : seen' = Witness(m)
      BY <2>1 DEF EnergyChanged, Start
    <3> QED
      BY <3>1, FellFacts DEF OneMeter
  <2>2. CASE ConfirmMeterReset
    BY <2>2 DEF ConfirmMeterReset, OneMeter
  <2>3. CASE Stop
    BY <2>3 DEF Stop, OneMeter, Types, Seen
  <2>4. CASE ~EnergyChanged /\ ~Start /\ ~ConfirmMeterReset /\ ~Stop
    <3>1. seen' = seen
      BY <2>4 DEF Next, vars, TimePass, Consume, ReplaceMeter, PriceChanged, TimingTick, Save
    <3> QED
      BY <3>1 DEF OneMeter
  <2> QED
    BY <2>1, <2>2, <2>3, <2>4
<1>6. \A p, q \in Quotes : p.unit = q.unit
  BY <1>2 DEF OneMeter
<1> QED
  BY <1>2, <1>4, <1>5, <1>6 DEF OneMeter

\* Every step keeps what is excluded unpriced.
LEMMA ExcludedNext ==
    ASSUME Types, Sound, ExcludedInv, [Next]_vars
    PROVE  ExcludedInv'
<1> DEFINE Goal ==
        /\ seen.value <= register /\ seen.mark = Known(seen.value)
        /\ reported = IF seen.broken THEN Missing ELSE seen.value
        /\ ~seen.broken => running /\ seen.value # Missing
        /\ running => (ledger.open.at = Missing <=> seen.broken)
        /\ Watched(ledger, booked, seen) /\ Watched(Restored, fileBooked, seen)
<1> SUFFICES ASSUME OneMeter' PROVE Goal'
  BY DEF ExcludedInv
<1>1. OneMeter /\ register' >= register
  BY OneMeterBefore
<1>2. Goal
  BY <1>1 DEF ExcludedInv
<1>3. /\ Lifetime /\ Lifetime \in BOOLEAN /\ meterBase = 0
      /\ \A q \in Quotes : PriceOf(q) \in SUBSET Int
      /\ \A l \in Ledgers, q \in Quotes : ~Foreign(l, q.unit)
  BY <1>1, ScenarioFacts, OneUnit DEF OneMeter, Types
<1>4. /\ seen.value \in Nat \union {Missing} /\ seen.value \in Int /\ seen.mark \in Nat
      /\ seen.at \in Int /\ now \in Int /\ seen.excluded \in Int /\ seen.broken \in BOOLEAN
      /\ register \in Nat /\ now \in Times /\ reported \in Nat \union {Missing}
      /\ ledger \in Ledgers /\ file.high \in Int
      /\ Energy(booked) \in Nat /\ Energy(fileBooked) \in Nat /\ fileBooked \in Histories
  BY LedgerAssumption, HistoryFacts
     DEF Types, Sound, BookSound, Seen, Energy, Missing, Times, Totals
<1>5. /\ Restored.open.at = Missing /\ Restored.totals = file /\ Restored \in Ledgers
      /\ OpenSound(Restored.open, charge, now) /\ BookSound(Restored.totals, fileBooked, now)
  BY RestoredFacts
<1>6. file' = file => Restored' = Restored
  BY DEF Restored
<1>7. seen.value <= register /\ seen.mark = Known(seen.value)
  BY <1>2
<1> HIDE DEF Restored, Goal
(* The new reading of the meter, after an interruption or beyond the last one. *)
<1>8. ASSUME NEW l \in Ledgers, OpenSound(l.open, charge, now),
             NEW b, BookSound(l.totals, b, now), NEW q \in Quotes,
             Read(l, b, register, q), reported' = register, seen' = Witness(register),
             running', UNCHANGED <<register, file, fileBooked>>, Watched(l, b, seen),
             \/ seen.broken /\ l.open.at = Missing
             \/ /\ ~seen.broken /\ l.open.at # Missing /\ seen.value \notin {Missing, register}
                /\ now > seen.at
      PROVE  Goal'
  <2>1. PICK r : r = Update(l, now, register, q)
    OBVIOUS
  <2>2. PICK c : c = BookedAfter(b, l, now, register, q)
    OBVIOUS
  <2>3. PICK w : w = Witness(register)
    OBVIOUS
  <2>4. /\ w.value = register /\ w.mark = register /\ w.at = now /\ ~w.broken
        /\ w.excluded = IF seen.broken \/ now - seen.at > MaxGap
                        THEN seen.excluded + (register - seen.mark) ELSE seen.excluded
    BY <1>3, <1>4, <1>7, <1>8, <2>3, WitnessRise
  <2>5. l.totals.high \in Int /\ l.open.at \in Int /\ l.open.meter \in Int
    BY LedgerAssumption DEF Ledgers, Totals, Opens, Times, Missing
  <2>6. Steady(r, c, l, b, register)
    <3>1. l.totals.high <= register
      BY <1>4, <1>7, <1>8, <2>5 DEF Watched
    <3>2. \/ l.open.at = Missing
          \/ l.open.meter < register /\ (l.open.discard \/ l.open.at < now)
      BY <1>4, <1>7, <1>8 DEF Watched
    <3> QED
      BY <1>3, <1>4, <1>8, <2>1, <2>2, <3>1, <3>2, SteadyRead DEF Types
  <2>7. Energy(b) \in Nat /\ seen.mark <= register
    BY <1>4, <1>7, <1>8, HistoryFacts DEF BookSound, Energy, Known
  <2>8. Energy(c) + w.excluded <= register
    <3>1. CASE l.open.at = Missing
      BY <1>4, <1>8, <2>4, <2>6, <2>7, <3>1 DEF Steady, Watched
    <3>2. CASE l.open.at # Missing
      <4>1. /\ ~seen.broken /\ l.open.meter = seen.value /\ seen.value = seen.mark
            /\ l.open.meter < register /\ (l.open.discard \/ l.open.at = seen.at)
            /\ Energy(b) + seen.excluded <= seen.mark
        BY <1>4, <1>7, <1>8, <3>2 DEF Watched, Known
      <4>2. /\ Energy(c) <= Energy(b) + (register - seen.mark)
            /\ c = b \/ now - seen.at <= MaxGap
        BY <1>4, <2>6, <3>2, <4>1 DEF Steady, Missing
      <4>3. Energy(c) \in Int
        BY <1>3, <1>4, <1>8, <2>2, UpdateSound, HistoryFacts DEF Types, BookSound, Energy
      <4>4. CASE c = b
        BY <1>4, <2>4, <2>7, <4>1, <4>4
      <4>5. CASE now - seen.at <= MaxGap
        BY <1>4, <2>4, <2>7, <4>1, <4>2, <4>3, <4>5 DEF MaxGap
      <4> QED
        BY <4>2, <4>4, <4>5
    <3> QED
      BY <3>1, <3>2
  <2>9. Watched(r, c, w) /\ r.open.at # Missing
    <3>1. /\ r.totals.high = register /\ r.open.meter = register /\ r.open.at = now
          /\ r.open.at # Missing
      <4>1. register # Missing /\ now # Missing
        BY <1>4, LedgerAssumption DEF Missing, Times
      <4>2. l.open.at # Missing => l.open.meter < register
        BY <1>4, <1>7, <1>8 DEF Watched
      <4> QED
        BY <2>6, <4>1, <4>2 DEF Steady
    <3> QED
      BY <1>4, <2>4, <2>8, <3>1 DEF Watched
  <2>10. Watched(Restored, fileBooked, w)
    <3>1. Watched(Restored, fileBooked, seen)
      BY <1>2 DEF Goal
    <3> QED
      BY <1>4, <1>5, <1>7, <2>4, <2>7, <3>1, WatchedUnread
  <2>11. ledger' = r /\ booked' = c /\ seen' = w /\ Restored' = Restored
    BY <1>6, <1>8, <2>1, <2>2, <2>3 DEF Read
  <2>12. Known(register) = register /\ register # Missing /\ register <= register
    BY <1>4 DEF Known, Missing
  <2> QED
    BY <1>8, <2>4, <2>9, <2>10, <2>11, <2>12 DEF Goal
(* No reading. *)
<1>9. ASSUME NEW l \in Ledgers, OpenSound(l.open, charge, now),
             NEW b, BookSound(l.totals, b, now), NEW q \in Quotes,
             Read(l, b, Missing, q), reported' = Missing, seen'.value = seen.value,
             seen'.mark = seen.mark, seen'.excluded = seen.excluded, seen'.broken,
             UNCHANGED <<register, file, fileBooked>>, Watched(l, b, seen)
      PROVE  Goal'
  <2>1. PICK r : r = Update(l, now, Missing, q)
    OBVIOUS
  <2>2. PICK c : c = BookedAfter(b, l, now, Missing, q)
    OBVIOUS
  <2>3. Steady(r, c, l, b, Missing)
    BY <1>3, <1>4, <1>8, <1>9, <2>1, <2>2, SteadyRead DEF Types
  <2>4. r.totals.high = l.totals.high /\ r.open.at = Missing /\ c = b
    BY <2>3 DEF Steady
  <2>5. PICK w : w = seen'
    OBVIOUS
  <2>6. /\ w.value = seen.value /\ w.mark = seen.mark /\ w.excluded = seen.excluded /\ w.broken
    BY <1>9, <2>5
  <2>7. Watched(r, c, w)
    BY <1>9, <2>4, <2>6 DEF Watched
  <2>8. Watched(Restored, fileBooked, w)
    BY <1>2, <1>5, <2>6 DEF Watched, Goal
  <2>9. ledger' = r /\ booked' = c /\ Restored' = Restored
    BY <1>6, <1>9, <2>1, <2>2 DEF Read
  <2> QED
    BY <1>2, <1>9, <2>4, <2>5, <2>6, <2>7, <2>8, <2>9 DEF Goal
(* The reading that is shown, once more. *)
<1>10. ASSUME NEW q \in Quotes, Read(ledger, booked, reported, q), running,
              UNCHANGED <<register, file, fileBooked, reported, seen, running>>
       PROVE  Goal'
  <2>1. PICK r : r = Update(ledger, now, reported, q)
    OBVIOUS
  <2>2. PICK c : c = BookedAfter(booked, ledger, now, reported, q)
    OBVIOUS
  <2>3. Watched(ledger, booked, seen) /\ (ledger.open.at = Missing <=> seen.broken)
    BY <1>2, <1>10 DEF Goal
  <2>4. reported = IF seen.broken THEN Missing ELSE seen.value
    BY <1>2 DEF Goal
  <2>5. reported = Missing \/ (ledger.totals.high <= reported /\ reported = ledger.open.meter)
    BY <2>3, <2>4 DEF Watched
  <2>6. Steady(r, c, ledger, booked, reported)
    BY <1>3, <1>4, <2>1, <2>2, <2>5, <1>10, SteadyRead DEF Types, Sound
  <2>7. ledger' = r /\ booked' = c /\ Restored' = Restored
    BY <1>6, <1>10, <2>1, <2>2 DEF Read
  <2>8. ~seen.broken => reported # Missing
    BY <1>2, <2>4 DEF Goal
  <2>9. c = booked
    BY <2>5, <2>6 DEF Steady
  <2>10. Watched(r, c, seen) /\ (r.open.at = Missing <=> seen.broken)
    <3>1. CASE seen.broken
      BY <2>3, <2>4, <2>6, <2>9, <3>1 DEF Steady, Watched
    <3>2. CASE ~seen.broken
      <4>1. reported = seen.value /\ reported # Missing /\ ledger.open.at # Missing
            /\ reported = ledger.open.meter
        BY <2>3, <2>4, <2>5, <2>8, <3>2
      <4>2. r.totals.high = reported /\ r.open.at \in Times /\ r.open.meter = reported
        BY <2>6, <4>1 DEF Steady
      <4>3. r.open.at # Missing
        BY <4>2, LedgerAssumption DEF Times, Missing
      <4>4. r.open.discard \/ r.open.at = seen.at
        BY <2>3, <2>6, <4>1 DEF Steady, Watched
      <4>5. r.totals.high <= seen.value
        BY <1>4, <4>1, <4>2
      <4> QED
        BY <2>3, <2>9, <3>2, <4>1, <4>2, <4>3, <4>4, <4>5 DEF Watched
    <3> QED
      BY <3>1, <3>2
  <2> QED
    BY <1>2, <1>10, <2>7, <2>10 DEF Goal
<1>11. ASSUME ~Witness(Missing).fell
       PROVE  /\ Witness(Missing).value = seen.value /\ Witness(Missing).mark = seen.mark
              /\ Witness(Missing).excluded = seen.excluded /\ Witness(Missing).broken
  BY DEF Types, Seen, Witness
<1>12. ~seen'.fell
  BY DEF OneMeter
<1>13. CASE TimePass
  <2>1. UNCHANGED <<register, reported, running, ledger, file, booked, fileBooked, seen>>
    BY <1>3, <1>13 DEF TimePass
  <2> QED
    BY <1>2, <1>6, <2>1 DEF Goal, Watched
<1>14. CASE Consume
  <2>1. UNCHANGED <<reported, running, ledger, file, booked, fileBooked, seen>>
    BY <1>14 DEF Consume
  <2>2. seen.value <= register'
    BY <1>4, <1>7, <1>14 DEF Consume, Quantum
  <2> QED
    BY <1>2, <1>6, <2>1, <2>2 DEF Goal, Watched
<1>15. CASE ReplaceMeter
  BY <1>1, <1>4, <1>15 DEF ReplaceMeter
<1>16. CASE EnergyChanged
  <2>1. PICK m \in Readings :
           /\ m # reported /\ (m = Missing \/ now > seen.at \/ seen.value = Missing)
           /\ reported' = m /\ seen' = Witness(m) /\ Read(ledger, booked, m, quote)
    BY <1>16 DEF EnergyChanged
  <2>2. running /\ UNCHANGED <<register, running, file, fileBooked>>
    BY <1>16 DEF EnergyChanged
  <2>3. m \in {register, Missing}
    BY <1>12, <2>1, FellFacts
  <2>4. Watched(ledger, booked, seen) /\ (ledger.open.at = Missing <=> seen.broken)
    BY <1>2, <2>2 DEF Goal
  <2>5. CASE m = Missing
    <3>1. /\ seen'.value = seen.value /\ seen'.mark = seen.mark
          /\ seen'.excluded = seen.excluded /\ seen'.broken
      BY <1>11, <1>12, <2>1, <2>5
    <3> QED
      BY <1>4, <1>9, <2>1, <2>2, <2>4, <2>5, <3>1 DEF Types, Sound
  <2>6. CASE m = register /\ m # Missing
    <3>1. \/ seen.broken /\ ledger.open.at = Missing
          \/ /\ ~seen.broken /\ ledger.open.at # Missing
             /\ seen.value \notin {Missing, register} /\ now > seen.at
      BY <1>2, <2>1, <2>4, <2>6 DEF Goal
    <3> QED
      BY <1>4, <1>8, <2>1, <2>2, <2>4, <2>6, <3>1 DEF Types, Sound
  <2> QED
    BY <2>3, <2>5, <2>6
<1>17. CASE PriceChanged
  <2>1. PICK q \in Quotes : Read(ledger, booked, reported, q)
    BY <1>17 DEF PriceChanged
  <2>2. running /\ UNCHANGED <<register, file, fileBooked, reported, seen, running>>
    BY <1>17 DEF PriceChanged
  <2> QED
    BY <1>10, <2>1, <2>2
<1>18. CASE TimingTick
  <2>1. running /\ Read(ledger, booked, reported, quote)
    BY <1>18 DEF TimingTick
  <2>2. UNCHANGED <<register, file, fileBooked, reported, seen, running>>
    BY <1>18 DEF TimingTick
  <2> QED
    BY <1>10, <2>1, <2>2 DEF Types
(* With the first meter still in place, a confirmation finds it at zero. *)
<1>19. CASE ConfirmMeterReset
  <2>1. /\ running /\ reported = register /\ seen.mark <= 0
        /\ Read(Confirm(ledger, reported), booked, reported, quote)
        /\ UNCHANGED <<register, reported, running, file, fileBooked>>
    BY <1>3, <1>19 DEF ConfirmMeterReset
  <2>2. /\ seen'.value = reported /\ seen'.mark = Flowed /\ seen'.at = now /\ ~seen'.broken
        /\ seen'.excluded = seen.excluded + (Flowed - seen.mark)
    BY <1>19 DEF ConfirmMeterReset
  <2>3. register # Missing
    BY <1>4 DEF Missing
  <2>4. ~seen.broken /\ seen.value = register
    BY <1>2, <2>1, <2>3 DEF Goal
  <2>5. register = 0 /\ seen.mark = 0 /\ Flowed = 0
    BY <1>3, <1>4, <1>7, <2>1, <2>3, <2>4 DEF Known, Flowed
  <2>6. Watched(ledger, booked, seen) /\ Watched(Restored, fileBooked, seen)
    BY <1>2 DEF Goal
  <2> PICK k : k = Confirm(ledger, register)
    OBVIOUS
  <2>7. /\ k \in Ledgers /\ OpenSound(k.open, charge, now) /\ BookSound(k.totals, booked, now)
        /\ k.open.at = Missing /\ k.totals.high = register
    BY <1>4, ConfirmFacts DEF Sound
  <2>8. PICK r : r = Update(k, now, register, quote)
    OBVIOUS
  <2>9. PICK c : c = BookedAfter(booked, k, now, register, quote)
    OBVIOUS
  <2>10. Steady(r, c, k, booked, register)
    <3>1. k.totals.high <= register
      BY <1>4, <2>7
    <3> QED
      BY <1>3, <1>4, <2>7, <2>8, <2>9, <3>1, SteadyRead DEF Types
  <2>11. /\ r.totals.high = register /\ r.open.meter = register /\ r.open.at = now /\ c = booked
    BY <2>3, <2>7, <2>10 DEF Steady
  <2>12. now # Missing
    BY <1>4, LedgerAssumption DEF Times, Missing
  <2>13. PICK w : w = seen'
    OBVIOUS
  <2>14. /\ w.value = 0 /\ w.mark = 0 /\ w.at = now /\ ~w.broken /\ w.excluded = seen.excluded
    BY <1>4, <2>1, <2>2, <2>5, <2>13
  <2>15. Watched(r, c, w)
    BY <2>5, <2>6, <2>11, <2>14 DEF Watched
  <2>16. Watched(Restored, fileBooked, w)
    BY <1>5, <2>4, <2>5, <2>6, <2>14 DEF Watched
  <2>17. ledger' = r /\ booked' = c /\ Restored' = Restored
    BY <1>6, <2>1, <2>8, <2>9 DEF Read
  <2> QED
    BY <2>1, <2>3, <2>5, <2>11, <2>12, <2>13, <2>14, <2>15, <2>16, <2>17 DEF Goal, Known
<1>20. CASE Save
  <2>1. /\ file' = ledger.totals /\ fileBooked' = booked
        /\ UNCHANGED <<register, reported, running, ledger, booked, seen>>
    BY <1>20 DEF Save
  <2>2. Restored'.totals = ledger.totals /\ Restored'.open.at = Missing
    BY <2>1 DEF Restored, NoInterval
  <2>3. Watched(Restored', booked, seen)
    BY <1>2, <2>2 DEF Goal, Watched
  <2> QED
    BY <1>2, <2>1, <2>3 DEF Goal, Watched
<1>21. CASE Stop
  <2>1. /\ ledger' = NewLedger /\ booked' = NothingBooked /\ reported' = Missing /\ ~running'
        /\ UNCHANGED <<register, file, fileBooked>> /\ seen' = [seen EXCEPT !.broken = TRUE]
    BY <1>21 DEF Stop
  <2>2. PICK w : w = seen'
    OBVIOUS
  <2>3. w.value = seen.value /\ w.mark = seen.mark /\ w.excluded = seen.excluded /\ w.broken
    BY <2>1, <2>2 DEF Types, Seen
  <2>4. NewLedger.open.at = Missing /\ NewLedger.totals.high = Missing /\ Energy(NothingBooked) = 0
    BY <1>4, NewLedgerSound DEF NewLedger, NoInterval, NoTotals
  <2>5. Watched(Restored, fileBooked, seen)
    BY <1>2 DEF Goal
  <2>6. seen.excluded <= seen.mark /\ Missing <= seen.value
    BY <1>4, <2>5 DEF Watched, Missing
  <2>7. Watched(NewLedger, NothingBooked, w)
    BY <1>4, <2>3, <2>4, <2>6 DEF Watched
  <2>8. Watched(Restored, fileBooked, w)
    BY <1>5, <2>3, <2>5 DEF Watched
  <2> QED
    BY <1>6, <1>7, <2>1, <2>2, <2>3, <2>7, <2>8 DEF Goal
<1>22. CASE Start
  <2>1. PICK m : /\ reported' = m /\ seen' = Witness(m) /\ Read(Restored, fileBooked, m, quote)
    BY <1>22 DEF Start, Restored
  <2>2. ~running /\ running' /\ UNCHANGED <<register, file, fileBooked>>
    BY <1>22 DEF Start
  <2>3. m \in {register, Missing}
    BY <1>12, <2>1, FellFacts
  <2>4. Watched(Restored, fileBooked, seen) /\ seen.broken
    BY <1>2, <1>4, <2>2 DEF Goal
  <2>5. CASE m = Missing
    <3>1. /\ seen'.value = seen.value /\ seen'.mark = seen.mark
          /\ seen'.excluded = seen.excluded /\ seen'.broken
      BY <1>11, <1>12, <2>1, <2>5
    <3> QED
      BY <1>5, <1>9, <2>1, <2>2, <2>4, <2>5, <3>1 DEF Types
  <2>6. CASE m = register
    BY <1>5, <1>8, <2>1, <2>2, <2>4, <2>6 DEF Types
  <2> QED
    BY <2>3, <2>5, <2>6
<1>23. CASE UNCHANGED vars
  <2>1. UNCHANGED <<register, reported, running, ledger, file, booked, fileBooked, seen>>
    BY <1>23 DEF vars
  <2> QED
    BY <1>2, <1>6, <2>1 DEF Goal, Watched
<1> QED
  BY <1>13, <1>14, <1>15, <1>16, <1>17, <1>18, <1>19, <1>20, <1>21, <1>22, <1>23 DEF Next

-----------------------------------------------------------------------------
(* The invariant and its theorems.                                            *)

(* The inductive invariant.  Sound relates the totals to the history; the     *)
(* others bound the history by what the meter has counted.                    *)
IInv == Types /\ Sound /\ LifetimeInv /\ DailyInv /\ ExcludedInv

\* IInv is an invariant.
THEOREM Invariance == Spec => []IInv
<1>1. Init => IInv
  BY SoundInit, LifetimeInit, DailyInit, ExcludedInit DEF IInv
<1>2. IInv /\ [Next]_vars => IInv'
  BY SoundNext, LifetimeNext, DailyNext, ExcludedNext DEF IInv
<1> QED
  BY <1>1, <1>2, PTL DEF Spec

\* Every variable keeps its type; the open interval never lies in the future.
THEOREM TypeCorrect == Spec => []TypeOK
<1>1. IInv => TypeOK
  <2> SUFFICES ASSUME Types, Sound PROVE TypeOK
    BY DEF IInv
  <2>1. now \in Int /\ 0 <= now /\ ledger.open.at \in Int
    BY LedgerAssumption DEF Types, Ledgers, Opens, Times, Missing
  <2>2. ledger.open.at \in -1 .. now /\ Len(ledger.open.segments) <= MaxSegments
    BY <2>1, LedgerAssumption DEF Sound, OpenSound, Times, Missing
  <2>3. (ledger.open.at = Missing) = (ledger.open.segments = << >>)
    <3>1. ledger.open.at \in Times => ledger.open.at # Missing
      BY LedgerAssumption DEF Times, Missing
    <3> QED
      BY <3>1 DEF Sound, OpenSound, InOrder
  <2>4. ledger.totals \in Totals
    BY DEF Types, Ledgers
  <2> QED
    BY <2>2, <2>3, <2>4 DEF TypeOK, Types
<1> QED
  BY <1>1, Invariance, PTL

(* The totals of the day and of the month, kept by CostLedger as running      *)
(* sums, are the sums over their units of what was booked there.              *)
THEOREM UnitsMatch == Spec => []TotalsMatchTheirUnits
<1>1. IInv => TotalsMatchTheirUnits
  BY DEF IInv, Sound, BookSound, TotalsMatchTheirUnits
<1> QED
  BY <1>1, Invariance, PTL

\* CostLedger never charges yesterday's total of a daily source to the new day.
THEOREM TodayBounded == Spec => []TodayWithinDailyMeter
<1>1. IInv => TodayWithinDailyMeter
  BY DEF IInv, DailyInv, Dated, Today, TodayWithinDailyMeter
<1> QED
  BY <1>1, Invariance, PTL

(* No energy is priced twice, over dips, outages, meter replacement and       *)
(* restarts from an older file.                                               *)
THEOREM PricedOnce == Spec => []NothingPricedTwice
<1>1. IInv => NothingPricedTwice
  <2> SUFFICES ASSUME IInv, Lifetime \/ ~seen.fell PROVE Energy(booked) <= Flowed
    BY DEF NothingPricedTwice
  <2>1. /\ Energy(booked) \in Nat /\ register \in Nat /\ meterBase \in Nat
        /\ ledger.totals \in Totals /\ ledger.totals.high \in Nat \union {Missing}
        /\ ledger.open.at # Missing => ledger.open.meter \in Nat
    BY HistoryFacts DEF IInv, Types, Sound, BookSound, OpenSound, Energy, Totals
  <2>2. CASE Lifetime
    <3>1. PICK B \in 0 .. meterBase : Kept(booked, ledger, B)
      BY <2>2 DEF IInv, LifetimeInv
    <3>2. Floor(ledger) <= Known(ledger.totals.high) /\ Known(ledger.totals.high) \in Nat
          /\ Floor(ledger) \in Nat
      BY <2>1, <3>1 DEF Kept, Priced, Floor, Known
    <3>3. B \in Nat /\ Flowed \in Nat
      BY <2>1 DEF Flowed
    <3>4. Energy(booked) <= B + Floor(ledger) /\ B + Known(ledger.totals.high) <= Flowed
      BY <3>1 DEF Kept, Priced, Within
    <3> QED
      BY <2>1, <3>2, <3>3, <3>4
  <2>3. CASE ~Lifetime
    <3>1. /\ Today(ledger.totals) <= register
          /\ Energy(booked) <= meterBase + Today(ledger.totals)
      BY <2>3 DEF IInv, DailyInv, Dated
    <3>2. Today(ledger.totals) \in Nat
      BY <2>1, TodayFacts DEF IInv
    <3> QED
      BY <2>1, <3>1, <3>2 DEF Flowed
  <2> QED
    BY <2>2, <2>3
<1> QED
  BY <1>1, Invariance, PTL

\* Nothing between the readings around an outage, a restart or a long gap is priced.
THEOREM ExcludedUnpriced == Spec => []ExcludedStaysUnpriced
<1>1. IInv => ExcludedStaysUnpriced
  <2> SUFFICES ASSUME IInv, OneMeter PROVE Energy(booked) + seen.excluded <= Flowed
    BY DEF ExcludedStaysUnpriced, OneMeter
  <2>1. /\ Energy(booked) \in Nat /\ register \in Nat /\ meterBase = 0
        /\ seen.value \in Nat \union {Missing} /\ seen.excluded \in Int
    BY HistoryFacts DEF IInv, Types, Sound, BookSound, Energy, Seen, OneMeter
  <2>2. /\ seen.value <= register /\ seen.mark = Known(seen.value)
        /\ Energy(booked) + seen.excluded <= seen.mark
    BY DEF IInv, ExcludedInv, Watched
  <2> QED
    BY <2>1, <2>2 DEF Flowed, Known
<1> QED
  BY <1>1, Invariance, PTL
=================================================================================

------------------------------ MODULE DataLemmas ------------------------------
(***************************************************************************)
(* Facts about data that the proofs share: induction over the naturals     *)
(* with sets for predicates, recursion over finite sets and over the       *)
(* positions of a sequence, and queues in which nothing waits twice (the   *)
(* waiters of a lock or of a channel's slots, the jobs of a pool).         *)
(***************************************************************************)
EXTENDS SequencesExt, FiniteSetsExt, FiniteSetTheorems, SequenceTheorems, WellFoundedInduction,
        TLAPS

(* A non-empty set of numbers has a least one.                             *)
LEMMA LeastNatural ==
  ASSUME NEW T, T \subseteq Nat, T # {}
  PROVE  \E x \in T : \A y \in T : x <= y
<1>1. PICK x \in T : \A y \in T : ~ (<<y, x>> \in OpToRel(<, Nat))
  BY NatLessThanWellFounded, WFMin
<1>2. \A y \in T : ~ (y < x)
  BY <1>1 DEF OpToRel
<1> QED
  BY <1>2

(* Induction over the naturals, the predicate being a set.                 *)
LEMMA StepByStep ==
  ASSUME NEW T, 0 \in T, \A n \in Nat : n \in T => n + 1 \in T
  PROVE  Nat \subseteq T
<1> SUFFICES ASSUME Nat \ T # {} PROVE FALSE
  OBVIOUS
<1>1. Nat \ T \subseteq Nat
  OBVIOUS
<1>2. PICK x \in Nat \ T : \A y \in Nat \ T : x <= y
  BY <1>1, LeastNatural
<1>3. x \in Nat /\ x # 0
  BY <1>2
<1>4. x - 1 \in Nat /\ x = (x - 1) + 1
  BY <1>3
<1>5. x - 1 \in T
  BY <1>2, <1>4
<1> QED
  BY <1>2, <1>4, <1>5

(* A recursion that takes the elements of a finite set one by one, with a  *)
(* result in V, and its solutions.                                         *)
CanFold(S, V, base, pick, op) ==
  /\ IsFiniteSet(S) /\ base \in V
  /\ \A s \in SUBSET S : s # {} => pick[s] \in s
  /\ \A x \in S, v \in V : op[<<x, v>>] \in V

FoldsOn(f, S, V, base, pick, op) ==
  /\ f = [s \in SUBSET S |-> f[s]] /\ f[{}] = base
  /\ \A s \in SUBSET S :
       s # {} /\ f[s \ {pick[s]}] \in V => f[s] = op[<<pick[s], f[s \ {pick[s]}]>>]

(* It has exactly one solution.                                            *)
LEMMA FoldsOneWay ==
  ASSUME NEW S, NEW V, NEW base, NEW pick, NEW op, CanFold(S, V, base, pick, op)
  PROVE  \E fold \in [SUBSET S -> V] :
           /\ fold[{}] = base
           /\ \A s \in SUBSET S :
                s # {} => fold[s] = op[<<pick[s], fold[s \ {pick[s]}]>>]
           /\ \A f : FoldsOn(f, S, V, base, pick, op) => f = fold
<1>0. /\ IsFiniteSet(S) /\ base \in V
      /\ \A s \in SUBSET S : s # {} => pick[s] \in s
      /\ \A x \in S, v \in V : op[<<x, v>>] \in V
  BY DEF CanFold
<1> DEFINE Upto(k) == {s \in SUBSET S : Cardinality(s) <= k}
           At(f, s) == IF s = {} THEN base ELSE op[<<pick[s], f[s \ {pick[s]}]>>]
           T == {k \in Nat : \E g \in [Upto(k) -> V] : \A s \in Upto(k) : g[s] = At(g, s)}
           N == Cardinality(S)
<1>1. \A s \in SUBSET S : IsFiniteSet(s) /\ Cardinality(s) \in Nat /\ Cardinality(s) <= N
  BY <1>0, FS_Subset, FS_CardinalityType
<1>2. \A s \in SUBSET S : (Cardinality(s) = 0 <=> s = {})
  BY <1>1, FS_EmptySet
<1>3. \A s \in SUBSET S : s # {} =>
        /\ pick[s] \in S /\ s \ {pick[s]} \in SUBSET S
        /\ Cardinality(s \ {pick[s]}) = Cardinality(s) - 1
  BY <1>0, <1>1, FS_RemoveElement
<1>4. N \in Nat /\ Upto(N) = SUBSET S
  BY <1>0, <1>1, FS_CardinalityType
<1>5. \A k \in Nat : \A s \in Upto(k + 1) : s # {} => s \ {pick[s]} \in Upto(k)
  BY <1>1, <1>3
<1>6. \A k \in Nat : Upto(k) \subseteq Upto(k + 1) /\ Upto(k) \subseteq SUBSET S
  BY <1>1
<1>7. Upto(0) = {{}}
  BY <1>1, <1>2, FS_EmptySet
<1> HIDE DEF Upto, N
<1>8. 0 \in T
  <2> DEFINE g == [s \in Upto(0) |-> base]
  <2>1. g \in [Upto(0) -> V] /\ \A s \in Upto(0) : g[s] = At(g, s)
    BY <1>0, <1>7
  <2> QED
    BY <2>1
<1>9. ASSUME NEW k \in Nat, k \in T PROVE k + 1 \in T
  <2>1. PICK g \in [Upto(k) -> V] : \A s \in Upto(k) : g[s] = At(g, s)
    BY <1>9
  <2> DEFINE h == [s \in Upto(k + 1) |-> At(g, s)]
  <2>2. ASSUME NEW s \in Upto(k + 1) PROVE At(g, s) \in V
    <3>1. CASE s = {}
      BY <1>0, <3>1
    <3>2. CASE s # {}
      <4>1. pick[s] \in S /\ g[s \ {pick[s]}] \in V
        BY <1>3, <1>5, <1>6, <3>2
      <4> QED
        BY <1>0, <3>2, <4>1
    <3> QED
      BY <3>1, <3>2
  <2>3. h \in [Upto(k + 1) -> V]
    BY <2>2
  <2>4. \A s \in Upto(k) : h[s] = g[s]
    BY <1>6, <2>1
  <2>5. \A s \in Upto(k + 1) : h[s] = At(g, s)
    OBVIOUS
  <2> HIDE DEF h
  <2>6. \A s \in Upto(k + 1) : At(h, s) = At(g, s)
    BY <1>5, <2>4
  <2>7. \A s \in Upto(k + 1) : h[s] = At(h, s)
    BY <2>5, <2>6
  <2> QED
    BY <2>3, <2>7
<1>10. N \in T
  <2> HIDE DEF T
  <2>1. Nat \subseteq T
    BY <1>8, <1>9, StepByStep
  <2> QED
    BY <1>4, <2>1
<1>11. PICK fold \in [SUBSET S -> V] : \A s \in SUBSET S : fold[s] = At(fold, s)
  BY <1>4, <1>10
<1>12. ASSUME NEW f, f = [s \in SUBSET S |-> f[s]], f[{}] = base,
              \A s \in SUBSET S : s # {} /\ f[s \ {pick[s]}] \in V => f[s] = At(f, s)
       PROVE  f = fold
  <2> DEFINE U == {k \in Nat : \A s \in Upto(k) : f[s] = fold[s]}
  <2>1. 0 \in U
    BY <1>7, <1>11, <1>12
  <2>2. ASSUME NEW k \in Nat, k \in U PROVE k + 1 \in U
    <3>1. ASSUME NEW s \in Upto(k + 1) PROVE f[s] = fold[s]
      <4>1. s \in SUBSET S /\ fold[s] = At(fold, s)
        BY <1>6, <1>11
      <4>2. CASE s = {}
        BY <1>12, <4>1, <4>2
      <4>3. CASE s # {}
        <5>1. s \ {pick[s]} \in Upto(k) /\ s \ {pick[s]} \in SUBSET S
          BY <1>3, <1>5, <4>1, <4>3
        <5>2. f[s \ {pick[s]}] = fold[s \ {pick[s]}] /\ fold[s \ {pick[s]}] \in V
          BY <1>11, <2>2, <5>1
        <5>3. f[s] = At(f, s) /\ At(f, s) = At(fold, s)
          BY <1>12, <4>1, <4>3, <5>2
        <5> QED
          BY <4>1, <5>3
      <4> QED
        BY <4>2, <4>3
    <3> QED
      BY <3>1
  <2>3. N \in U
    <3> HIDE DEF U
    <3>1. Nat \subseteq U
      BY <2>1, <2>2, StepByStep
    <3> QED
      BY <1>4, <3>1
  <2>4. \A s \in SUBSET S : f[s] = fold[s]
    BY <1>4, <2>3
  <2> QED
    BY <1>11, <1>12, <2>4
<1>13. /\ fold[{}] = base
       /\ \A s \in SUBSET S : s # {} => fold[s] = op[<<pick[s], fold[s \ {pick[s]}]>>]
  BY <1>11
<1>14. ASSUME NEW f, FoldsOn(f, S, V, base, pick, op) PROVE f = fold
  <2>1. /\ f = [s \in SUBSET S |-> f[s]] /\ f[{}] = base
        /\ \A s \in SUBSET S : s # {} /\ f[s \ {pick[s]}] \in V => f[s] = At(f, s)
    BY <1>14 DEF FoldsOn
  <2> HIDE DEF At
  <2> QED
    BY <1>12, <2>1
<1> HIDE DEF At, T
<1> QED
  BY <1>13, <1>14

(* Recursion down a bounded rank: a step looks at lower places only.       *)
Ranked(D, rank, N) == N \in Nat /\ rank \in [D -> 0..N]

Recursion(step, D, rank, V) ==
  /\ V # {}
  /\ step \in [D \X [D -> V] -> V]
  /\ \A x \in D : \A f, g \in [D -> V] :
       (\A y \in D : rank[y] < rank[x] => f[y] = g[y]) => step[<<x, f>>] = step[<<x, g>>]

LEMMA RecursionExists ==
  ASSUME NEW D, NEW N, NEW rank, Ranked(D, rank, N),
         NEW V, NEW step, Recursion(step, D, rank, V)
  PROVE  \E f \in [D -> V] : \A x \in D : f[x] = step[<<x, f>>]
<1> USE DEF Ranked, Recursion
<1>0. PICK v0 \in V : TRUE
  OBVIOUS
<1> DEFINE Upto(g, n) == \A x \in D : rank[x] < n => g[x] = step[<<x, g>>]
           T == {n \in Nat : \E g \in [D -> V] : Upto(g, n)}
<1>1. 0 \in T
  <2>1. [x \in D |-> v0] \in [D -> V]
    BY <1>0
  <2>2. \A x \in D : ~(rank[x] < 0)
    OBVIOUS
  <2> QED
    BY <2>1, <2>2
<1>2. ASSUME NEW n \in Nat, n \in T PROVE n + 1 \in T
  <2>1. PICK g \in [D -> V] : Upto(g, n)
    BY <1>2
  <2> DEFINE h == [x \in D |-> IF rank[x] < n THEN g[x] ELSE step[<<x, g>>]]
  <2>2. h \in [D -> V]
    OBVIOUS
  <2>3. \A x \in D : rank[x] < n => h[x] = g[x]
    OBVIOUS
  <2>4. \A x \in D : h[x] = step[<<x, g>>]
    BY <2>1
  <2> HIDE DEF h
  <2>5. ASSUME NEW x \in D, rank[x] < n + 1 PROVE h[x] = step[<<x, h>>]
    <3>1. \A y \in D : rank[y] < rank[x] => g[y] = h[y]
      BY <2>3, <2>5
    <3>2. step[<<x, g>>] = step[<<x, h>>]
      BY <3>1, <2>2
    <3> QED
      BY <2>4, <3>2
  <2> QED
    BY <2>2, <2>5
<1>3. N + 1 \in T
  <2> HIDE DEF T
  <2>1. Nat \subseteq T
    BY <1>1, <1>2, StepByStep
  <2> QED
    BY <2>1
<1>4. PICK g \in [D -> V] : Upto(g, N + 1)
  BY <1>3
<1>5. \A x \in D : rank[x] < N + 1
  OBVIOUS
<1> QED
  BY <1>4, <1>5

(* Induction along such a rank, the predicate being a set.                 *)
Inherited(T, D, rank) ==
  \A x \in D : (\A y \in D : rank[y] < rank[x] => y \in T) => x \in T

LEMMA ByRank ==
  ASSUME NEW D, NEW N, NEW rank, Ranked(D, rank, N), NEW T, Inherited(T, D, rank)
  PROVE  D \subseteq T
<1> USE DEF Ranked, Inherited
<1> DEFINE U == {n \in Nat : \A x \in D : rank[x] < n => x \in T}
<1>1. 0 \in U
  <2>1. \A x \in D : ~(rank[x] < 0)
    OBVIOUS
  <2> QED
    BY <2>1
<1>2. ASSUME NEW n \in Nat, n \in U PROVE n + 1 \in U
  <2>1. ASSUME NEW x \in D, rank[x] < n + 1 PROVE x \in T
    <3>1. \A y \in D : rank[y] < rank[x] => rank[y] < n
      BY <2>1
    <3> QED
      BY <1>2, <3>1
  <2> QED
    BY <2>1
<1>3. N + 1 \in U
  <2> HIDE DEF U
  <2>1. Nat \subseteq U
    BY <1>1, <1>2, StepByStep
  <2> QED
    BY <2>1
<1>4. \A x \in D : rank[x] < N + 1
  OBVIOUS
<1> QED
  BY <1>3, <1>4

-----------------------------------------------------------------------------
(* A finite set of numbers has a least and a greatest one.                 *)
LEMMA FiniteSetsAreBounded ==
  ASSUME NEW S, S \subseteq Int, IsFiniteSet(S), S # {}
  PROVE  /\ Min(S) \in S /\ \A x \in S : Min(S) <= x
         /\ Max(S) \in S /\ \A x \in S : x <= Max(S)
<1> DEFINE upto(x) == {y \in S : y <= x}
           count(x) == Cardinality(upto(x))
           N == Cardinality(S)
<1>1. \A x \in S : /\ IsFiniteSet(upto(x)) /\ count(x) \in Nat /\ count(x) <= N
                   /\ \A z \in S : z < x => count(z) < count(x)
  <2>1. \A T \in SUBSET S : IsFiniteSet(T) /\ Cardinality(T) \in Nat /\ Cardinality(T) <= N
    BY FS_Subset, FS_CardinalityType
  <2>2. ASSUME NEW x \in S, NEW z \in S, z < x PROVE count(z) < count(x)
    <3>1. upto(z) \in SUBSET upto(x) /\ x \in upto(x) /\ x \notin upto(z)
      <4>1. x \in Int /\ z \in Int /\ \A y \in S : y \in Int
        OBVIOUS
      <4>2. \A y \in S : y <= z => y <= x
        BY <2>2, <4>1
      <4>3. x <= x /\ ~(x <= z)
        BY <2>2, <4>1
      <4> QED
        BY <4>2, <4>3
    <3>2. IsFiniteSet(upto(x)) /\ count(x) \in Nat /\ count(z) \in Nat
      BY <2>1
    <3> HIDE DEF upto
    <3>3. count(z) <= count(x) /\ count(z) # count(x)
      BY <3>1, <3>2, FS_Subset
    <3> QED
      BY <3>2, <3>3
  <2> QED
    BY <2>1, <2>2
<1>2. N \in Nat
  BY FS_CardinalityType
<1> HIDE DEF count, N
<1>3. \E x \in S : \A y \in S : x <= y
  <2> DEFINE C == {count(x) : x \in S}
  <2>1. C \subseteq Nat /\ C # {}
    BY <1>1
  <2>2. PICK c \in C : \A d \in C : c <= d
    BY <2>1, LeastNatural
  <2>3. PICK x \in S : c = count(x)
    BY <2>2
  <2>4. ASSUME NEW y \in S, y < x PROVE FALSE
    <3>1. count(y) < count(x) /\ count(y) \in C /\ count(y) \in Nat /\ count(x) \in Nat
      BY <1>1, <2>4
    <3> HIDE DEF C
    <3> QED
      BY <2>2, <2>3, <3>1
  <2> QED
    BY <2>4
<1>4. \E x \in S : \A y \in S : x >= y
  <2> DEFINE C == {N - count(x) : x \in S}
  <2>1. C \subseteq Nat /\ C # {}
    <3>1. ASSUME NEW x \in S PROVE N - count(x) \in Nat
      <4>1. count(x) \in Nat /\ count(x) <= N
        BY <1>1
      <4> QED
        BY <1>2, <4>1
    <3> QED
      BY <3>1
  <2>2. PICK c \in C : \A d \in C : c <= d
    BY <2>1, LeastNatural
  <2>3. PICK x \in S : c = N - count(x)
    BY <2>2
  <2>4. ASSUME NEW y \in S, x < y PROVE FALSE
    <3>1. count(x) < count(y) /\ N - count(y) \in C /\ count(y) \in Nat /\ count(x) \in Nat
      BY <1>1, <2>4
    <3> HIDE DEF C
    <3>2. N - count(x) <= N - count(y)
      BY <2>2, <2>3, <3>1
    <3> QED
      BY <1>2, <3>1, <3>2
  <2> QED
    BY <2>4
<1>5. Min(S) \in S /\ \A y \in S : Min(S) <= y
  BY <1>3 DEF Min
<1>6. Max(S) \in S /\ \A y \in S : Max(S) >= y
  BY <1>4 DEF Max
<1> QED
  BY <1>5, <1>6

-----------------------------------------------------------------------------
(* FlattenSeq, one sequence after the other.                               *)

FlattensBy(f, ss) ==
  /\ ss # <<>> => FlattenSeq(ss) = f[Len(ss)]
  /\ \A i \in 1..Len(ss) : f[i] = IF i = 1 THEN ss[i] ELSE f[i - 1] \o ss[i]

LEMMA Flattens ==
  ASSUME NEW E, NEW ss \in Seq(E)
  PROVE  \E f : FlattensBy(f, ss)
<1> DEFINE At(g, i) == IF i = 1 THEN ss[i] ELSE g[i - 1] \o ss[i]
           Upto(g, n) == [i \in 1..n |-> At(g, i)]
           T == {n \in Nat : \E g : g = Upto(g, n)}
           N == Len(ss)
<1>1. N \in Nat /\ (ss # <<>> => N # 0)
  OBVIOUS
<1>2. 0 \in T
  <2>1. \A g : Upto(g, 0) = <<>>
    OBVIOUS
  <2> HIDE DEF Upto
  <2> QED
    BY <2>1
<1>3. ASSUME NEW n \in Nat, n \in T PROVE n + 1 \in T
  <2>1. PICK g : g = Upto(g, n)
    BY <1>3
  <2> DEFINE h == [i \in 1..(n + 1) |-> At(g, i)]
  <2>2. \A i \in 1..n : h[i] = g[i]
    <3> HIDE DEF At
    <3>1. \A i \in 1..n : g[i] = At(g, i) /\ i \in 1..(n + 1)
      BY <2>1
    <3> QED
      BY <3>1
  <2>3. \A i \in 1..(n + 1) : i # 1 => i - 1 \in 1..n
    OBVIOUS
  <2>4. \A i \in 1..(n + 1) : At(h, i) = At(g, i)
    <3> HIDE DEF h
    <3> QED
      BY <2>2, <2>3
  <2>5. h = Upto(h, n + 1)
    <3> HIDE DEF At
    <3> QED
      BY <2>4
  <2> HIDE DEF h, Upto
  <2> QED
    BY <2>5
<1>4. PICK g : g = Upto(g, N)
  <2> HIDE DEF T
  <2>1. N \in T
    <3>1. Nat \subseteq T
      BY <1>2, <1>3, StepByStep
    <3> QED
      BY <1>1, <3>1
  <2> QED
    BY <2>1 DEF T
<1> DEFINE f == CHOOSE flatten : flatten = Upto(flatten, N)
<1>5. ss # <<>> => FlattenSeq(ss) = f[Len(ss)]
  BY <1>1 DEF FlattenSeq
<1>6. f = Upto(f, N)
  <2> HIDE DEF Upto
  <2> QED
    BY <1>4
<1> HIDE DEF f
<1>7. \A i \in 1..N : f[i] = At(f, i)
  BY <1>6
<1>8. FlattensBy(f, ss)
  BY <1>5, <1>7 DEF FlattensBy
<1> QED
  BY <1>8

LEMMA FlattenAppends ==
  ASSUME NEW E, NEW ss \in Seq(Seq(E)), NEW s \in Seq(E)
  PROVE  FlattenSeq(Append(ss, s)) = FlattenSeq(ss) \o s
<1> DEFINE N == Len(ss)
           tt == Append(ss, s)
<1>1. /\ N \in Nat /\ tt \in Seq(Seq(E)) /\ Len(tt) = N + 1 /\ tt # <<>>
      /\ tt[N + 1] = s /\ \A i \in 1..N : tt[i] = ss[i]
      /\ (ss = <<>> <=> N = 0)
  <2> DEFINE X == Seq(E)
  <2>1. ss \in Seq(X) /\ s \in X
    OBVIOUS
  <2> HIDE DEF X
  <2>2. N \in Nat /\ tt \in Seq(X) /\ Len(tt) = N + 1 /\ (ss = <<>> <=> N = 0)
    BY <2>1
  <2>3. tt[N + 1] = s /\ \A i \in 1..N : tt[i] = ss[i]
    BY <2>1, AppendProperties
  <2>4. tt # <<>>
    BY <2>2
  <2> QED
    BY <2>2, <2>3, <2>4 DEF X
<1> HIDE DEF tt
<1>2. PICK f : FlattensBy(f, ss)
  BY Flattens
<1>3. PICK g : FlattensBy(g, tt)
  BY <1>1, Flattens
<1> DEFINE T == {n \in Nat : n + 1 <= N => f[n + 1] = g[n + 1]}
<1>4. \A i \in 1..N : /\ f[i] = IF i = 1 THEN ss[i] ELSE f[i - 1] \o ss[i]
                      /\ g[i] = IF i = 1 THEN ss[i] ELSE g[i - 1] \o ss[i]
  BY <1>1, <1>2, <1>3 DEF FlattensBy
<1>5. 0 \in T
  <2>1. 1 <= N => 1 \in 1..N
    BY <1>1
  <2> QED
    BY <1>4, <2>1
<1>6. ASSUME NEW n \in Nat, n \in T PROVE n + 1 \in T
  <2> SUFFICES ASSUME n + 2 <= N PROVE f[n + 2] = g[n + 2]
    OBVIOUS
  <2>1. n + 1 <= N /\ n + 2 \in 1..N /\ n + 2 # 1 /\ (n + 2) - 1 = n + 1
    BY <1>1
  <2>2. f[n + 1] = g[n + 1]
    BY <1>6, <2>1
  <2> QED
    BY <1>4, <2>1, <2>2
<1>7. N # 0 => f[N] = g[N]
  <2> HIDE DEF T
  <2>1. Nat \subseteq T
    BY <1>5, <1>6, StepByStep
  <2>2. N # 0 => N - 1 \in Nat /\ (N - 1) + 1 = N /\ N <= N
    BY <1>1
  <2> QED
    BY <2>1, <2>2 DEF T
<1>8. /\ FlattenSeq(tt) = g[N + 1]
      /\ g[N + 1] = IF N = 0 THEN s ELSE g[N] \o s
  <2>1. N + 1 \in 1..Len(tt) /\ (N + 1 = 1 <=> N = 0) /\ (N + 1) - 1 = N
    BY <1>1
  <2> QED
    BY <1>1, <1>3, <2>1 DEF FlattensBy
<1>9. FlattenSeq(ss) = IF N = 0 THEN <<>> ELSE f[N]
  <2>1. N = 0 => FlattenSeq(ss) = <<>>
    BY <1>1 DEF FlattenSeq
  <2> QED
    BY <1>1, <1>2, <2>1 DEF FlattensBy
<1>10. <<>> \o s = s
  OBVIOUS
<1> QED
  BY <1>1, <1>7, <1>8, <1>9, <1>10 DEF tt

(* The flattened prefixes.                                                *)
LEMMA FlattenPrefixes ==
  ASSUME NEW E, NEW ss \in Seq(Seq(E))
  PROVE  \E F \in [0..Len(ss) -> Seq(E)] :
           /\ F[0] = <<>> /\ F[Len(ss)] = FlattenSeq(ss)
           /\ \A i \in 1..Len(ss) : F[i] = F[i - 1] \o ss[i]
<1> DEFINE N == Len(ss)
           V == Seq(E)
<1>1. N \in Nat /\ (ss = <<>> <=> N = 0) /\ \A i \in 1..N : ss[i] \in V
  <2>1. ss \in Seq(V)
    OBVIOUS
  <2> HIDE DEF V
  <2> QED
    BY <2>1
<1>2. PICK f : FlattensBy(f, ss)
  BY Flattens
<1>3. /\ N # 0 => FlattenSeq(ss) = f[N]
      /\ \A i \in 1..N : f[i] = IF i = 1 THEN ss[i] ELSE f[i - 1] \o ss[i]
  BY <1>1, <1>2 DEF FlattensBy
<1>4. N = 0 => FlattenSeq(ss) = <<>>
  BY <1>1 DEF FlattenSeq
<1> DEFINE F == [i \in 0..N |-> IF i = 0 THEN <<>> ELSE f[i]]
<1>5. \A v \in V : <<>> \o v = v
  OBVIOUS
<1>6. ASSUME NEW i \in 1..N PROVE F[i] = F[i - 1] \o ss[i]
  <2>1. F[i] = f[i] /\ F[i - 1] = IF i = 1 THEN <<>> ELSE f[i - 1]
    BY <1>1
  <2> HIDE DEF F
  <2>2. CASE i = 1
    BY <1>1, <1>3, <1>5, <2>1, <2>2
  <2>3. CASE i # 1
    BY <1>3, <2>1, <2>3
  <2> QED
    BY <2>2, <2>3
<1>7. /\ F[0] = <<>> /\ F[N] = FlattenSeq(ss) /\ F = [i \in 0..N |-> F[i]]
  BY <1>1, <1>3, <1>4
<1> HIDE DEF F
<1> DEFINE T == {n \in Nat : n <= N => F[n] \in V}
<1>8. 0 \in T
  <2>1. <<>> \in V
    OBVIOUS
  <2> QED
    BY <1>7, <2>1
<1>9. ASSUME NEW n \in Nat, n \in T PROVE n + 1 \in T
  <2> SUFFICES ASSUME n + 1 <= N PROVE F[n + 1] \in V
    OBVIOUS
  <2>1. n + 1 \in 1..N /\ (n + 1) - 1 = n /\ F[n] \in V
    BY <1>1, <1>9
  <2>2. F[n + 1] = F[n] \o ss[n + 1] /\ ss[n + 1] \in V
    BY <1>1, <1>6, <2>1
  <2> QED
    BY <2>1, <2>2, ConcatProperties
<1>10. \A n \in 0..N : F[n] \in V
  <2> HIDE DEF T
  <2>1. Nat \subseteq T
    BY <1>8, <1>9, StepByStep
  <2> QED
    BY <1>1, <2>1 DEF T
<1>11. F \in [0..N -> V]
  BY <1>7, <1>10
<1> QED
  BY <1>6, <1>7, <1>11

-----------------------------------------------------------------------------
Once(s) == \A i, k \in DOMAIN s : s[i] = s[k] => i = k

(* Nothing waits twice when as many wait as there are places.              *)
LEMMA OnceCounts ==
  ASSUME NEW S, NEW s \in Seq(S)
  PROVE  /\ IsFiniteSet(ToSet(s)) /\ ToSet(s) \subseteq S
         /\ Cardinality(ToSet(s)) = Len(s) <=> Once(s)
<1>1. Len(s) \in Nat /\ DOMAIN s = 1..Len(s) /\ s \in [1..Len(s) -> ToSet(s)]
  BY LenProperties DEF ToSet
<1>2. ToSet(s) \subseteq S
  BY <1>1 DEF ToSet
<1>3. s \in Surjection(1..Len(s), ToSet(s))
  BY <1>1 DEF Surjection, ToSet
<1>4. IsFiniteSet(1..Len(s)) /\ Cardinality(1..Len(s)) = Len(s)
  BY <1>1, FS_Interval
<1>5. /\ IsFiniteSet(ToSet(s))
      /\ Cardinality(ToSet(s)) = Cardinality(1..Len(s))
           <=> s \in Injection(1..Len(s), ToSet(s))
  BY <1>3, <1>4, FS_Surjection
<1>6. s \in Injection(1..Len(s), ToSet(s)) <=> Once(s)
  BY <1>1 DEF Injection, IsInjective, Once
<1> QED
  BY <1>2, <1>4, <1>5, <1>6

(* Who joins the queue stands behind the others.                           *)
LEMMA AppendHolds ==
  ASSUME NEW S, NEW s \in Seq(S), NEW e \in S
  PROVE  /\ Append(s, e) \in Seq(S)
         /\ ToSet(Append(s, e)) = ToSet(s) \cup {e}
         /\ Once(s) /\ e \notin ToSet(s) => Once(Append(s, e))
<1>1. /\ DOMAIN s = 1..Len(s) /\ Len(s) \in Nat
      /\ Append(s, e) \in Seq(S)
      /\ DOMAIN Append(s, e) = 1..(Len(s) + 1)
      /\ \A i \in 1..Len(s) : Append(s, e)[i] = s[i]
      /\ Append(s, e)[Len(s) + 1] = e
  OBVIOUS
<1>2. \A i \in 1..(Len(s) + 1) : i \in 1..Len(s) \/ i = Len(s) + 1
  BY <1>1
<1>3. \A i \in 1..Len(s) : s[i] \in ToSet(s)
  BY <1>1 DEF ToSet
<1>4. ToSet(Append(s, e)) = ToSet(s) \cup {e}
  BY <1>1, <1>2 DEF ToSet
<1>5. Once(s) /\ e \notin ToSet(s) => Once(Append(s, e))
  BY <1>1, <1>2, <1>3 DEF Once
<1> QED
  BY <1>1, <1>4, <1>5

(* Who is served is no longer in the queue.                                *)
LEMMA TailHolds ==
  ASSUME NEW S, NEW s \in Seq(S), s # <<>>, Once(s)
  PROVE  /\ Tail(s) \in Seq(S)
         /\ Head(s) \in ToSet(s)
         /\ ToSet(Tail(s)) = ToSet(s) \ {Head(s)}
         /\ Once(Tail(s))
<1>1. /\ Len(s) \in Nat \ {0} /\ DOMAIN s = 1..Len(s) /\ Head(s) = s[1]
      /\ Tail(s) \in Seq(S)
      /\ DOMAIN Tail(s) = 1..(Len(s) - 1)
      /\ \A i \in 1..(Len(s) - 1) : Tail(s)[i] = s[i + 1]
  OBVIOUS
<1>2. \A i \in 1..(Len(s) - 1) : i + 1 \in 1..Len(s) /\ i + 1 # 1
  BY <1>1
<1>3. \A i \in 1..Len(s) : i # 1 => i - 1 \in 1..(Len(s) - 1) /\ (i - 1) + 1 = i
  BY <1>1
<1>4. ToSet(Tail(s)) \subseteq ToSet(s) \ {Head(s)}
  BY <1>1, <1>2 DEF ToSet, Once
<1>5. ASSUME NEW x \in ToSet(s) \ {Head(s)} PROVE x \in ToSet(Tail(s))
  <2>1. PICK i \in 1..Len(s) : s[i] = x
    BY <1>1 DEF ToSet
  <2>2. i # 1
    BY <2>1, <1>1
  <2>3. i - 1 \in DOMAIN Tail(s) /\ Tail(s)[i - 1] = x
    BY <2>1, <2>2, <1>1, <1>3
  <2> QED
    BY <2>3 DEF ToSet
<1>6. Once(Tail(s))
  BY <1>1, <1>2 DEF Once
<1>7. Head(s) \in ToSet(s)
  BY <1>1 DEF ToSet
<1> QED
  BY <1>1, <1>4, <1>5, <1>6, <1>7

(* Who gives up leaves the others as they are.                             *)
LEMMA RemoveAtHolds ==
  ASSUME NEW S, NEW s \in Seq(S), Once(s), NEW p \in DOMAIN s
  PROVE  /\ RemoveAt(s, p) \in Seq(S)
         /\ ToSet(RemoveAt(s, p)) = ToSet(s) \ {s[p]}
         /\ Once(RemoveAt(s, p))
<1> DEFINE t == RemoveAt(s, p)
           n == Len(s)
           from(i) == IF i < p THEN i ELSE i + 1
<1>1. n \in Nat /\ DOMAIN s = 1..n /\ p \in 1..n
  OBVIOUS
<1>2. /\ SubSeq(s, 1, p - 1) \in Seq(S) /\ Len(SubSeq(s, 1, p - 1)) = p - 1
      /\ \A i \in 1..(p - 1) : SubSeq(s, 1, p - 1)[i] = s[i]
  BY <1>1
<1>3. /\ SubSeq(s, p + 1, n) \in Seq(S) /\ Len(SubSeq(s, p + 1, n)) = n - p
      /\ \A i \in 1..(n - p) : SubSeq(s, p + 1, n)[i] = s[p + i]
  BY <1>1
<1>4. /\ t \in Seq(S) /\ Len(t) = n - 1
      /\ \A i \in 1..(n - 1) : t[i] = s[from(i)]
  <2> DEFINE a == SubSeq(s, 1, p - 1)
             b == SubSeq(s, p + 1, n)
  <2>1. /\ a \in Seq(S) /\ Len(a) = p - 1 /\ b \in Seq(S) /\ Len(b) = n - p
        /\ \A i \in 1..(p - 1) : a[i] = s[i]
        /\ \A i \in 1..(n - p) : b[i] = s[p + i]
    BY <1>2, <1>3
  <2> HIDE DEF a, b
  <2>2. /\ a \o b \in Seq(S) /\ Len(a \o b) = n - 1
        /\ \A i \in 1..(n - 1) : (a \o b)[i] = IF i <= p - 1 THEN a[i] ELSE b[i - (p - 1)]
    <3>1. /\ a \o b \in Seq(S) /\ Len(a \o b) = Len(a) + Len(b)
          /\ \A i \in 1..(Len(a) + Len(b)) :
               (a \o b)[i] = IF i <= Len(a) THEN a[i] ELSE b[i - Len(a)]
      BY <2>1, ConcatProperties
    <3>2. Len(a) + Len(b) = n - 1
      BY <2>1, <1>1
    <3> QED
      BY <2>1, <3>1, <3>2
  <2>3. ASSUME NEW i \in 1..(n - 1) PROVE (a \o b)[i] = s[from(i)]
    <3>1. CASE i < p
      <4>1. i \in 1..(p - 1) /\ i <= p - 1 /\ from(i) = i
        BY <3>1, <1>1
      <4> QED
        BY <4>1, <2>1, <2>2, <2>3
    <3>2. CASE ~(i < p)
      <4>1. /\ i - (p - 1) \in 1..(n - p) /\ p + (i - (p - 1)) = i + 1
            /\ ~(i <= p - 1) /\ from(i) = i + 1
        BY <3>2, <1>1
      <4>2. b[i - (p - 1)] = s[p + (i - (p - 1))]
        BY <4>1, <2>1
      <4>3. (a \o b)[i] = b[i - (p - 1)]
        BY <4>1, <2>2
      <4>4. s[from(i)] = s[p + (i - (p - 1))]
        BY <4>1
      <4> QED
        BY <4>2, <4>3, <4>4
    <3> QED
      BY <3>1, <3>2
  <2>4. t = a \o b
    BY DEF RemoveAt, a, b
  <2> QED
    BY <2>2, <2>3, <2>4
<1>5. DOMAIN t = 1..(n - 1)
  BY <1>4
<1>6. /\ \A i \in 1..(n - 1) : from(i) \in 1..n /\ from(i) # p
      /\ \A i, k \in 1..(n - 1) : from(i) = from(k) => i = k
      /\ \A j \in 1..n : j # p => \E i \in 1..(n - 1) : from(i) = j
  <2>1. ASSUME NEW j \in 1..n, j # p PROVE \E i \in 1..(n - 1) : from(i) = j
    <3>1. CASE j < p
      BY <3>1, <1>1
    <3>2. CASE j > p
      <4>1. j - 1 \in 1..(n - 1) /\ from(j - 1) = j
        BY <3>2, <1>1
      <4> QED
        BY <4>1
    <3> QED
      BY <3>1, <3>2, <2>1, <1>1
  <2> QED
    BY <1>1, <2>1
<1> HIDE DEF t, from
<1>7. ToSet(t) = ToSet(s) \ {s[p]}
  <2>1. ToSet(t) = {s[from(i)] : i \in 1..(n - 1)}
    BY <1>4, <1>5 DEF ToSet
  <2>2. ToSet(s) = {s[j] : j \in 1..n}
    BY <1>1 DEF ToSet
  <2>3. ASSUME NEW i \in 1..(n - 1) PROVE s[from(i)] \in ToSet(s) /\ s[from(i)] # s[p]
    BY <2>2, <1>1, <1>6 DEF Once
  <2>4. ASSUME NEW x \in ToSet(s), x # s[p] PROVE x \in {s[from(i)] : i \in 1..(n - 1)}
    <3>1. PICK j \in 1..n : s[j] = x
      BY <2>2
    <3>2. PICK i \in 1..(n - 1) : from(i) = j
      BY <3>1, <2>4, <1>6
    <3> QED
      BY <3>1, <3>2
  <2> QED
    BY <2>1, <2>3, <2>4
<1>8. Once(t)
  BY <1>1, <1>4, <1>5, <1>6 DEF Once
<1> QED
  BY <1>4, <1>7, <1>8 DEF t
=============================================================================

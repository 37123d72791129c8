---------------------------- MODULE TemplaterProofs ----------------------------
(***************************************************************************)
(* Machine-checked proofs about template derivation, profiles and masking, *)
(* for every alphabet, every set of lines and every order of calls: the    *)
(* alignment of two token lists is a longest common subsequence of them    *)
(* (Alignment), a profile's summaries are true of its members (Summaries), *)
(* a placeholder captures the word that varies (Slots), and lines that     *)
(* differ in numbers share a group (Numbers).                              *)
(***************************************************************************)
EXTENDS Templater, DataLemmas

-----------------------------------------------------------------------------
(* Lists of numbers, sorted numbers, and elements chosen from a sequence.   *)

(* at lists the n numbers of S in order.                                   *)
Lists(at, n, S) ==
  /\ n \in Nat /\ n = Cardinality(S) /\ IsFiniteSet(S) /\ at \in [1..n -> S]
  /\ \A p, q \in 1..n : p < q => at[p] < at[q]
  /\ \A i \in S : \E p \in 1..n : at[p] = i
  /\ \A p \in 1..n : Cardinality({j \in S : j < at[p]}) = p - 1

(* Ascending(S) lists a finite set of numbers.                             *)
LEMMA AscendingLists ==
  ASSUME NEW S, S \subseteq Nat, IsFiniteSet(S)
  PROVE  Lists(Ascending(S), Cardinality(S), S)
<1> DEFINE below(i) == {j \in S : j < i}
           n == Cardinality(S)
           r == [i \in S |-> Cardinality(below(i)) + 1]
           at == Ascending(S)
<1>1. n \in Nat /\ IsFiniteSet(1..n) /\ Cardinality(1..n) = n
  <2>1. n \in Nat /\ 1 \in Int
    BY FS_CardinalityType
  <2> HIDE DEF n
  <2>2. n \in Int /\ IsFiniteSet(1..n) /\ Cardinality(1..n) = IF 1 > n THEN 0 ELSE n - 1 + 1
    BY <2>1, FS_Interval
  <2> QED
    BY <2>1, <2>2
<1>2. \A T \in SUBSET S : IsFiniteSet(T) /\ Cardinality(T) \in Nat /\ Cardinality(T) <= n
                          /\ (Cardinality(T) = n => T = S)
  BY FS_Subset, FS_CardinalityType
<1>3. \A i \in S : Cardinality(below(i)) \in Nat /\ r[i] = Cardinality(below(i)) + 1 /\ r[i] \in 1..n
  <2>1. ASSUME NEW i \in S PROVE Cardinality(below(i)) \in Nat /\ Cardinality(below(i)) < n
    <3>1. below(i) \in SUBSET S /\ i \notin below(i) /\ i \in S
      OBVIOUS
    <3> HIDE DEF below
    <3>2. Cardinality(below(i)) \in Nat /\ Cardinality(below(i)) <= n /\ Cardinality(below(i)) # n
      BY <1>2, <3>1
    <3> HIDE DEF n
    <3> QED
      BY <1>1, <3>2
  <2>2. \A i \in S : r[i] = Cardinality(below(i)) + 1
    OBVIOUS
  <2> HIDE DEF below, r, n
  <2> QED
    BY <1>1, <2>1, <2>2
<1>0. \A i \in S : i \in Nat /\ r[i] \in Nat
  <2>1. 1..n \subseteq Nat
    BY <1>1
  <2> HIDE DEF r, n
  <2> QED
    BY <1>3, <2>1
<1>4. ASSUME NEW i \in S, NEW k \in S, i < k PROVE r[i] < r[k]
  <2>1. below(i) \in SUBSET below(k) /\ i \in below(k) /\ i \notin below(i)
    <3>1. i \in Nat /\ k \in Nat /\ \A j \in S : j \in Nat
      OBVIOUS
    <3>2. (\A j \in S : j < i => j < k) /\ ~(i < i)
      BY <1>4, <3>1
    <3> QED
      BY <1>4, <3>2
  <2>2. IsFiniteSet(below(k)) /\ Cardinality(below(k)) \in Nat /\ Cardinality(below(i)) \in Nat
    BY <1>2
  <2> HIDE DEF below
  <2>3. Cardinality(below(i)) <= Cardinality(below(k)) /\ Cardinality(below(i)) # Cardinality(below(k))
    BY <2>1, <2>2, FS_Subset
  <2> HIDE DEF r
  <2> QED
    BY <1>3, <2>2, <2>3
<1> HIDE DEF r, n
<1>5. r \in Injection(S, 1..n)
  <2>1. r \in [S -> 1..n]
    BY <1>3 DEF r
  <2>2. ASSUME NEW i \in S, NEW k \in S, r[i] = r[k] PROVE i = k
    <3>1. r[i] \in Nat /\ r[k] \in Nat /\ i \in Nat /\ k \in Nat
      BY <1>0, <1>3
    <3> QED
      BY <1>4, <2>2, <3>1
  <2> QED
    BY <2>1, <2>2 DEF Injection, IsInjective
<1>6. r \in Surjection(S, 1..n)
  BY <1>1, <1>5, FS_Injection DEF n
<1>7. \A p \in 1..n : \E i \in S : r[i] = p
  BY <1>6 DEF Surjection
<1>8. at = [p \in 1..n |-> CHOOSE i \in S : Cardinality(below(i)) = p - 1]
  BY DEF Ascending, n
<1>9. ASSUME NEW p \in 1..n PROVE at[p] \in S /\ r[at[p]] = p /\ Cardinality(below(at[p])) = p - 1
  <2>1. \E i \in S : Cardinality(below(i)) = p - 1
    <3>1. PICK i \in S : r[i] = p
      BY <1>7
    <3>2. Cardinality(below(i)) \in Nat /\ p = Cardinality(below(i)) + 1
      BY <1>3, <3>1
    <3> HIDE DEF below
    <3>3. Cardinality(below(i)) = p - 1
      BY <3>2
    <3> QED
      BY <3>3
  <2> HIDE DEF below
  <2>2. at[p] \in S /\ Cardinality(below(at[p])) = p - 1
    BY <1>8, <2>1
  <2>3. p \in Nat /\ (p - 1) + 1 = p
    BY <1>1
  <2> QED
    BY <1>3, <2>2, <2>3
<1>10. at \in [1..n -> S]
  BY <1>8, <1>9
<1>11. ASSUME NEW p \in 1..n, NEW q \in 1..n, p < q PROVE at[p] < at[q]
  <2>1. at[p] \in S /\ at[q] \in S /\ r[at[p]] < r[at[q]] /\ at[p] \in Nat /\ at[q] \in Nat
    BY <1>9, <1>11
  <2>2. r[at[q]] \in Nat /\ r[at[p]] \in Nat
    BY <1>0, <2>1
  <2>3. ~(at[q] < at[p]) /\ at[q] # at[p]
    BY <1>4, <2>1, <2>2
  <2> QED
    BY <2>1, <2>3
<1>12. ASSUME NEW i \in S PROVE \E p \in 1..n : at[p] = i
  <2>1. r[i] \in 1..n /\ r[at[r[i]]] = r[i] /\ at[r[i]] \in S
    BY <1>3, <1>9
  <2> QED
    BY <1>5, <2>1 DEF Injection, IsInjective
<1>13. \A p \in 1..n : Cardinality({j \in S : j < at[p]}) = p - 1
  BY <1>9
<1> HIDE DEF at
<1>14. Lists(at, n, S)
  BY <1>1, <1>10, <1>11, <1>12, <1>13 DEF Lists, n
<1> QED
  BY <1>14 DEF at, n

(* Selected elements.                                                      *)
LEMMA SelectedElements ==
  ASSUME NEW E, NEW s \in Seq(E), NEW S \in SUBSET (DOMAIN s)
  PROVE  \E at : /\ Lists(at, Cardinality(S), S)
                 /\ Selected(s, S) \in Seq(E) /\ Len(Selected(s, S)) = Cardinality(S)
                 /\ \A i \in 1..Cardinality(S) : Selected(s, S)[i] = s[at[i]]
<1> DEFINE n == Cardinality(S)
           at == Ascending(S)
           t == Selected(s, S)
<1>1. IsFiniteSet(S) /\ S \subseteq Nat
  <2>1. IsFiniteSet(1..Len(s)) /\ DOMAIN s = 1..Len(s)
    BY FS_Interval
  <2> QED
    BY <2>1, FS_Subset
<1>2. Lists(at, n, S)
  BY <1>1, AscendingLists
<1>3. n \in Nat /\ DOMAIN at = 1..n /\ at \in [1..n -> S]
  BY <1>2 DEF Lists
<1>4. t = [i \in 1..n |-> s[at[i]]]
  <2> HIDE DEF n
  <2> QED
    BY <1>3 DEF Selected
<1> HIDE DEF at, n, t
<1>5. \A i \in 1..n : s[at[i]] \in E
  BY <1>3
<1>6. t \in Seq(E) /\ Len(t) = n /\ \A i \in 1..n : t[i] = s[at[i]]
  BY <1>3, <1>4, <1>5
<1> QED
  BY <1>2, <1>6 DEF n, t

(* The k-th of the sorted numbers: fewer than k are below it, at least k   *)
(* are not above it.                                                       *)
Below(numbers, x) == {i \in DOMAIN numbers : numbers[i] < x}
Upon(numbers, x) == {i \in DOMAIN numbers : numbers[i] <= x}

(* Every place of a sequence of numbers has its number once it is sorted.  *)
LEMMA SortedIsThere ==
  ASSUME NEW numbers \in Seq(Int), NEW k \in 1..Len(numbers)
  PROVE  /\ Sorted(numbers, k) \in Int
         /\ Cardinality(Below(numbers, Sorted(numbers, k))) < k
         /\ Cardinality(Upon(numbers, Sorted(numbers, k))) >= k
<1> DEFINE N == Len(numbers)
           R == ToSet(numbers)
           X == {x \in R : Cardinality(Upon(numbers, x)) >= k}
<1>1. /\ N \in Nat /\ DOMAIN numbers = 1..N /\ k \in 1..N
      /\ \A i \in 1..N : numbers[i] \in Int /\ numbers[i] \in R
  BY DEF ToSet
<1>2. IsFiniteSet(1..N) /\ Cardinality(1..N) = N
  <2>1. 1 \in Int /\ N \in Int
    BY <1>1
  <2>2. IsFiniteSet(1..N) /\ Cardinality(1..N) = IF 1 > N THEN 0 ELSE N - 1 + 1
    BY <2>1, FS_Interval
  <2> QED
    BY <1>1, <2>2
<1> HIDE DEF N
<1>3. R \subseteq Int /\ IsFiniteSet(R) /\ \A x \in R : \E i \in 1..N : numbers[i] = x
  <2>1. \A x \in R : \E i \in 1..N : numbers[i] = x
    BY <1>1 DEF ToSet
  <2>2. numbers \in [1..N -> R]
    BY <1>1
  <2>3. numbers \in Surjection(1..N, R)
    BY <2>1, <2>2 DEF Surjection
  <2>4. R \subseteq Int
    BY <1>1, <2>1
  <2> HIDE DEF R
  <2>5. IsFiniteSet(R)
    BY <1>2, <2>3, FS_Surjection
  <2> QED
    BY <2>1, <2>4, <2>5
<1>4. \A T \in SUBSET (1..N) : IsFiniteSet(T) /\ Cardinality(T) \in Nat
  BY <1>2, FS_Subset, FS_CardinalityType
<1>5. \A x : /\ Below(numbers, x) \in SUBSET (1..N) /\ Upon(numbers, x) \in SUBSET (1..N)
             /\ Cardinality(Below(numbers, x)) \in Nat /\ Cardinality(Upon(numbers, x)) \in Nat
  BY <1>1, <1>4 DEF Below, Upon
<1>6. R # {}
  BY <1>1
<1>7. Max(R) \in X
  <2>1. Max(R) \in R /\ \A x \in R : x <= Max(R)
    BY <1>3, <1>6, FiniteSetsAreBounded
  <2>2. Upon(numbers, Max(R)) = 1..N
    BY <1>1, <2>1 DEF Upon
  <2> QED
    BY <1>1, <1>2, <2>1, <2>2
<1>8. X \subseteq Int /\ IsFiniteSet(X)
  <2>1. X \in SUBSET R
    OBVIOUS
  <2> HIDE DEF X, R
  <2> QED
    BY <1>3, <2>1, FS_Subset
<1> DEFINE x == Min(X)
<1>9. x \in X /\ \A y \in X : x <= y
  <2> HIDE DEF X
  <2> QED
    BY <1>7, <1>8, FiniteSetsAreBounded
<1> HIDE DEF x
<1>10. x \in R /\ x \in Int /\ Cardinality(Upon(numbers, x)) >= k
  BY <1>3, <1>9
<1> HIDE DEF X
<1>11. Cardinality(Below(numbers, x)) < k
  <2> SUFFICES ASSUME Cardinality(Below(numbers, x)) >= k PROVE FALSE
    BY <1>1, <1>5
  <2> DEFINE B == {y \in R : y < x}
  <2>1. B # {}
    <3>1. Below(numbers, x) # {}
      <4> SUFFICES ASSUME Below(numbers, x) = {} PROVE FALSE
        OBVIOUS
      <4>1. Cardinality(Below(numbers, x)) = 0 /\ k \in Nat /\ k >= 1
        BY <1>1, FS_EmptySet
      <4> QED
        BY <4>1
    <3> QED
      BY <1>1, <3>1 DEF Below
  <2>2. B \subseteq Int /\ IsFiniteSet(B)
    <3>1. B \in SUBSET R
      OBVIOUS
    <3> HIDE DEF B, R
    <3> QED
      BY <1>3, <3>1, FS_Subset
  <2> DEFINE y == Max(B)
  <2>3. y \in B /\ \A z \in B : z <= y
    <3> HIDE DEF B
    <3> QED
      BY <2>1, <2>2, FiniteSetsAreBounded
  <2> HIDE DEF y
  <2>4. Below(numbers, x) = Upon(numbers, y)
    <3>1. ASSUME NEW i \in 1..N PROVE numbers[i] < x <=> numbers[i] <= y
      <4>1. y \in Int /\ y < x /\ numbers[i] \in Int /\ numbers[i] \in R /\ x \in Int
        BY <1>1, <1>3, <1>10, <2>3
      <4>2. numbers[i] < x => numbers[i] <= y
        BY <2>3, <4>1
      <4>3. numbers[i] <= y => numbers[i] < x
        BY <4>1
      <4> QED
        BY <4>2, <4>3
    <3> QED
      BY <1>1, <3>1 DEF Below, Upon
  <2>5. y \in X
    BY <2>3, <2>4 DEF X
  <2>6. y \in Int /\ y < x
    BY <1>3, <2>3
  <2> QED
    BY <1>9, <1>10, <2>5, <2>6
<1>12. \E y \in R : Cardinality(Below(numbers, y)) < k /\ Cardinality(Upon(numbers, y)) >= k
  BY <1>10, <1>11
<1>13. Sorted(numbers, k) = CHOOSE y \in R : /\ Cardinality(Below(numbers, y)) < k
                                            /\ Cardinality(Upon(numbers, y)) >= k
  BY DEF Sorted, Below, Upon
<1> HIDE DEF R
<1>14. /\ Sorted(numbers, k) \in R
       /\ Cardinality(Below(numbers, Sorted(numbers, k))) < k
       /\ Cardinality(Upon(numbers, Sorted(numbers, k))) >= k
  BY <1>12, <1>13
<1> QED
  BY <1>3, <1>14

(* At least half of the numbers are on either side of their median.        *)
LEMMA MedianHalves ==
  ASSUME NEW numbers \in Seq(Int), numbers # <<>>
  PROVE  LET M == MedianTwice(numbers)
         IN  /\ M \in Int
             /\ 2 * Cardinality({i \in DOMAIN numbers : 2 * numbers[i] <= M}) >= Len(numbers)
             /\ 2 * Cardinality({i \in DOMAIN numbers : 2 * numbers[i] >= M}) >= Len(numbers)
<1> DEFINE N == Len(numbers)
           D == DOMAIN numbers
           i1 == (N + 1) \div 2
           i2 == N \div 2 + 1
           lo == Sorted(numbers, i1)
           hi == Sorted(numbers, i2)
           M == MedianTwice(numbers)
           low  == {i \in D : 2 * numbers[i] <= M}
           high == {i \in D : 2 * numbers[i] >= M}
<1>1. N \in Nat \ {0} /\ D = 1..N /\ \A i \in D : numbers[i] \in Int
  OBVIOUS
<1>2. M = lo + hi
  BY DEF MedianTwice
<1> HIDE DEF N, M
<1>3. i1 \in 1..N /\ i2 \in 1..N /\ 2 * i1 >= N /\ 2 * (i2 - 1) <= N /\ i1 <= i2
  BY <1>1
<1> HIDE DEF i1, i2
<1>4. /\ lo \in Int /\ Cardinality(Below(numbers, lo)) < i1 /\ Cardinality(Upon(numbers, lo)) >= i1
      /\ hi \in Int /\ Cardinality(Below(numbers, hi)) < i2 /\ Cardinality(Upon(numbers, hi)) >= i2
  BY <1>3, SortedIsThere DEF N
<1> HIDE DEF lo, hi
<1>5. IsFiniteSet(D) /\ Cardinality(D) = N
  <2>1. 1 \in Int /\ N \in Int
    BY <1>1
  <2>2. IsFiniteSet(1..N) /\ Cardinality(1..N) = IF 1 > N THEN 0 ELSE N - 1 + 1
    BY <2>1, FS_Interval
  <2> QED
    BY <1>1, <2>2
<1>6. \A T \in SUBSET D : IsFiniteSet(T) /\ Cardinality(T) \in Nat
  BY <1>5, FS_Subset, FS_CardinalityType
<1>7. \A x : /\ Below(numbers, x) \in SUBSET D /\ Upon(numbers, x) \in SUBSET D
             /\ Cardinality(Below(numbers, x)) \in Nat /\ Cardinality(Upon(numbers, x)) \in Nat
  BY <1>6 DEF Below, Upon
<1>8. lo <= hi
  <2> SUFFICES ASSUME hi < lo PROVE FALSE
    BY <1>4
  <2>1. Upon(numbers, hi) \in SUBSET Below(numbers, lo)
    BY <1>1, <1>4 DEF Upon, Below
  <2>2. Cardinality(Upon(numbers, hi)) <= Cardinality(Below(numbers, lo))
    BY <1>6, <1>7, <2>1, FS_Subset
  <2> QED
    BY <1>3, <1>4, <1>7, <2>2
<1>9. Upon(numbers, lo) \in SUBSET low /\ low \in SUBSET D /\ high \in SUBSET D
      /\ D \ Below(numbers, hi) \in SUBSET high
  BY <1>1, <1>2, <1>4, <1>8 DEF Upon, Below
<1> HIDE DEF low, high, D
<1>10. 2 * Cardinality(low) >= N
  <2>1. Cardinality(Upon(numbers, lo)) <= Cardinality(low) /\ Cardinality(low) \in Nat
    BY <1>6, <1>9, FS_Subset
  <2> QED
    BY <1>1, <1>3, <1>4, <1>7, <2>1
<1>11. 2 * Cardinality(high) >= N
  <2> DEFINE B == Below(numbers, hi)
  <2>1. B \in SUBSET D /\ D \ B \in SUBSET high /\ Cardinality(B) \in Nat /\ Cardinality(B) < i2
    BY <1>4, <1>7, <1>9
  <2> HIDE DEF B
  <2>2. Cardinality(D \ B) = N - Cardinality(B)
    <3>1. D \cap B = B
      BY <2>1
    <3> QED
      BY <1>5, <3>1, FS_Difference
  <2>3. Cardinality(D \ B) <= Cardinality(high) /\ Cardinality(high) \in Nat
    BY <1>6, <1>9, <2>1, FS_Subset
  <2> QED
    BY <1>1, <1>3, <2>1, <2>2, <2>3
<1>12. M \in Int
  BY <1>2, <1>4
<1> QED
  BY <1>10, <1>11, <1>12 DEF low, high, D, M, N

(* What num_re finds is a number.                                          *)
LEMMA FirstNumberIsInt ==
  ASSUME NEW E, NEW text \in Seq(E)
  PROVE  FirstNumber(text) \subseteq Int
<1> DEFINE signed(i) == text[i] = Minus /\ IsDigit(text, i + 1)
           starts == {i \in DOMAIN text : IsDigit(text, i) \/ signed(i)}
           start  == Min(starts)
           first  == IF signed(start) THEN start + 1 ELSE start
           run    == {j \in first..Len(text) : \A k \in first..j : IsDigit(text, k)}
           last   == Max(run)
           Body(w, j) == IF j < first THEN 0 ELSE 10 * w[j - 1] + Digit[text[j]]
           Table(w) == [j \in (first - 1)..last |-> Body(w, j)]
           whole  == CHOOSE w : w = Table(w)
           tenths == IF last < Len(text) /\ text[last + 1] = Point /\ IsDigit(text, last + 2)
                       THEN Digit[text[last + 2]] ELSE 0
<1>1. FirstNumber(text) =
        IF starts = {} THEN {}
        ELSE {(IF signed(start) THEN -1 ELSE 1) * (10 * whole[last] + tenths)}
  BY DEF FirstNumber
<1>2. \A i : IsDigit(text, i) => i \in DOMAIN text /\ Digit[text[i]] \in Nat
  BY ProfileAssumption DEF IsDigit
<1>3. Len(text) \in Nat /\ DOMAIN text = 1..Len(text)
  OBVIOUS
<1> SUFFICES ASSUME starts # {}
             PROVE  (IF signed(start) THEN -1 ELSE 1) * (10 * whole[last] + tenths) \in Int
  BY <1>1
<1>4. start \in starts
  <2>1. starts \subseteq Nat
    BY <1>3
  <2>2. \E x \in starts : \A y \in starts : x <= y
    <3> HIDE DEF starts
    <3> QED
      BY <2>1, LeastNatural
  <2> HIDE DEF starts
  <2> QED
    BY <2>2 DEF Min
<1>5. IsDigit(text, first) /\ first \in 1..Len(text)
  BY <1>2, <1>3, <1>4
<1> HIDE DEF first, start, starts
<1>6. last \in run
  <2>1. first \in run
    BY <1>3, <1>5
  <2>2. run \subseteq Int /\ IsFiniteSet(run)
    <3>1. run \in SUBSET (1..Len(text)) /\ IsFiniteSet(1..Len(text))
      BY <1>3, <1>5, FS_Interval
    <3>2. 1..Len(text) \subseteq Int
      BY <1>3
    <3> HIDE DEF run
    <3> QED
      BY <3>1, <3>2, FS_Subset
  <2> HIDE DEF run
  <2> QED
    BY <2>1, <2>2, FiniteSetsAreBounded
<1>7. /\ first \in Nat \ {0} /\ last \in Nat /\ first <= last
      /\ \A k \in first..last : IsDigit(text, k)
  BY <1>3, <1>5, <1>6
<1> HIDE DEF last, run
<1> DEFINE D == (first - 1)..last
           N == last - (first - 1)
           rank == [j \in D |-> j - (first - 1)]
           step == [q \in D \X [D -> Nat] |-> Body(q[2], q[1])]
<1>8. N \in Nat /\ \A j \in D : rank[j] = j - (first - 1) /\ j - (first - 1) \in 0..N
  BY <1>7
<1>9. \A j \in D : ~(j < first) => j - 1 \in D /\ rank[j - 1] < rank[j] /\ Digit[text[j]] \in Nat
  <2>1. ASSUME NEW j \in D, ~(j < first)
        PROVE  j - 1 \in D /\ (j - 1) - (first - 1) < j - (first - 1) /\ j \in first..last
    BY <1>7, <2>1
  <2> QED
    BY <1>2, <1>7, <1>8, <2>1
<1>10. Ranked(D, rank, N)
  <2>1. rank \in [D -> 0..N]
    BY <1>8
  <2> QED
    BY <1>8, <2>1 DEF Ranked
<1> HIDE DEF rank, D, N
<1>11. ASSUME NEW w, NEW j \in D, \A i \in D : rank[i] < rank[j] => w[i] \in Nat
       PROVE  Body(w, j) \in Nat
  <2>1. CASE j < first
    BY <2>1
  <2>2. CASE ~(j < first)
    <3>1. w[j - 1] \in Nat /\ Digit[text[j]] \in Nat
      BY <1>9, <1>11, <2>2
    <3>2. 10 * w[j - 1] + Digit[text[j]] \in Nat
      BY <3>1
    <3> QED
      BY <2>2, <3>2
  <2> QED
    BY <2>1, <2>2
<1>12. Recursion(step, D, rank, Nat)
  <2>1. step \in [D \X [D -> Nat] -> Nat]
    <3>1. \A q \in D \X [D -> Nat] : Body(q[2], q[1]) \in Nat
      BY <1>11
    <3> HIDE DEF Body
    <3> QED
      BY <3>1
  <2>2. ASSUME NEW j \in D, NEW f \in [D -> Nat], NEW g \in [D -> Nat],
               \A i \in D : rank[i] < rank[j] => f[i] = g[i]
        PROVE  step[<<j, f>>] = step[<<j, g>>]
    <3>1. step[<<j, f>>] = Body(f, j) /\ step[<<j, g>>] = Body(g, j)
      OBVIOUS
    <3>2. CASE j < first
      BY <3>1, <3>2
    <3>3. CASE ~(j < first)
      <4>1. f[j - 1] = g[j - 1]
        BY <1>9, <2>2, <3>3
      <4> QED
        BY <3>1, <4>1
    <3> QED
      BY <3>2, <3>3
  <2> HIDE DEF step
  <2> QED
    BY <2>1, <2>2 DEF Recursion
<1>13. /\ \A w \in [D -> Nat], j \in D : step[<<j, w>>] = Body(w, j)
       /\ \A w : Table(w) = [j \in D |-> Body(w, j)]
  BY DEF D
<1> HIDE DEF step, Body, Table
<1>14. PICK w \in [D -> Nat] : \A j \in D : w[j] = step[<<j, w>>]
  BY <1>10, <1>12, RecursionExists
<1>15. w = Table(w)
  BY <1>13, <1>14
<1>16. whole = Table(whole)
  BY <1>15
<1> HIDE DEF whole
<1>17. \A j \in D : whole[j] = Body(whole, j)
  BY <1>13, <1>16
<1> DEFINE T == {j \in D : whole[j] \in Nat}
<1>18. D \subseteq T
  <2>1. \A j \in D : (\A i \in D : rank[i] < rank[j] => i \in T) => j \in T
    BY <1>11, <1>17
  <2> HIDE DEF T
  <2>2. Inherited(T, D, rank)
    BY <2>1 DEF Inherited
  <2> QED
    BY <1>10, <2>2, ByRank
<1>19. whole[last] \in Nat
  <2>1. last \in D
    BY <1>7 DEF D
  <2> QED
    BY <1>18, <2>1
<1>20. tenths \in Nat
  BY <1>2
<1> HIDE DEF tenths, T
<1>21. 10 * whole[last] + tenths \in Int
  BY <1>19, <1>20
<1> DEFINE n == 10 * whole[last] + tenths
<1>22. n \in Int /\ (IF signed(start) THEN -1 ELSE 1) * n \in Int
  <2>1. n \in Int
    BY <1>21
  <2> HIDE DEF n
  <2>2. -1 * n \in Int /\ 1 * n \in Int
    BY <2>1
  <2> QED
    BY <2>1, <2>2
<1> QED
  BY <1>22

(* What is at a place was first seen there or before.                      *)
LEMMA FirstOccurs ==
  ASSUME NEW E, NEW values \in Seq(E), NEW r \in 1..Len(values)
  PROVE  \E i \in FirstSeen(values) : i <= r /\ values[i] = values[r]
<1> DEFINE N == Len(values)
           P == {i \in 1..N : values[i] = values[r]}
<1>1. N \in Nat /\ DOMAIN values = 1..N /\ r \in 1..N
  OBVIOUS
<1>2. P \subseteq Nat /\ r \in P
  BY <1>1
<1>3. PICK i \in P : \A j \in P : i <= j
  <2> HIDE DEF P
  <2> QED
    BY <1>2, LeastNatural
<1>4. i \in 1..N /\ values[i] = values[r] /\ i <= r
  BY <1>2, <1>3
<1>5. ASSUME NEW j \in 1..(i - 1) PROVE values[j] # values[i]
  <2>1. j \in 1..N /\ ~(i <= j)
    BY <1>1, <1>4
  <2>2. j \notin P
    BY <1>3, <2>1
  <2> QED
    BY <1>4, <2>1, <2>2
<1> QED
  BY <1>1, <1>4, <1>5 DEF FirstSeen

(* There are as many first occurrences as values.                          *)
LEMMA FirstSeenCounts ==
  ASSUME NEW E, NEW values \in Seq(E)
  PROVE  Cardinality(FirstSeen(values)) = Cardinality(ToSet(values))
<1> DEFINE F == FirstSeen(values)
           V == ToSet(values)
           N == Len(values)
           f == [i \in F |-> values[i]]
<1>1. N \in Nat /\ DOMAIN values = 1..N /\ F \in SUBSET (1..N) /\ IsFiniteSet(1..N)
  <2>1. N \in Nat /\ DOMAIN values = 1..N /\ F \in SUBSET (1..N)
    BY DEF FirstSeen
  <2> HIDE DEF N, F
  <2>2. IsFiniteSet(1..N)
    BY <2>1, FS_Interval
  <2> QED
    BY <2>1, <2>2
<1>2. IsFiniteSet(F)
  <2> HIDE DEF F, N
  <2> QED
    BY <1>1, FS_Subset
<1>3. f \in [F -> V]
  BY <1>1 DEF ToSet
<1>4. ASSUME NEW x \in V PROVE \E i \in F : f[i] = x
  <2>1. PICK r \in 1..N : values[r] = x
    BY <1>1 DEF ToSet
  <2>2. PICK i \in F : i <= r /\ values[i] = values[r]
    BY <2>1, FirstOccurs
  <2> QED
    BY <2>1, <2>2
<1>5. ASSUME NEW i \in F, NEW j \in F, f[i] = f[j] PROVE i = j
  <2>1. i \in 1..N /\ j \in 1..N /\ values[i] = values[j]
    BY <1>1, <1>5
  <2>2. ~(i < j) /\ ~(j < i)
    <3>1. \A k \in 1..(i - 1) : values[k] # values[i]
      BY DEF FirstSeen
    <3>2. \A k \in 1..(j - 1) : values[k] # values[j]
      BY DEF FirstSeen
    <3>3. i < j => i \in 1..(j - 1)
      BY <1>1, <2>1
    <3>4. j < i => j \in 1..(i - 1)
      BY <1>1, <2>1
    <3> QED
      BY <2>1, <3>1, <3>2, <3>3, <3>4
  <2> QED
    BY <1>1, <2>1, <2>2
<1> HIDE DEF f, F, V
<1>6. f \in Bijection(F, V)
  BY <1>3, <1>4, <1>5 DEF Bijection, Injection, Surjection, IsInjective
<1>7. ExistsBijection(F, V)
  BY <1>6 DEF ExistsBijection
<1>8. Cardinality(V) = Cardinality(F)
  BY <1>2, <1>7, FS_Bijection
<1> QED
  BY <1>8 DEF F, V

(* Max, of two numbers.                                                    *)
LEMMA GreaterOfTwo ==
  ASSUME NEW x \in Nat, NEW y \in Nat
  PROVE  Max({x, y}) = IF x >= y THEN x ELSE y
<1>1. \E z \in {x, y} : \A v \in {x, y} : z >= v
  OBVIOUS
<1>2. Max({x, y}) \in {x, y} /\ \A v \in {x, y} : Max({x, y}) >= v
  BY <1>1 DEF Max
<1> QED
  BY <1>2

-----------------------------------------------------------------------------
(* The alignment. *)

(* Where the alignment of two sequences goes on.                           *)
PlacePairs(a, b) == (1..(Len(a) + 1)) \X (1..(Len(b) + 1))

(* How much is left to align. *)
Rest(a, b) == [at \in PlacePairs(a, b) |-> (Len(a) + 1 - at[1]) + (Len(b) + 1 - at[2])]

(* The equations of the table. *)
TableStep(dp, a, b, i, j) ==
  IF i > Len(a) \/ j > Len(b) THEN 0
  ELSE IF a[i] = b[j] THEN dp[<<i + 1, j + 1>>] + 1
  ELSE IF Skips(dp, i, j) THEN dp[<<i + 1, j>>]
  ELSE dp[<<i, j + 1>>]

LEMMA Suffix ==
  ASSUME NEW E, NEW a \in Seq(E), NEW b \in Seq(E)
  PROVE  /\ Len(a) \in Nat /\ Len(b) \in Nat
         /\ Rest(a, b) \in [PlacePairs(a, b) -> 0..(Len(a) + Len(b))]
         /\ \A i \in 1..Len(a), j \in 1..Len(b) :
              /\ <<i + 1, j>> \in PlacePairs(a, b)
              /\ <<i, j + 1>> \in PlacePairs(a, b)
              /\ <<i + 1, j + 1>> \in PlacePairs(a, b)
              /\ Rest(a, b)[<<i + 1, j>>] < Rest(a, b)[<<i, j>>]
              /\ Rest(a, b)[<<i, j + 1>>] < Rest(a, b)[<<i, j>>]
              /\ Rest(a, b)[<<i + 1, j + 1>>] < Rest(a, b)[<<i, j>>]
<1>1. Len(a) \in Nat /\ Len(b) \in Nat
  OBVIOUS
<1>2. \A at \in PlacePairs(a, b) : at[1] \in 1..(Len(a) + 1) /\ at[2] \in 1..(Len(b) + 1)
  BY DEF PlacePairs
<1>3. \A at \in PlacePairs(a, b) : (Len(a) + 1 - at[1]) + (Len(b) + 1 - at[2]) \in 0..(Len(a) + Len(b))
  <2> DEFINE n == Len(a)
             m == Len(b)
  <2>1. \A i \in 1..(n + 1), j \in 1..(m + 1) : (n + 1 - i) + (m + 1 - j) \in 0..(n + m)
    <3>1. n \in Nat /\ m \in Nat
      BY <1>1
    <3> HIDE DEF n, m
    <3> QED
      BY <3>1
  <2> QED
    BY <1>2, <2>1
<1>4. Rest(a, b) \in [PlacePairs(a, b) -> 0..(Len(a) + Len(b))]
  BY <1>3 DEF Rest
<1>5. ASSUME NEW i \in 1..Len(a), NEW j \in 1..Len(b)
      PROVE  /\ <<i, j>> \in PlacePairs(a, b)
             /\ <<i + 1, j>> \in PlacePairs(a, b)
             /\ <<i, j + 1>> \in PlacePairs(a, b)
             /\ <<i + 1, j + 1>> \in PlacePairs(a, b)
  BY <1>1 DEF PlacePairs
<1>6. ASSUME NEW i \in 1..Len(a), NEW j \in 1..Len(b)
      PROVE  /\ Rest(a, b)[<<i, j>>] = (Len(a) + 1 - i) + (Len(b) + 1 - j)
             /\ Rest(a, b)[<<i + 1, j>>] = (Len(a) + 1 - (i + 1)) + (Len(b) + 1 - j)
             /\ Rest(a, b)[<<i, j + 1>>] = (Len(a) + 1 - i) + (Len(b) + 1 - (j + 1))
             /\ Rest(a, b)[<<i + 1, j + 1>>] = (Len(a) + 1 - (i + 1)) + (Len(b) + 1 - (j + 1))
  BY <1>5 DEF Rest
<1>7. ASSUME NEW i \in 1..Len(a), NEW j \in 1..Len(b)
      PROVE  /\ Rest(a, b)[<<i + 1, j>>] < Rest(a, b)[<<i, j>>]
             /\ Rest(a, b)[<<i, j + 1>>] < Rest(a, b)[<<i, j>>]
             /\ Rest(a, b)[<<i + 1, j + 1>>] < Rest(a, b)[<<i, j>>]
  <2>1. \A n, m \in Nat, k, l \in Int :
          /\ (n + 1 - (k + 1)) + (m + 1 - l) < (n + 1 - k) + (m + 1 - l)
          /\ (n + 1 - k) + (m + 1 - (l + 1)) < (n + 1 - k) + (m + 1 - l)
          /\ (n + 1 - (k + 1)) + (m + 1 - (l + 1)) < (n + 1 - k) + (m + 1 - l)
    OBVIOUS
  <2>2. i \in Int /\ j \in Int
    OBVIOUS
  <2>3. /\ Rest(a, b)[<<i + 1, j>>] < Rest(a, b)[<<i, j>>]
        /\ Rest(a, b)[<<i, j + 1>>] < Rest(a, b)[<<i, j>>]
    BY <2>1, <2>2, <1>1, <1>6, ZenonT(30)
  <2>4. Rest(a, b)[<<i + 1, j + 1>>] < Rest(a, b)[<<i, j>>]
    BY <2>1, <2>2, <1>1, <1>6, ZenonT(30)
  <2> QED
    BY <2>3, <2>4
<1> QED
  BY <1>1, <1>4, <1>5, <1>7

(* LcsTable is a table of numbers that satisfies its equations.            *)
LEMMA TableHolds ==
  ASSUME NEW E, NEW a \in Seq(E), NEW b \in Seq(E)
  PROVE  \E dp \in [PlacePairs(a, b) -> Nat] :
           /\ dp = LcsTable(a, b)
           /\ \A at \in PlacePairs(a, b) : dp[at] = TableStep(dp, a, b, at[1], at[2])
<1> DEFINE n == Len(a)
           m == Len(b)
           N == n + m
           D == PlacePairs(a, b)
           rank == Rest(a, b)
           Step(dp, i, j) ==
             IF i > n \/ j > m THEN 0
             ELSE IF a[i] = b[j] THEN dp[<<i + 1, j + 1>>] + 1
             ELSE Max({dp[<<i + 1, j>>], dp[<<i, j + 1>>]})
           Table(dp) == [at \in D |-> Step(dp, at[1], at[2])]
           step == [q \in D \X [D -> Nat] |-> Step(q[2], q[1][1], q[1][2])]
<1>1. LcsTable(a, b) = CHOOSE dp : dp = Table(dp)
  BY DEF LcsTable, PlacePairs
<1>2. /\ n \in Nat /\ m \in Nat /\ N \in Nat
      /\ rank \in [D -> 0..N]
      /\ \A i \in 1..n, j \in 1..m :
           /\ <<i + 1, j>> \in D /\ <<i, j + 1>> \in D /\ <<i + 1, j + 1>> \in D
           /\ rank[<<i + 1, j>>] < rank[<<i, j>>] /\ rank[<<i, j + 1>>] < rank[<<i, j>>]
           /\ rank[<<i + 1, j + 1>>] < rank[<<i, j>>]
  <2>1. n \in Nat /\ m \in Nat
    OBVIOUS
  <2>2. N \in Nat
    BY <2>1
  <2> QED
    BY <2>1, <2>2, Suffix
<1>3. \A at \in D : /\ at = <<at[1], at[2]>> /\ at[1] \in 1..(n + 1) /\ at[2] \in 1..(m + 1)
  BY DEF PlacePairs
<1> HIDE DEF D, n, m, rank, N
<1>4. ASSUME NEW i \in 1..(n + 1), NEW j \in 1..(m + 1), ~(i > n \/ j > m)
      PROVE  i \in 1..n /\ j \in 1..m
  BY <1>2, <1>4
<1>5. ASSUME NEW f, NEW at \in D, \A y \in D : rank[y] < rank[at] => f[y] \in Nat
      PROVE  /\ Step(f, at[1], at[2]) \in Nat
             /\ Step(f, at[1], at[2]) = TableStep(f, a, b, at[1], at[2])
  <2> DEFINE i == at[1]
             j == at[2]
  <2>1. at = <<i, j>> /\ i \in 1..(n + 1) /\ j \in 1..(m + 1)
    BY <1>3
  <2> HIDE DEF i, j
  <2>2. CASE i > n \/ j > m
    BY <2>2 DEF TableStep, n, m, i, j
  <2>3. CASE ~(i > n \/ j > m)
    <3>1. i \in 1..n /\ j \in 1..m
      BY <1>4, <2>1, <2>3
    <3>2. /\ f[<<i + 1, j>>] \in Nat /\ f[<<i, j + 1>>] \in Nat /\ f[<<i + 1, j + 1>>] \in Nat
      BY <1>2, <1>5, <2>1, <3>1
    <3> DEFINE x == f[<<i + 1, j>>]
               y == f[<<i, j + 1>>]
    <3>3. Max({x, y}) = IF x >= y THEN x ELSE y
      <4>1. x \in Nat /\ y \in Nat
        BY <3>2
      <4> HIDE DEF x, y
      <4> QED
        BY <4>1, GreaterOfTwo
    <3>4. x = f[<<at[1] + 1, at[2]>>] /\ y = f[<<at[1], at[2] + 1>>]
      BY DEF i, j
    <3>5. Max({x, y}) \in Nat
      BY <3>2, <3>3
    <3> HIDE DEF x, y
    <3>6. Step(f, i, j) = IF a[i] = b[j] THEN f[<<i + 1, j + 1>>] + 1 ELSE Max({x, y})
      BY <2>3 DEF x, y
    <3>7. TableStep(f, a, b, i, j) = IF a[i] = b[j] THEN f[<<i + 1, j + 1>>] + 1
                                     ELSE IF x >= y THEN x ELSE y
      BY <2>3 DEF x, y, TableStep, Skips, n, m
    <3>8. Step(f, i, j) \in Nat /\ Step(f, i, j) = TableStep(f, a, b, i, j)
      BY <3>2, <3>3, <3>5, <3>6, <3>7
    <3> QED
      BY <3>8 DEF i, j
  <2> QED
    BY <2>2, <2>3
<1>6. ASSUME NEW at \in D, NEW f \in [D -> Nat], NEW g \in [D -> Nat],
             \A y \in D : rank[y] < rank[at] => f[y] = g[y]
      PROVE  Step(f, at[1], at[2]) = Step(g, at[1], at[2])
  <2>1. CASE at[1] > n \/ at[2] > m
    BY <2>1
  <2>2. CASE ~(at[1] > n \/ at[2] > m)
    <3> DEFINE i == at[1]
               j == at[2]
    <3>1. i \in 1..n /\ j \in 1..m /\ at = <<i, j>>
      BY <1>3, <1>4, <2>2
    <3> HIDE DEF i, j
    <3>2. /\ f[<<i + 1, j>>] = g[<<i + 1, j>>] /\ f[<<i, j + 1>>] = g[<<i, j + 1>>]
          /\ f[<<i + 1, j + 1>>] = g[<<i + 1, j + 1>>]
      BY <1>2, <1>6, <3>1
    <3>3. Step(f, i, j) = Step(g, i, j)
      BY <3>2
    <3> QED
      BY <3>3 DEF i, j
  <2> QED
    BY <2>1, <2>2
<1>7. \A f \in [D -> Nat], at \in D :
        step[<<at, f>>] = Step(f, at[1], at[2]) /\ Step(f, at[1], at[2]) \in Nat
  BY <1>5
<1>8. step \in [D \X [D -> Nat] -> Nat]
  BY <1>5
<1>9. \A f : /\ Table(f) = [at \in D |-> Table(f)[at]]
             /\ \A at \in D : Table(f)[at] = Step(f, at[1], at[2])
  OBVIOUS
<1> HIDE DEF step, Step, Table
<1>10. PICK dp \in [D -> Nat] : \A at \in D : dp[at] = step[<<at, dp>>]
  <2>1. \A x \in D : \A f, g \in [D -> Nat] :
          (\A y \in D : rank[y] < rank[x] => f[y] = g[y]) => step[<<x, f>>] = step[<<x, g>>]
    <3>1. SUFFICES ASSUME NEW x \in D, NEW f \in [D -> Nat], NEW g \in [D -> Nat],
                          \A y \in D : rank[y] < rank[x] => f[y] = g[y]
                   PROVE  step[<<x, f>>] = step[<<x, g>>]
      OBVIOUS
    <3>2. Step(f, x[1], x[2]) = Step(g, x[1], x[2])
      BY <1>6, <3>1
    <3> QED
      BY <1>7, <3>2
  <2>2. Ranked(D, rank, N)
    BY <1>2 DEF Ranked
  <2>3. Recursion(step, D, rank, Nat)
    BY <1>8, <2>1 DEF Recursion
  <2> QED
    BY <2>2, <2>3, RecursionExists
<1>11. dp = Table(dp)
  <2>1. dp = [at \in D |-> dp[at]] /\ \A at \in D : dp[at] = Table(dp)[at]
    BY <1>7, <1>9, <1>10
  <2> QED
    BY <1>9, <2>1
<1> DEFINE t == LcsTable(a, b)
<1>12. t = Table(t)
  BY <1>1, <1>11
<1> HIDE DEF t
<1>13. \A at \in D : t[at] = Step(t, at[1], at[2])
  BY <1>9, <1>12
<1> DEFINE T == {at \in D : t[at] \in Nat}
<1>14. ASSUME NEW at \in D, \A y \in D : rank[y] < rank[at] => y \in T PROVE at \in T
  BY <1>5, <1>13, <1>14
<1>15. D \subseteq T
  <2>1. Ranked(D, rank, N)
    BY <1>2 DEF Ranked
  <2> HIDE DEF T
  <2>2. Inherited(T, D, rank)
    BY <1>14 DEF Inherited
  <2> QED
    BY <2>1, <2>2, ByRank
<1>16. t \in [D -> Nat]
  <2>1. t = [at \in D |-> t[at]]
    BY <1>9, <1>12
  <2> QED
    BY <1>15, <2>1
<1>17. \A at \in D : t[at] = TableStep(t, a, b, at[1], at[2])
  BY <1>5, <1>13, <1>15
<1> QED
  BY <1>16, <1>17 DEF D, t

(* The matches follow the table.                                           *)
MatchStep(f, dp, a, b, i, j) ==
  IF i > Len(a) \/ j > Len(b) THEN <<>>
  ELSE IF a[i] = b[j] THEN << <<i, j>> >> \o f[<<i + 1, j + 1>>]
  ELSE IF Skips(dp, i, j) THEN f[<<i + 1, j>>]
  ELSE f[<<i, j + 1>>]

(* LcsMatches is computed by its equations too.                            *)
LEMMA MatchesFollow ==
  ASSUME NEW E, NEW a \in Seq(E), NEW b \in Seq(E)
  PROVE  \E from :
           /\ from[<<1, 1>>] = LcsMatches(a, b)
           /\ \A at \in PlacePairs(a, b) :
                from[at] = MatchStep(from, LcsTable(a, b), a, b, at[1], at[2])
<1> DEFINE n == Len(a)
           m == Len(b)
           N == n + m
           D == PlacePairs(a, b)
           V == Seq(Nat \X Nat)
           rank == Rest(a, b)
           dp == LcsTable(a, b)
           Step(f, i, j) == MatchStep(f, dp, a, b, i, j)
           Body(f, at, i, j) ==
             IF i > n \/ j > m THEN <<>>
             ELSE IF a[i] = b[j] THEN << at >> \o f[<<i + 1, j + 1>>]
             ELSE IF Skips(dp, i, j) THEN f[<<i + 1, j>>]
             ELSE f[<<i, j + 1>>]
           From(f) == [at \in D |-> Body(f, at, at[1], at[2])]
           step == [q \in D \X [D -> V] |-> Step(q[2], q[1][1], q[1][2])]
<1>1. LcsMatches(a, b) = (CHOOSE f : f = From(f))[<<1, 1>>]
  BY DEF LcsMatches, PlacePairs
<1>2. /\ n \in Nat /\ m \in Nat /\ N \in Nat
      /\ rank \in [D -> 0..N]
      /\ \A i \in 1..n, j \in 1..m :
           /\ <<i + 1, j>> \in D /\ <<i, j + 1>> \in D /\ <<i + 1, j + 1>> \in D
           /\ rank[<<i + 1, j>>] < rank[<<i, j>>] /\ rank[<<i, j + 1>>] < rank[<<i, j>>]
           /\ rank[<<i + 1, j + 1>>] < rank[<<i, j>>]
  <2>1. n \in Nat /\ m \in Nat
    OBVIOUS
  <2>2. N \in Nat
    BY <2>1
  <2> QED
    BY <2>1, <2>2, Suffix
<1>3. \A at \in D : at = <<at[1], at[2]>> /\ at[1] \in 1..(n + 1) /\ at[2] \in 1..(m + 1)
  BY DEF PlacePairs
<1>4. \A f, at : at = <<at[1], at[2]>> => Body(f, at, at[1], at[2]) = Step(f, at[1], at[2])
  BY DEF MatchStep
<1> HIDE DEF Body, D, n, m, rank, N
<1>5. ASSUME NEW at \in D, ~(at[1] > n \/ at[2] > m)
      PROVE  at[1] \in 1..n /\ at[2] \in 1..m
  <2>1. at[1] \in 1..(n + 1) /\ at[2] \in 1..(m + 1)
    BY <1>3
  <2> DEFINE i == at[1]
             j == at[2]
  <2>2. i \in 1..(n + 1) /\ j \in 1..(m + 1) /\ ~(i > n) /\ ~(j > m)
    BY <1>5, <2>1
  <2> HIDE DEF i, j
  <2>3. i \in 1..n /\ j \in 1..m
    BY <1>2, <2>2
  <2> QED
    BY <2>3 DEF i, j
<1>6. ASSUME NEW at \in D, NEW f \in [D -> V] PROVE Step(f, at[1], at[2]) \in V
  <2> DEFINE i == at[1]
             j == at[2]
  <2>1. CASE i > n \/ j > m
    <3>1. Step(f, i, j) = <<>>
      BY <2>1 DEF MatchStep, n, m
    <3> QED
      BY <3>1
  <2>2. CASE ~(i > n \/ j > m)
    <3>1. i \in 1..n /\ j \in 1..m
      BY <1>5, <2>2
    <3>2. <<i + 1, j>> \in D /\ <<i, j + 1>> \in D /\ <<i + 1, j + 1>> \in D
      BY <1>2, <3>1
    <3>3. << <<i, j>> >> \in V
      <4>1. i \in Nat /\ j \in Nat
        BY <1>2, <3>1
      <4>2. <<i, j>> \in Nat \X Nat
        <5> HIDE DEF i, j
        <5> QED
          BY <4>1
      <4> QED
        BY <4>2
    <3>4. << <<i, j>> >> \o f[<<i + 1, j + 1>>] \in V
      <4>1. f[<<i + 1, j + 1>>] \in V
        BY <3>2
      <4> HIDE DEF i, j
      <4> QED
        BY <3>3, <4>1, ConcatProperties
    <3>5. f[<<i + 1, j>>] \in V /\ f[<<i, j + 1>>] \in V
      BY <3>2
    <3> HIDE DEF V, i, j, dp
    <3>6. MatchStep(f, dp, a, b, i, j) \in V
      BY <2>2, <3>4, <3>5 DEF MatchStep, n, m
    <3> QED
      BY <3>6 DEF i, j
  <2> QED
    BY <2>1, <2>2
<1>7. ASSUME NEW at \in D, NEW f \in [D -> V], NEW g \in [D -> V],
             \A y \in D : rank[y] < rank[at] => f[y] = g[y]
      PROVE  Step(f, at[1], at[2]) = Step(g, at[1], at[2])
  <2>1. CASE at[1] > n \/ at[2] > m
    BY <2>1 DEF MatchStep, n, m
  <2>2. CASE ~(at[1] > n \/ at[2] > m)
    <3> DEFINE i == at[1]
               j == at[2]
    <3>1. i \in 1..n /\ j \in 1..m /\ at = <<i, j>>
      BY <1>3, <1>5, <2>2
    <3> HIDE DEF i, j
    <3>2. /\ f[<<i + 1, j>>] = g[<<i + 1, j>>] /\ f[<<i, j + 1>>] = g[<<i, j + 1>>]
          /\ f[<<i + 1, j + 1>>] = g[<<i + 1, j + 1>>]
      BY <1>2, <1>7, <3>1
    <3>3. Step(f, i, j) = Step(g, i, j)
      BY <3>2 DEF MatchStep
    <3> QED
      BY <3>3 DEF i, j
  <2> QED
    BY <2>1, <2>2
<1> HIDE DEF V, Step
<1>8. \A f \in [D -> V], at \in D : step[<<at, f>>] = Step(f, at[1], at[2])
  OBVIOUS
<1>9. step \in [D \X [D -> V] -> V]
  BY <1>6
<1>10. \A f : /\ From(f) = [at \in D |-> From(f)[at]]
              /\ \A at \in D : From(f)[at] = Step(f, at[1], at[2])
  <2>1. \A f : /\ From(f) = [at \in D |-> From(f)[at]]
               /\ \A at \in D : From(f)[at] = Body(f, at, at[1], at[2])
    OBVIOUS
  <2> QED
    BY <1>3, <1>4, <2>1
<1> HIDE DEF step, From
<1>11. PICK h \in [D -> V] : \A at \in D : h[at] = step[<<at, h>>]
  <2>1. \A x \in D : \A f, g \in [D -> V] :
          (\A y \in D : rank[y] < rank[x] => f[y] = g[y]) => step[<<x, f>>] = step[<<x, g>>]
    <3>1. SUFFICES ASSUME NEW x \in D, NEW f \in [D -> V], NEW g \in [D -> V],
                          \A y \in D : rank[y] < rank[x] => f[y] = g[y]
                   PROVE  step[<<x, f>>] = step[<<x, g>>]
      OBVIOUS
    <3>2. Step(f, x[1], x[2]) = Step(g, x[1], x[2])
      BY <1>7, <3>1
    <3> QED
      BY <1>8, <3>2
  <2>2. Ranked(D, rank, N)
    BY <1>2 DEF Ranked
  <2>3. V # {}
    <3>1. <<>> \in V
      BY DEF V
    <3> QED
      BY <3>1
  <2>4. Recursion(step, D, rank, V)
    BY <1>9, <2>1, <2>3 DEF Recursion
  <2> QED
    BY <2>2, <2>4, RecursionExists
<1>12. h = From(h)
  <2>1. h = [at \in D |-> h[at]] /\ \A at \in D : h[at] = From(h)[at]
    BY <1>8, <1>10, <1>11
  <2> QED
    BY <1>10, <2>1
<1> DEFINE from == CHOOSE f : f = From(f)
<1>13. from = From(from)
  BY <1>12
<1> HIDE DEF from
<1>14. \A at \in D : from[at] = Step(from, at[1], at[2])
  BY <1>10, <1>13
<1>15. from[<<1, 1>>] = LcsMatches(a, b)
  BY <1>1 DEF from
<1> QED
  BY <1>14, <1>15 DEF D, Step

(* Places where equal tokens stand, from <<i, j>> on.                      *)
EqualFrom(a, b, i, j) == {p \in (i..Len(a)) \X (j..Len(b)) : a[p[1]] = b[p[2]]}

(* What the table says is a bound on the common subsequences.              *)
LEMMA TableBounds ==
  ASSUME NEW E, NEW a \in Seq(E), NEW b \in Seq(E)
  PROVE  \A at \in PlacePairs(a, b) : \A S \in SUBSET EqualFrom(a, b, at[1], at[2]) :
           InOrder(S) => Cardinality(S) <= LcsTable(a, b)[at]
<1> DEFINE n == Len(a)
           m == Len(b)
           N == n + m
           D == PlacePairs(a, b)
           rank == Rest(a, b)
           T == {at \in D : \A S \in SUBSET EqualFrom(a, b, at[1], at[2]) :
                   InOrder(S) => Cardinality(S) <= LcsTable(a, b)[at]}
<1>1. /\ n \in Nat /\ m \in Nat /\ N \in Nat
      /\ rank \in [D -> 0..N]
      /\ \A i \in 1..n, j \in 1..m :
           /\ <<i + 1, j>> \in D /\ <<i, j + 1>> \in D /\ <<i + 1, j + 1>> \in D
           /\ rank[<<i + 1, j>>] < rank[<<i, j>>] /\ rank[<<i, j + 1>>] < rank[<<i, j>>]
           /\ rank[<<i + 1, j + 1>>] < rank[<<i, j>>]
  <2>1. n \in Nat /\ m \in Nat
    OBVIOUS
  <2>2. N \in Nat
    BY <2>1
  <2> QED
    BY <2>1, <2>2, Suffix
<1>2. \A at \in D : at = <<at[1], at[2]>> /\ at[1] \in 1..(n + 1) /\ at[2] \in 1..(m + 1)
  BY DEF PlacePairs
<1>3. PICK dp \in [D -> Nat] :
        /\ dp = LcsTable(a, b)
        /\ \A at \in D : dp[at] = TableStep(dp, a, b, at[1], at[2])
  BY TableHolds
<1> HIDE DEF D, rank, N, n, m
<1>4. ASSUME NEW at \in D, \A y \in D : rank[y] < rank[at] => y \in T PROVE at \in T
  <2> DEFINE i == at[1]
             j == at[2]
  <2>1. at = <<i, j>> /\ i \in 1..(n + 1) /\ j \in 1..(m + 1)
    BY <1>2
  <2> HIDE DEF i, j
  <2>2. SUFFICES ASSUME NEW S \in SUBSET EqualFrom(a, b, i, j), InOrder(S)
                 PROVE  Cardinality(S) <= dp[at]
    BY <1>3 DEF i, j
  <2>3. \A p \in S : /\ p = <<p[1], p[2]>> /\ p[1] \in i..n /\ p[2] \in j..m
                     /\ a[p[1]] = b[p[2]]
    BY DEF EqualFrom, n, m
  <2>4. IsFiniteSet(S)
    <3>1. IsFiniteSet(i..n) /\ IsFiniteSet(j..m)
      <4>1. i \in Int /\ j \in Int /\ n \in Int /\ m \in Int
        BY <1>1, <2>1
      <4> QED
        BY <4>1, FS_Interval
    <3>2. IsFiniteSet((i..n) \X (j..m))
      BY <3>1, FS_Product
    <3>3. S \in SUBSET ((i..n) \X (j..m))
      BY DEF EqualFrom, n, m
    <3> QED
      BY <3>2, <3>3, FS_Subset
  <2>5. CASE i > n \/ j > m
    <3>1. S = {}
      BY <1>1, <2>1, <2>3, <2>5
    <3> QED
      BY <1>3, <3>1, FS_EmptySet
  <2>6. CASE ~(i > n \/ j > m)
    <3>1. i \in 1..n /\ j \in 1..m
      BY <1>1, <2>1, <2>6
    <3>2. /\ <<i + 1, j>> \in D /\ <<i, j + 1>> \in D /\ <<i + 1, j + 1>> \in D
          /\ <<i + 1, j>> \in T /\ <<i, j + 1>> \in T /\ <<i + 1, j + 1>> \in T
      <4>1. <<i + 1, j>> \in D /\ <<i, j + 1>> \in D /\ <<i + 1, j + 1>> \in D
        BY <1>1, <3>1
      <4>2. /\ rank[<<i + 1, j>>] < rank[at] /\ rank[<<i, j + 1>>] < rank[at]
            /\ rank[<<i + 1, j + 1>>] < rank[at]
        BY <1>1, <2>1, <3>1
      <4> HIDE DEF T
      <4> QED
        BY <1>4, <4>1, <4>2
    <3> DEFINE x == dp[<<i + 1, j>>]
               y == dp[<<i, j + 1>>]
               z == dp[<<i + 1, j + 1>>]
    <3>3. /\ \A R \in SUBSET EqualFrom(a, b, i + 1, j) : InOrder(R) => Cardinality(R) <= x
          /\ \A R \in SUBSET EqualFrom(a, b, i, j + 1) : InOrder(R) => Cardinality(R) <= y
          /\ \A R \in SUBSET EqualFrom(a, b, i + 1, j + 1) : InOrder(R) => Cardinality(R) <= z
      BY <1>3, <3>2
    <3>4. x \in Nat /\ y \in Nat /\ z \in Nat /\ dp[at] \in Nat
      BY <1>3, <3>2
    <3>5. dp[at] = IF a[i] = b[j] THEN z + 1 ELSE IF x >= y THEN x ELSE y
      <4>1. dp[at] = TableStep(dp, a, b, i, j)
        BY <1>3 DEF i, j
      <4> QED
        BY <2>6, <4>1 DEF TableStep, Skips, n, m
    <3> HIDE DEF x, y, z, T
    <3>6. \A p \in S : p[1] \in Nat /\ p[2] \in Nat /\ p[1] >= i /\ p[2] >= j /\ p[1] <= n /\ p[2] <= m
      BY <1>1, <2>3, <3>1
    <3>7. \A p, q \in S : p = q \/ (p[1] < q[1] /\ p[2] < q[2]) \/ (q[1] < p[1] /\ q[2] < p[2])
      BY <2>2 DEF InOrder
    <3> DEFINE Edge == {p \in S : p[1] = i \/ p[2] = j}
    <3>8. \A p, q \in Edge : p = q
      BY <3>1, <3>6, <3>7
    <3>9. \A p \in S \ Edge : p \in EqualFrom(a, b, i + 1, j + 1)
      <4>1. SUFFICES ASSUME NEW p \in S, p[1] # i, p[2] # j
                     PROVE  p \in EqualFrom(a, b, i + 1, j + 1)
        OBVIOUS
      <4>2. p[1] \in (i + 1)..n /\ p[2] \in (j + 1)..m
        <5> DEFINE x1 == p[1]
                   x2 == p[2]
        <5>1. /\ x1 \in Nat /\ x1 >= i /\ x1 <= n /\ x1 # i
              /\ x2 \in Nat /\ x2 >= j /\ x2 <= m /\ x2 # j
          BY <3>6, <4>1
        <5> HIDE DEF x1, x2
        <5>2. x1 \in (i + 1)..n /\ x2 \in (j + 1)..m
          BY <1>1, <3>1, <5>1
        <5> QED
          BY <5>2 DEF x1, x2
      <4> QED
        BY <2>3, <4>2 DEF EqualFrom, n, m
    <3>10. InOrder(S \ Edge)
      BY <3>7 DEF InOrder
    <3>11. Cardinality(S \ Edge) <= z
      BY <3>3, <3>9, <3>10
    <3>12. IsFiniteSet(S \ Edge) /\ Cardinality(S \ Edge) \in Nat /\ Cardinality(S) \in Nat
      <4>1. S \ Edge \in SUBSET S
        OBVIOUS
      <4> QED
        BY <2>4, <4>1, FS_Subset, FS_CardinalityType
    <3> HIDE DEF Edge
    <3>13. CASE a[i] = b[j]
      <4>1. dp[at] = z + 1
        BY <3>5, <3>13
      <4>2. CASE Edge = {}
        <5>1. S \ Edge = S
          BY <4>2
        <5>2. Cardinality(S) <= z
          BY <3>11, <5>1
        <5> QED
          BY <3>4, <3>12, <4>1, <5>2
      <4>3. CASE Edge # {}
        <5>1. PICK p \in S : Edge = {p}
          BY <3>8, <4>3 DEF Edge
        <5>2. Cardinality(S \ {p}) = Cardinality(S) - 1
          BY <2>4, FS_RemoveElement
        <5> QED
          BY <3>4, <3>11, <3>12, <4>1, <5>1, <5>2
      <4> QED
        BY <4>2, <4>3
    <3>14. CASE a[i] # b[j]
      <4>1. dp[at] = IF x >= y THEN x ELSE y
        BY <3>5, <3>14
      <4>2. CASE \A p \in S : p[1] # i
        <5>1. \A p \in S : p \in EqualFrom(a, b, i + 1, j)
          <6>1. SUFFICES ASSUME NEW p \in S PROVE p \in EqualFrom(a, b, i + 1, j)
            OBVIOUS
          <6>2. p[1] \in (i + 1)..n
            BY <1>1, <3>1, <3>6, <4>2
          <6> QED
            BY <2>3, <6>2 DEF EqualFrom, n, m
        <5>2. Cardinality(S) <= x
          BY <2>2, <3>3, <5>1
        <5> QED
          BY <3>4, <3>12, <4>1, <5>2
      <4>3. CASE \E p \in S : p[1] = i
        <5>1. PICK p \in S : p[1] = i
          BY <4>3
        <5>2. p[2] # j
          BY <2>3, <3>14, <5>1
        <5>3. \A q \in S : q \in EqualFrom(a, b, i, j + 1)
          <6>1. SUFFICES ASSUME NEW q \in S PROVE q \in EqualFrom(a, b, i, j + 1)
            OBVIOUS
          <6>2. q[2] # j
            BY <3>1, <3>6, <3>7, <5>1, <5>2
          <6>3. q[2] \in (j + 1)..m
            BY <1>1, <3>1, <3>6, <6>2
          <6> QED
            BY <2>3, <6>3 DEF EqualFrom, n, m
        <5>4. Cardinality(S) <= y
          BY <2>2, <3>3, <5>3
        <5> QED
          BY <3>4, <3>12, <4>1, <5>4
      <4> QED
        BY <4>2, <4>3
    <3> QED
      BY <3>13, <3>14
  <2> QED
    BY <2>5, <2>6
<1>5. D \subseteq T
  <2>1. Ranked(D, rank, N)
    BY <1>1 DEF Ranked
  <2> HIDE DEF T
  <2>2. Inherited(T, D, rank)
    BY <1>4 DEF Inherited
  <2> QED
    BY <2>1, <2>2, ByRank
<1> QED
  BY <1>5 DEF D

(* The matches from <<i, j>> on: equal tokens, in order, r of them.        *)
Aligned(ms, a, b, i, j, r) ==
  /\ ms \in Seq(Nat \X Nat) /\ Len(ms) = r
  /\ \A k \in 1..Len(ms) :
       /\ ms[k] \in EqualFrom(a, b, i, j)
       /\ k > 1 => ms[k - 1][1] < ms[k][1] /\ ms[k - 1][2] < ms[k][2]

(* LcsMatches aligns the two sequences, and is as long as the table says.  *)
LEMMA MatchesAlign ==
  ASSUME NEW E, NEW a \in Seq(E), NEW b \in Seq(E)
  PROVE  Aligned(LcsMatches(a, b), a, b, 1, 1, LcsTable(a, b)[<<1, 1>>])
<1> DEFINE n == Len(a)
           m == Len(b)
           N == n + m
           D == PlacePairs(a, b)
           rank == Rest(a, b)
<1>1. /\ n \in Nat /\ m \in Nat /\ N \in Nat
      /\ rank \in [D -> 0..N]
      /\ \A i \in 1..n, j \in 1..m :
           /\ <<i + 1, j>> \in D /\ <<i, j + 1>> \in D /\ <<i + 1, j + 1>> \in D
           /\ rank[<<i + 1, j>>] < rank[<<i, j>>] /\ rank[<<i, j + 1>>] < rank[<<i, j>>]
           /\ rank[<<i + 1, j + 1>>] < rank[<<i, j>>]
  <2>1. n \in Nat /\ m \in Nat
    OBVIOUS
  <2>2. N \in Nat
    BY <2>1
  <2> QED
    BY <2>1, <2>2, Suffix
<1>2. \A at \in D : at = <<at[1], at[2]>> /\ at[1] \in 1..(n + 1) /\ at[2] \in 1..(m + 1)
  BY DEF PlacePairs
<1>3. PICK dp \in [D -> Nat] :
        /\ dp = LcsTable(a, b)
        /\ \A at \in D : dp[at] = TableStep(dp, a, b, at[1], at[2])
  BY TableHolds
<1>4. PICK from :
        /\ from[<<1, 1>>] = LcsMatches(a, b)
        /\ \A at \in D : from[at] = MatchStep(from, dp, a, b, at[1], at[2])
  BY <1>3, MatchesFollow
<1>5. <<1, 1>> \in D
  BY <1>1 DEF PlacePairs
<1> DEFINE T == {at \in D : Aligned(from[at], a, b, at[1], at[2], dp[at])}
<1> HIDE DEF D, rank, N, n, m
<1>6. ASSUME NEW at \in D, \A y \in D : rank[y] < rank[at] => y \in T PROVE at \in T
  <2> DEFINE i == at[1]
             j == at[2]
  <2>1. at = <<i, j>> /\ i \in 1..(n + 1) /\ j \in 1..(m + 1)
    BY <1>2
  <2>2. dp[at] = TableStep(dp, a, b, i, j) /\ from[at] = MatchStep(from, dp, a, b, i, j)
    BY <1>3, <1>4
  <2> SUFFICES Aligned(from[at], a, b, i, j, dp[at])
    OBVIOUS
  <2> HIDE DEF i, j
  <2>3. CASE i > n \/ j > m
    <3>1. dp[at] = 0 /\ from[at] = <<>>
      BY <2>2, <2>3 DEF TableStep, MatchStep, n, m
    <3> QED
      BY <3>1 DEF Aligned
  <2>4. CASE ~(i > n \/ j > m)
    <3>1. i \in 1..n /\ j \in 1..m
      BY <1>1, <2>1, <2>4
    <3>2. /\ <<i + 1, j>> \in T /\ <<i, j + 1>> \in T /\ <<i + 1, j + 1>> \in T
      <4>1. <<i + 1, j>> \in D /\ <<i, j + 1>> \in D /\ <<i + 1, j + 1>> \in D
        BY <1>1, <3>1
      <4>2. /\ rank[<<i + 1, j>>] < rank[at] /\ rank[<<i, j + 1>>] < rank[at]
            /\ rank[<<i + 1, j + 1>>] < rank[at]
        BY <1>1, <2>1, <3>1
      <4> HIDE DEF T
      <4> QED
        BY <1>6, <4>1, <4>2
    <3> DEFINE down  == from[<<i + 1, j>>]
               right == from[<<i, j + 1>>]
               both  == from[<<i + 1, j + 1>>]
    <3>3. /\ Aligned(down, a, b, i + 1, j, dp[<<i + 1, j>>])
          /\ Aligned(right, a, b, i, j + 1, dp[<<i, j + 1>>])
          /\ Aligned(both, a, b, i + 1, j + 1, dp[<<i + 1, j + 1>>])
      BY <3>2
    <3>4. dp[at] = IF a[i] = b[j] THEN dp[<<i + 1, j + 1>>] + 1
                   ELSE IF Skips(dp, i, j) THEN dp[<<i + 1, j>>] ELSE dp[<<i, j + 1>>]
      BY <2>2, <2>4 DEF TableStep, n, m
    <3>5. from[at] = IF a[i] = b[j] THEN << <<i, j>> >> \o both
                     ELSE IF Skips(dp, i, j) THEN down ELSE right
      BY <2>2, <2>4 DEF MatchStep, n, m
    <3> HIDE DEF down, right, both, T
    <3>6. /\ EqualFrom(a, b, i + 1, j) \subseteq EqualFrom(a, b, i, j)
          /\ EqualFrom(a, b, i, j + 1) \subseteq EqualFrom(a, b, i, j)
          /\ EqualFrom(a, b, i + 1, j + 1) \subseteq EqualFrom(a, b, i, j)
      <4>1. /\ (i + 1)..n \subseteq i..n /\ (j + 1)..m \subseteq j..m
        BY <1>1, <3>1
      <4> QED
        BY <4>1 DEF EqualFrom, n, m
    <3>7. CASE a[i] = b[j]
      <4> DEFINE r == dp[<<i + 1, j + 1>>]
      <4>1. /\ both \in Seq(Nat \X Nat) /\ Len(both) = r
            /\ \A k \in 1..Len(both) :
                 /\ both[k] \in EqualFrom(a, b, i + 1, j + 1)
                 /\ k > 1 => both[k - 1][1] < both[k][1] /\ both[k - 1][2] < both[k][2]
        BY <3>3 DEF Aligned
      <4> DEFINE one == << <<i, j>> >>
                 ms  == one \o both
      <4>2. one \in Seq(Nat \X Nat) /\ Len(one) = 1 /\ one[1] = <<i, j>>
        <5>1. <<i, j>> \in Nat \X Nat
          BY <3>1
        <5> QED
          BY <5>1
      <4>3. /\ ms \in Seq(Nat \X Nat) /\ Len(ms) = r + 1 /\ ms[1] = <<i, j>>
            /\ \A k \in 1..(r + 1) : k > 1 => ms[k] = both[k - 1]
        <5> HIDE DEF one
        <5> DEFINE V == Nat \X Nat
        <5>1. both \in Seq(V) /\ one \in Seq(V) /\ Len(one) = 1 /\ Len(both) \in Nat
          BY <4>1, <4>2
        <5> HIDE DEF V
        <5>2. /\ one \o both \in Seq(V) /\ Len(one \o both) = Len(one) + Len(both)
              /\ \A k \in 1..(Len(one) + Len(both)) :
                   (one \o both)[k] = IF k <= Len(one) THEN one[k] ELSE both[k - Len(one)]
          BY <5>1, ConcatProperties
        <5>3. Len(ms) = r + 1 /\ Len(one) + Len(both) = r + 1
          BY <4>1, <5>1, <5>2
        <5>4. \A k \in 1..(r + 1) : ms[k] = IF k <= 1 THEN one[k] ELSE both[k - 1]
          BY <5>1, <5>2, <5>3
        <5>5. r \in Nat
          BY <4>1, <5>1
        <5>6. /\ 1 \in 1..(r + 1) /\ \A k \in 1..(r + 1) : k > 1 => ~(k <= 1)
          BY <5>5
        <5> HIDE DEF ms
        <5>7. \A k \in 1..(r + 1) : k > 1 => ms[k] = both[k - 1]
          BY <5>4, <5>6
        <5>8. ms[1] = IF 1 <= 1 THEN one[1] ELSE both[1 - 1]
          BY <5>4, <5>6
        <5>9. ms[1] = <<i, j>>
          BY <4>2, <5>8
        <5> QED
          BY <5>2, <5>3, <5>7, <5>9 DEF V, ms
      <4>4. from[at] = ms /\ dp[at] = r + 1
        BY <3>4, <3>5, <3>7
      <4> HIDE DEF ms, one, r
      <4>5. r \in Nat
        BY <4>1
      <4>6. <<i, j>> \in EqualFrom(a, b, i, j)
        <5>1. i \in i..n /\ j \in j..m
          BY <1>1, <3>1
        <5> QED
          BY <3>7, <5>1 DEF EqualFrom, n, m
      <4>7. \A p \in EqualFrom(a, b, i + 1, j + 1) : i < p[1] /\ j < p[2]
        BY <1>1, <3>1 DEF EqualFrom, n, m
      <4>8. ASSUME NEW k \in 1..(r + 1)
            PROVE  /\ ms[k] \in EqualFrom(a, b, i, j)
                   /\ k > 1 => ms[k - 1][1] < ms[k][1] /\ ms[k - 1][2] < ms[k][2]
        <5>1. CASE k = 1
          BY <4>3, <4>6, <5>1
        <5>2. CASE k # 1
          <6>1. k > 1 /\ k - 1 \in 1..r /\ ms[k] = both[k - 1]
            <7>1. k > 1 /\ k - 1 \in 1..r
              BY <4>5, <5>2
            <7> QED
              BY <4>3, <7>1
          <6>2. both[k - 1] \in EqualFrom(a, b, i + 1, j + 1)
            BY <4>1, <6>1
          <6>3. CASE k = 2
            <7>1. ms[k - 1] = <<i, j>>
              BY <4>3, <6>3
            <7> QED
              BY <3>6, <4>7, <6>1, <6>2, <7>1
          <6>4. CASE k # 2
            <7>1. k - 1 > 1 /\ k - 1 \in 1..(r + 1)
              BY <4>5, <6>1, <6>4
            <7>2. ms[k - 1] = both[(k - 1) - 1]
              BY <4>3, <7>1
            <7> QED
              BY <3>6, <4>1, <6>1, <6>2, <7>1, <7>2
          <6> QED
            BY <6>3, <6>4
        <5> QED
          BY <5>1, <5>2
      <4> QED
        BY <4>3, <4>4, <4>8 DEF Aligned
    <3>8. CASE a[i] # b[j]
      BY <3>3, <3>4, <3>5, <3>6, <3>8 DEF Aligned
    <3> QED
      BY <3>7, <3>8
  <2> QED
    BY <2>3, <2>4
<1>7. D \subseteq T
  <2>1. Ranked(D, rank, N)
    BY <1>1 DEF Ranked
  <2> HIDE DEF T
  <2>2. Inherited(T, D, rank)
    BY <1>6 DEF Inherited
  <2> QED
    BY <2>1, <2>2, ByRank
<1>8. Aligned(from[<<1, 1>>], a, b, 1, 1, dp[<<1, 1>>])
  BY <1>5, <1>7
<1> QED
  BY <1>3, <1>4, <1>8

-----------------------------------------------------------------------------
(* The words of a line are a sequence.                                     *)
LEMMA WordsAreASequence ==
  ASSUME NEW E, NEW line \in Seq(E)
  PROVE  WhitespaceTokens(line) \in Seq(ToSet(WhitespaceTokens(line)))
<1> DEFINE starts == {i \in DOMAIN line : Inked(line, i) /\ (i > 1 => ~Inked(line, i - 1))}
           n == Cardinality(starts)
           w == WhitespaceTokens(line)
<1>1. n \in Nat
  <2>1. IsFiniteSet(1..Len(line)) /\ Len(line) \in Nat
    BY FS_Interval
  <2>2. starts \in SUBSET (1..Len(line))
    OBVIOUS
  <2> QED
    BY <2>1, <2>2, FS_Subset, FS_CardinalityType
<1>2. DOMAIN Spans(line, starts) = 1..n
  BY DEF Spans, Ascending
<1>3. w = Texts(line, Spans(line, starts))
  BY DEF WhitespaceTokens
<1> HIDE DEF starts, n
<1>4. w = [p \in 1..n |-> w[p]]
  BY <1>2, <1>3 DEF Texts
<1> HIDE DEF w
<1>5. \A p \in 1..n : w[p] \in ToSet(w)
  BY <1>4 DEF ToSet
<1> QED
  BY <1>1, <1>4, <1>5 DEF w

(* The lines in the log are lines of the batch.                            *)
LinesLogged ==
  /\ grouper \in Groupers
  /\ log \in Seq(ToSet(log))
  /\ \A i \in DOMAIN log : log[i].line \in EngineLines /\ log[i].line[1] = grouper

(* A logged line is made of characters.                                    *)
LEMMA LoggedLine ==
  ASSUME NEW i \in DOMAIN log, LinesLogged
  PROVE  log[i].line[2] \in Seq(DOMAIN Kind)
BY TemplaterAssumption DEF LinesLogged, EngineLines

(* The log holds lines of the engine, in every state.                      *)
LEMMA LinesAreLogged == Spec => []LinesLogged
<1>1. Init => LinesLogged
  BY DEF Init, Engine!Init, LinesLogged, ToSet
<1>2. LinesLogged /\ [Next]_vars => LinesLogged'
  <2> SUFFICES ASSUME LinesLogged, [Next]_vars PROVE LinesLogged'
    OBVIOUS
  <2>0. grouper' = grouper
    BY DEF Next, vars, GroupLine, TemplateGroups
  <2>1. ASSUME log' = log PROVE LinesLogged'
    BY <2>0, <2>1 DEF LinesLogged
  <2>2. ASSUME GroupLine PROVE LinesLogged'
    <3>1. PICK line \in Lines : Engine!AddLogMessage(<<grouper, line>>)
      BY <2>2 DEF GroupLine
    <3>2. <<grouper, line>> \in EngineLines
      BY DEF EngineLines, LinesLogged
    <3>3. \E c, u : Engine!Record(<<grouper, line>>, c, u)
      BY <3>1 DEF Engine!AddLogMessage, Engine!UpdateCluster, Engine!CreateCluster
    <3>4. PICK c, u : log' = Append(log, [line |-> <<grouper, line>>, id |-> c, update |-> u])
      BY <3>3 DEF Engine!Record
    <3> DEFINE e == [line |-> <<grouper, line>>, id |-> c, update |-> u]
               S == ToSet(log) \cup {e}
    <3>5. /\ log \in Seq(S) /\ e \in S /\ log' = Append(log, e)
          /\ e.line \in EngineLines /\ e.line[1] = grouper
      BY <3>2, <3>4 DEF LinesLogged
    <3> HIDE DEF e, S
    <3>6. /\ log' \in Seq(S) /\ Len(log) \in Nat /\ Len(log') = Len(log) + 1
          /\ DOMAIN log' = 1..(Len(log) + 1) /\ DOMAIN log = 1..Len(log)
          /\ \A i \in 1..Len(log) : log'[i] = log[i]
          /\ log'[Len(log) + 1] = e
      BY <3>5
    <3>7. \A i \in 1..(Len(log) + 1) : i \in 1..Len(log) \/ i = Len(log) + 1
      BY <3>6
    <3>8. \A i \in DOMAIN log' : log'[i].line \in EngineLines /\ log'[i].line[1] = grouper
      BY <3>5, <3>6, <3>7 DEF LinesLogged
    <3>9. log' \in Seq(ToSet(log'))
      BY <3>6 DEF ToSet
    <3> QED
      BY <2>0, <3>8, <3>9 DEF LinesLogged
  <2> QED
    BY <2>1, <2>2 DEF Next, vars, engineVars, TemplateGroups
<1> QED
  BY <1>1, <1>2, PTL DEF Spec

(* The words of neighbouring lines are aligned by a longest common         *)
(* subsequence, whatever the lines (AlignmentIsLongest).                   *)
THEOREM Alignment == Spec => []AlignmentIsLongest
<1>1. LinesLogged => AlignmentIsLongest
  <2> SUFFICES ASSUME LinesLogged, Len(log) > 1 PROVE AlignmentIsLongest
    BY DEF AlignmentIsLongest
  <2> DEFINE a == WhitespaceTokens(log[Len(log) - 1].line[2])
             b == WhitespaceTokens(log[Len(log)].line[2])
             E == ToSet(a) \cup ToSet(b)
             ms == LcsMatches(a, b)
             equal == {p \in (DOMAIN a) \X (DOMAIN b) : a[p[1]] = b[p[2]]}
  <2>1. Len(log) \in DOMAIN log /\ Len(log) - 1 \in DOMAIN log
    BY DEF LinesLogged
  <2>2. /\ log[Len(log)].line[2] \in Seq(DOMAIN Kind)
        /\ log[Len(log) - 1].line[2] \in Seq(DOMAIN Kind)
    BY <2>1, LoggedLine
  <2>3. a \in Seq(ToSet(a)) /\ b \in Seq(ToSet(b))
    BY <2>2, WordsAreASequence
  <2> HIDE DEF a, b
  <2>4. a \in Seq(E) /\ b \in Seq(E)
    BY <2>3
  <2> HIDE DEF E
  <2>5. equal = EqualFrom(a, b, 1, 1)
    BY <2>4 DEF EqualFrom
  <2>6. PICK dp \in [PlacePairs(a, b) -> Nat] : dp = LcsTable(a, b)
    BY <2>4, TableHolds
  <2>7. Aligned(ms, a, b, 1, 1, dp[<<1, 1>>])
    BY <2>4, <2>6, MatchesAlign
  <2>8. ms \in Seq(Nat \X Nat) /\ DOMAIN ms = 1..Len(ms) /\ Len(ms) = dp[<<1, 1>>]
    BY <2>7 DEF Aligned
  <2>9. <<1, 1>> \in PlacePairs(a, b)
    BY <2>4 DEF PlacePairs
  <2> HIDE DEF ms, equal
  <2>10. \A k \in DOMAIN ms :
           /\ ms[k] \in equal
           /\ k > 1 => ms[k - 1][1] < ms[k][1] /\ ms[k - 1][2] < ms[k][2]
    BY <2>5, <2>7, <2>8 DEF Aligned
  <2>11. \A S \in SUBSET equal : InOrder(S) => Cardinality(S) <= Len(ms)
    <3>1. SUFFICES ASSUME NEW S \in SUBSET EqualFrom(a, b, 1, 1), InOrder(S)
                   PROVE  Cardinality(S) <= LcsTable(a, b)[<<1, 1>>]
      BY <2>5, <2>6, <2>8
    <3> DEFINE at == <<1, 1>>
    <3>2. at \in PlacePairs(a, b) /\ S \in SUBSET EqualFrom(a, b, at[1], at[2])
      BY <2>9, <3>1
    <3> HIDE DEF at
    <3>3. Cardinality(S) <= LcsTable(a, b)[at]
      BY <2>4, <3>1, <3>2, TableBounds
    <3> QED
      BY <3>3 DEF at
  <2> QED
    BY <2>10, <2>11 DEF AlignmentIsLongest, a, b, ms, equal
<1> QED
  BY <1>1, LinesAreLogged, PTL

-----------------------------------------------------------------------------
(* Spans: each token starts at its place and goes on to the next start or  *)
(* blank.                                                                  *)
SpansAt(line, starts, at, sp) ==
  /\ Lists(at, Cardinality(starts), starts)
  /\ sp \in Seq([start : 1..Len(line), end : 1..Len(line)])
  /\ Len(sp) = Cardinality(starts)
  /\ \A p \in 1..Len(sp) :
       /\ sp[p].start = at[p] /\ sp[p].start <= sp[p].end
       /\ \A j \in (sp[p].start + 1)..sp[p].end : Inked(line, j) /\ j \notin starts
       /\ sp[p].end < Len(line) =>
            ~Inked(line, sp[p].end + 1) \/ sp[p].end + 1 \in starts

(* Spans(line, starts) has one span for each start.                        *)
LEMMA SpansHold ==
  ASSUME NEW E, NEW line \in Seq(E), NEW starts \in SUBSET (DOMAIN line)
  PROVE  \E at : SpansAt(line, starts, at, Spans(line, starts))
<1> DEFINE L == Len(line)
           n == Cardinality(starts)
           at == Ascending(starts)
           ends(p) == {i \in at[p]..L : \A j \in (at[p] + 1)..i : Inked(line, j) /\ j \notin starts}
           sp == Spans(line, starts)
<1>1. L \in Nat /\ DOMAIN line = 1..L
  OBVIOUS
<1>2. IsFiniteSet(starts) /\ starts \subseteq Nat
  <2>1. IsFiniteSet(1..L)
    BY <1>1, FS_Interval
  <2> QED
    BY <1>1, <2>1, FS_Subset
<1>3. Lists(at, n, starts)
  BY <1>2, AscendingLists
<1>4. n \in Nat /\ DOMAIN at = 1..n /\ at \in [1..n -> starts]
  BY <1>3 DEF Lists
<1>5. sp = [p \in 1..n |-> [start |-> at[p], end |-> Max(ends(p))]]
  <2> HIDE DEF n
  <2> QED
    BY <1>4 DEF Spans
<1> HIDE DEF at, n, sp
<1>6. ASSUME NEW p \in 1..n
      PROVE  /\ at[p] \in 1..L /\ Max(ends(p)) \in at[p]..L
             /\ \A j \in (at[p] + 1)..Max(ends(p)) : Inked(line, j) /\ j \notin starts
             /\ Max(ends(p)) < L =>
                  ~Inked(line, Max(ends(p)) + 1) \/ Max(ends(p)) + 1 \in starts
  <2> DEFINE a == at[p]
             S == ends(p)
             m == Max(S)
  <2>1. a \in 1..L
    BY <1>1, <1>4
  <2>2. S = {i \in a..L : \A j \in (a + 1)..i : Inked(line, j) /\ j \notin starts}
    OBVIOUS
  <2> HIDE DEF a, S
  <2>3. a \in S
    BY <1>1, <2>1, <2>2
  <2>4. S \subseteq Int /\ IsFiniteSet(S)
    <3>1. S \in SUBSET (1..L) /\ 1..L \subseteq Int
      BY <1>1, <2>1, <2>2
    <3>2. 1 \in Int /\ L \in Int
      BY <1>1
    <3>3. IsFiniteSet(1..L)
      BY <3>2, FS_Interval
    <3> QED
      BY <3>1, <3>3, FS_Subset
  <2>5. m \in S /\ \A x \in S : x <= m
    BY <2>3, <2>4, FiniteSetsAreBounded
  <2> HIDE DEF m
  <2>6. m \in a..L /\ \A j \in (a + 1)..m : Inked(line, j) /\ j \notin starts
    BY <2>2, <2>5
  <2>7. ASSUME m < L, Inked(line, m + 1), m + 1 \notin starts PROVE FALSE
    <3>1. m + 1 \in a..L /\ m \in Nat /\ a \in Nat
      BY <1>1, <2>1, <2>6, <2>7
    <3>2. \A j \in (a + 1)..(m + 1) : j \in (a + 1)..m \/ j = m + 1
      BY <3>1
    <3>3. m + 1 \in S
      BY <2>2, <2>6, <2>7, <3>1, <3>2
    <3> QED
      BY <2>5, <3>1, <3>3
  <2>8. /\ a \in 1..L /\ m \in a..L
        /\ \A j \in (a + 1)..m : Inked(line, j) /\ j \notin starts
        /\ m < L => ~Inked(line, m + 1) \/ m + 1 \in starts
    BY <2>1, <2>6, <2>7
  <2> QED
    BY <2>8 DEF a, m, S
<1>7. \A p \in 1..n : /\ sp[p] = [start |-> at[p], end |-> Max(ends(p))]
                      /\ sp[p].start = at[p] /\ sp[p].end = Max(ends(p))
  BY <1>5
<1> DEFINE R == [start : 1..L, end : 1..L]
<1>8. \A p \in 1..n : sp[p] \in R /\ sp[p].start <= sp[p].end
  <2>1. ASSUME NEW p \in 1..n PROVE sp[p] \in R /\ sp[p].start <= sp[p].end
    <3>1. at[p] \in 1..L /\ Max(ends(p)) \in at[p]..L
      BY <1>6
    <3> DEFINE m == Max(ends(p))
    <3>2. sp[p] = [start |-> at[p], end |-> m]
      BY <1>7
    <3>3. at[p] \in 1..L /\ m \in at[p]..L
      BY <3>1
    <3> HIDE DEF m
    <3>4. m \in 1..L /\ at[p] <= m
      BY <1>1, <3>3
    <3> QED
      BY <3>2, <3>3, <3>4
  <2> QED
    BY <2>1
<1>9. DOMAIN sp = 1..n /\ sp = [p \in 1..n |-> sp[p]]
  BY <1>5
<1>10. sp \in Seq(R) /\ Len(sp) = n
  <2> HIDE DEF R
  <2>1. sp \in [1..n -> R] /\ n \in Nat
    BY <1>4, <1>8, <1>9
  <2> QED
    BY <2>1
<1>11. SpansAt(line, starts, at, sp)
  <2>1. Lists(at, Cardinality(starts), starts) /\ Len(sp) = Cardinality(starts)
    BY <1>3, <1>10 DEF n
  <2>2. ASSUME NEW p \in 1..n
        PROVE  /\ sp[p].start = at[p] /\ sp[p].start <= sp[p].end
               /\ \A j \in (sp[p].start + 1)..sp[p].end : Inked(line, j) /\ j \notin starts
               /\ sp[p].end < L =>
                    ~Inked(line, sp[p].end + 1) \/ sp[p].end + 1 \in starts
    <3> HIDE DEF ends
    <3> QED
      BY <1>6, <1>7, <1>8
  <2> QED
    BY <1>10, <2>1, <2>2 DEF SpansAt
<1> QED
  BY <1>11 DEF sp

(* A token ends before the next one starts.                                *)
LEMMA SpansInOrder ==
  ASSUME NEW E, NEW line \in Seq(E), NEW starts \in SUBSET (DOMAIN line), NEW at, NEW sp,
         SpansAt(line, starts, at, sp)
  PROVE  \A p, q \in 1..Len(sp) : p < q => sp[p].end < sp[q].start
<1> DEFINE R == [start : 1..Len(line), end : 1..Len(line)]
<1>0. \A p \in 1..Len(sp) : sp[p].start \in Nat /\ sp[p].end \in Nat
  <2>1. sp \in Seq(R)
    BY DEF SpansAt
  <2>2. \A r \in R : r.start \in Nat /\ r.end \in Nat
    <3>1. 1..Len(line) \subseteq Nat
      OBVIOUS
    <3> QED
      BY <3>1
  <2> HIDE DEF R
  <2> QED
    BY <2>1, <2>2
<1> SUFFICES ASSUME NEW p \in 1..Len(sp), NEW q \in 1..Len(sp), p < q
             PROVE  sp[p].end < sp[q].start
  OBVIOUS
<1>1. /\ sp[p].start = at[p] /\ sp[q].start = at[q] /\ at[p] < at[q] /\ at[q] \in starts
      /\ sp[p].start \in Nat /\ sp[q].start \in Nat /\ sp[p].end \in Nat
      /\ \A j \in (sp[p].start + 1)..sp[p].end : j \notin starts
  <2>1. /\ Lists(at, Cardinality(starts), starts) /\ Len(sp) = Cardinality(starts)
        /\ sp[p].start = at[p] /\ sp[q].start = at[q]
        /\ \A j \in (sp[p].start + 1)..sp[p].end : j \notin starts
    BY DEF SpansAt
  <2>2. at[p] < at[q] /\ at[q] \in starts
    BY <2>1 DEF Lists
  <2> QED
    BY <1>0, <2>1, <2>2
<1>2. ~(sp[q].start <= sp[p].end)
  <2>1. ASSUME sp[q].start <= sp[p].end PROVE FALSE
    <3>1. sp[q].start \in (sp[p].start + 1)..sp[p].end
      BY <1>1, <2>1
    <3> QED
      BY <1>1, <3>1
  <2> QED
    BY <2>1
<1> QED
  BY <1>1, <1>2

-----------------------------------------------------------------------------
(* What texts are made of.                                                 *)
Characters == DOMAIN Kind

(* Characters, and the placeholder.                                        *)
Symbols == Characters \cup {Placeholder}

(* Where tokens start: those of the lexer, and those between blanks.       *)
LexStarts(line) ==
  {i \in DOMAIN line :
     /\ Inked(line, i)
     /\ i > 1 /\ Kind[line[i]] # "punct" => Kind[line[i]] # Kind[line[i - 1]]}

WordStarts(line) == {i \in DOMAIN line : Inked(line, i) /\ (i > 1 => ~Inked(line, i - 1))}

(* A part of a text is a text.                                             *)
LEMMA PartOfText ==
  ASSUME NEW E, NEW line \in Seq(E), NEW i \in Int, NEW j \in Int, i >= 1, j <= Len(line)
  PROVE  /\ SubSeq(line, i, j) \in Seq(E)
         /\ Len(SubSeq(line, i, j)) = IF i <= j THEN j - i + 1 ELSE 0
         /\ \A k \in 1..(j - i + 1) : SubSeq(line, i, j)[k] = line[i + k - 1]
<1>1. Len(line) \in Nat /\ \A k \in i..j : k \in 1..Len(line) /\ line[k] \in E
  OBVIOUS
<1> QED
  BY <1>1

(* The texts of spans.                                                     *)
LEMMA TextsType ==
  ASSUME NEW E, NEW line \in Seq(E), NEW starts \in SUBSET (DOMAIN line)
  PROVE  /\ Texts(line, Spans(line, starts)) \in Seq(Seq(E))
         /\ Len(Texts(line, Spans(line, starts))) = Len(Spans(line, starts))
         /\ \A p \in 1..Len(Spans(line, starts)) :
              Texts(line, Spans(line, starts))[p] = Text(line, Spans(line, starts)[p])
<1> DEFINE sp == Spans(line, starts)
           R == [start : 1..Len(line), end : 1..Len(line)]
           X == Seq(E)
           t == Texts(line, sp)
<1>1. PICK at : SpansAt(line, starts, at, sp)
  BY SpansHold
<1>2. sp \in Seq(R)
  BY <1>1 DEF SpansAt
<1>3. \A r \in R : Text(line, r) \in X
  <2>1. ASSUME NEW r \in R PROVE Text(line, r) \in X
    <3>1. r.start \in Int /\ r.end \in Int /\ r.start >= 1 /\ r.end <= Len(line)
      OBVIOUS
    <3> QED
      BY <3>1, PartOfText DEF Text
  <2> QED
    BY <2>1
<1> HIDE DEF sp, R, X
<1>4. t = [p \in DOMAIN sp |-> Text(line, sp[p])]
  BY DEF Texts
<1> HIDE DEF t
<1>5. \A p \in DOMAIN sp : Text(line, sp[p]) \in X
  BY <1>2, <1>3
<1>6. t \in Seq(X) /\ Len(t) = Len(sp) /\ \A p \in 1..Len(sp) : t[p] = Text(line, sp[p])
  BY <1>2, <1>4, <1>5
<1> QED
  BY <1>6 DEF t, sp, X

(* The tokens between blanks are texts.                                    *)
LEMMA WordsType ==
  ASSUME NEW E, NEW line \in Seq(E)
  PROVE  WhitespaceTokens(line) \in Seq(Seq(E))
<1>1. WordStarts(line) \in SUBSET (DOMAIN line)
  BY DEF WordStarts
<1> QED
  BY <1>1, TextsType DEF WhitespaceTokens, WordStarts

(* The tokens of the lexer are spans, and their texts are texts.           *)
LEMMA LexSpans ==
  ASSUME NEW E, NEW line \in Seq(E)
  PROVE  /\ \E at : SpansAt(line, LexStarts(line), at, Lex(line))
         /\ Texts(line, Lex(line)) \in Seq(Seq(E))
<1>1. LexStarts(line) \in SUBSET (DOMAIN line)
  BY DEF LexStarts
<1>2. Lex(line) = Spans(line, LexStarts(line))
  BY DEF Lex, LexStarts
<1> QED
  BY <1>1, <1>2, TextsType, SpansHold

(* Tokens, and what is between them, are in the line.                      *)
LEMMA LexParts ==
  ASSUME NEW E, NEW line \in Seq(E)
  PROVE  LET sp == Lex(line)
         IN  /\ Len(sp) \in Nat /\ DOMAIN sp = 1..Len(sp)
             /\ \A p \in 1..Len(sp) :
                  /\ sp[p].start \in 1..Len(line) /\ sp[p].end \in sp[p].start..Len(line)
                  /\ Text(line, sp[p]) \in Seq(E) /\ Gap(line, sp, p) \in Seq(E)
                  /\ \A q \in 1..Len(sp) : p < q => sp[p].end < sp[q].start
<1> DEFINE sp == Lex(line)
           R == [start : 1..Len(line), end : 1..Len(line)]
<1>1. PICK at : SpansAt(line, LexStarts(line), at, sp)
  BY LexSpans
<1>2. /\ sp \in Seq(R)
      /\ \A p \in 1..Len(sp) : sp[p].start <= sp[p].end
  BY <1>1 DEF SpansAt
<1>3. \A p, q \in 1..Len(sp) : p < q => sp[p].end < sp[q].start
  <2>1. LexStarts(line) \in SUBSET (DOMAIN line)
    BY DEF LexStarts
  <2> HIDE DEF sp
  <2> QED
    BY <1>1, <2>1, SpansInOrder
<1>4. \A r \in R : r.start \in 1..Len(line) /\ r.end \in 1..Len(line)
  OBVIOUS
<1> HIDE DEF sp, R
<1>5. Len(sp) \in Nat /\ DOMAIN sp = 1..Len(sp)
  BY <1>2
<1>6. \A p \in 1..Len(sp) : sp[p].start \in 1..Len(line) /\ sp[p].end \in sp[p].start..Len(line)
  <2>1. ASSUME NEW p \in 1..Len(sp)
        PROVE  sp[p].start \in 1..Len(line) /\ sp[p].end \in sp[p].start..Len(line)
    <3>1. sp[p] \in R
      BY <1>2, <1>5
    <3>2. sp[p].start \in 1..Len(line) /\ sp[p].end \in 1..Len(line) /\ sp[p].start <= sp[p].end
      BY <1>2, <1>4, <3>1
    <3> QED
      BY <3>2
  <2> QED
    BY <2>1
<1>7. ASSUME NEW p \in 1..Len(sp)
      PROVE  Text(line, sp[p]) \in Seq(E) /\ Gap(line, sp, p) \in Seq(E)
  <2>1. /\ sp[p].start \in Int /\ sp[p].end \in Int /\ sp[p].start >= 1
        /\ sp[p].end <= Len(line) /\ sp[p].start - 1 <= Len(line) /\ sp[p].start - 1 \in Int
    BY <1>6
  <2>2. Text(line, sp[p]) \in Seq(E)
    BY <2>1, PartOfText DEF Text
  <2>3. Gap(line, sp, p) \in Seq(E)
    <3> DEFINE from == IF p = 1 THEN 1 ELSE sp[p - 1].end + 1
               upto == sp[p].start - 1
    <3>1. from \in Int /\ from >= 1
      <4>1. CASE p = 1
        BY <4>1
      <4>2. CASE p # 1
        <5>1. p - 1 \in 1..Len(sp)
          BY <1>5, <4>2
        <5>2. sp[p - 1].end \in sp[p - 1].start..Len(line) /\ sp[p - 1].start \in 1..Len(line)
          BY <1>6, <5>1
        <5> QED
          BY <4>2, <5>2
      <4> QED
        BY <4>1, <4>2
    <3>2. upto \in Int /\ upto <= Len(line)
      BY <2>1
    <3>3. Gap(line, sp, p) = SubSeq(line, from, upto)
      BY DEF Gap
    <3> HIDE DEF from, upto
    <3> QED
      BY <3>1, <3>2, <3>3, PartOfText
  <2> QED
    BY <2>2, <2>3
<1> QED
  BY <1>3, <1>5, <1>6, <1>7 DEF sp

(* Texts strung together are a text.                                       *)
LEMMA FlattenIsText ==
  ASSUME NEW E, NEW ss \in Seq(Seq(E))
  PROVE  FlattenSeq(ss) \in Seq(E)
<1>1. PICK F \in [0..Len(ss) -> Seq(E)] : F[Len(ss)] = FlattenSeq(ss)
  BY FlattenPrefixes
<1>2. Len(ss) \in 0..Len(ss)
  OBVIOUS
<1> QED
  BY <1>1, <1>2

(* Tokens joined with blanks are a text.                                   *)
LEMMA JoinIsText ==
  ASSUME NEW tokens \in Seq(Seq(Symbols))
  PROVE  Join(tokens) \in Seq(Symbols)
<1> DEFINE X == Seq(Symbols)
           piece(i) == (IF i = 1 THEN <<>> ELSE <<Blank>>) \o tokens[i]
           ss == [i \in DOMAIN tokens |-> piece(i)]
<1>1. Blank \in Symbols
  BY CharacterAssumption DEF Symbols, Characters
<1>2. <<>> \in X /\ <<Blank>> \in X
  BY <1>1
<1>3. \A i \in DOMAIN tokens : piece(i) \in X
  BY <1>2
<1>6. Len(tokens) \in Nat /\ DOMAIN tokens = 1..Len(tokens)
  OBVIOUS
<1> HIDE DEF piece, X
<1>4. ss \in Seq(X)
  BY <1>3, <1>6
<1>5. FlattenSeq(ss) \in Seq(Symbols)
  BY <1>4, FlattenIsText DEF X
<1> QED
  BY <1>5 DEF Join, ss, piece

(* Whatever the group, its template is a text with placeholders.           *)
LEMMA LexTemplateIsText ==
  ASSUME NEW group \in Seq(Seq(Characters)), group # <<>>
  PROVE  DeriveLexTemplate(group) \in Seq(Symbols)
<1> DEFINE X == Seq(Symbols)
           raw == group[1]
           spans == Lex(raw)
           piece(pos) == Gap(raw, spans, pos) \o
                           (IF Static(group, pos) THEN Text(raw, spans[pos])
                            ELSE DynamicPiece(group, pos))
           ss == [pos \in DOMAIN spans |-> piece(pos)]
           from == IF spans = <<>> THEN 1 ELSE spans[Len(spans)].end + 1
           tail == SubSeq(raw, from, Len(raw))
<1>1. raw \in Seq(Characters) /\ Characters \subseteq Symbols /\ Placeholder \in Symbols
  BY DEF Symbols
<1> HIDE DEF raw
<1>2. /\ Len(spans) \in Nat /\ DOMAIN spans = 1..Len(spans)
      /\ \A p \in 1..Len(spans) :
           /\ spans[p].start \in 1..Len(raw) /\ spans[p].end \in spans[p].start..Len(raw)
           /\ Text(raw, spans[p]) \in Seq(Characters) /\ Gap(raw, spans, p) \in Seq(Characters)
  BY <1>1, LexParts
<1>8. Len(spans) = 0 => spans = <<>>
  BY <1>1, LexSpans DEF SpansAt
<1> HIDE DEF spans
<1>3. Seq(Characters) \subseteq X
  BY <1>1
<1>4. \A pos \in DOMAIN spans : piece(pos) \in X
  <2>1. \A pos : DynamicPiece(group, pos) \in X
    BY <1>1 DEF DynamicPiece
  <2>2. \A pos \in DOMAIN spans : Gap(raw, spans, pos) \in X /\ Text(raw, spans[pos]) \in X
    BY <1>2, <1>3
  <2>3. \A s, t \in X : s \o t \in X
    OBVIOUS
  <2> HIDE DEF X
  <2> QED
    BY <2>1, <2>2, <2>3
<1>5. ss \in Seq(X)
  <2> HIDE DEF X, piece
  <2> QED
    BY <1>2, <1>4
<1>6. FlattenSeq(ss) \in Seq(Symbols)
  <2> HIDE DEF ss
  <2> QED
    BY <1>5, FlattenIsText
<1>7. tail \in Seq(Characters)
  <2>1. from \in Int /\ from >= 1
    <3>1. CASE spans = <<>>
      BY <3>1
    <3>2. CASE spans # <<>>
      <4>1. Len(spans) \in 1..Len(spans)
        BY <1>2, <1>8, <3>2
      <4>2. /\ spans[Len(spans)].start \in 1..Len(raw)
            /\ spans[Len(spans)].end \in spans[Len(spans)].start..Len(raw)
        BY <1>2, <4>1
      <4> QED
        BY <4>2
    <3> QED
      BY <3>1, <3>2
  <2>2. Len(raw) \in Int
    BY <1>1
  <2> HIDE DEF from
  <2> QED
    BY <1>1, <2>1, <2>2, PartOfText
<1>9. DeriveLexTemplate(group) = FlattenSeq(ss) \o tail
  BY DEF DeriveLexTemplate, raw, spans, ss, piece, tail, from
<1> HIDE DEF ss, tail
<1>10. tail \in Seq(Symbols)
  BY <1>3, <1>7
<1> QED
  BY <1>6, <1>9, <1>10

(* The template of two lines is a text.                                    *)
LEMMA PairTemplateIsText ==
  ASSUME NEW a \in Seq(Seq(Characters)), NEW b \in Seq(Seq(Characters))
  PROVE  DerivePairTemplate(a, b) \in Seq(Symbols)
<1> DEFINE X == Seq(Symbols)
           Y == Seq(X)
           ms == LcsMatches(a, b)
           all == << <<0, 0>> >> \o ms \o << <<Len(a) + 1, Len(b) + 1>> >>
           leaves(k) == all[k + 1] # <<all[k][1] + 1, all[k][2] + 1>>
           piece(k) == (IF leaves(k) THEN << <<Placeholder>> >> ELSE <<>>)
                         \o (IF k > Len(ms) THEN <<>> ELSE << a[ms[k][1]] >>)
           ss == [k \in 1..(Len(ms) + 1) |-> piece(k)]
<1>1. Characters \subseteq Symbols /\ Placeholder \in Symbols
  BY DEF Symbols
<1>2. /\ ms \in Seq(Nat \X Nat)
      /\ \A k \in 1..Len(ms) : ms[k] \in EqualFrom(a, b, 1, 1)
  <2> DEFINE Z == Seq(Characters)
  <2>1. a \in Seq(Z) /\ b \in Seq(Z)
    OBVIOUS
  <2> HIDE DEF Z
  <2>2. Aligned(LcsMatches(a, b), a, b, 1, 1, LcsTable(a, b)[<<1, 1>>])
    BY <2>1, MatchesAlign
  <2> QED
    BY <2>2 DEF Aligned
<1>3. \A k \in 1..Len(ms) : a[ms[k][1]] \in X
  <2>1. ASSUME NEW k \in 1..Len(ms) PROVE a[ms[k][1]] \in X
    <3>1. ms[k][1] \in 1..Len(a)
      BY <1>2 DEF EqualFrom
    <3>2. a[ms[k][1]] \in Seq(Characters)
      BY <3>1
    <3> QED
      BY <1>1, <3>2
  <2> QED
    BY <2>1
<1>4. Len(ms) \in Nat
  BY <1>2
<1>5. <<Placeholder>> \in X
  BY <1>1
<1> HIDE DEF ms, leaves, X
<1>6. \A k \in 1..(Len(ms) + 1) : piece(k) \in Y
  <2>1. ASSUME NEW k \in 1..(Len(ms) + 1) PROVE piece(k) \in Y
    <3>1. CASE k > Len(ms)
      BY <1>5, <3>1
    <3>2. CASE ~(k > Len(ms))
      <4>1. a[ms[k][1]] \in X
        BY <1>3, <1>4, <3>2
      <4> QED
        BY <1>5, <3>2, <4>1
    <3> QED
      BY <3>1, <3>2
  <2> QED
    BY <2>1
<1> HIDE DEF piece, Y
<1>7. ss \in Seq(Y)
  BY <1>4, <1>6
<1> HIDE DEF ss
<1>8. FlattenSeq(ss) \in Seq(X)
  BY <1>7, FlattenIsText DEF Y
<1>9. Join(FlattenSeq(ss)) \in Seq(Symbols)
  BY <1>8, JoinIsText DEF X
<1> QED
  BY <1>9 DEF DerivePairTemplate, ss, piece, leaves, ms

(* The template of lines with as many tokens, token by token, is a text.   *)
LEMMA MultiTemplateIsText ==
  ASSUME NEW group \in Seq(Seq(Characters)), group # <<>>
  PROVE  DeriveMultiTemplate(group) \in Seq(Symbols)
<1> DEFINE X == Seq(Symbols)
           Y == Seq(X)
           W == Seq(Seq(Characters))
           members == [m \in DOMAIN group |-> WhitespaceTokens(group[m])]
           static(pos) == \A m \in ToSet(members) : m[pos] = members[1][pos]
           piece(pos) == IF static(pos) THEN << members[1][pos] >>
                         ELSE IF pos > 1 => static(pos - 1) THEN << <<Placeholder>> >>
                         ELSE <<>>
           ss == [pos \in DOMAIN members[1] |-> piece(pos)]
<1>1. Characters \subseteq Symbols /\ Placeholder \in Symbols
  BY DEF Symbols
<1>2. \A m \in DOMAIN group : WhitespaceTokens(group[m]) \in W
  BY WordsType
<1>3. Len(group) \in Nat /\ DOMAIN group = 1..Len(group) /\ 1 \in DOMAIN group
  OBVIOUS
<1>4. /\ DOMAIN members = 1..Len(group) /\ members \in Seq(W) /\ members[1] \in W
      /\ \A m \in DOMAIN members : members[m] \in W
  <2> HIDE DEF W
  <2> QED
    BY <1>2, <1>3
<1>5. \A pos \in DOMAIN members[1] : members[1][pos] \in X
  <2>1. \A pos \in DOMAIN members[1] : members[1][pos] \in Seq(Characters)
    BY <1>4
  <2>2. Seq(Characters) \subseteq X
    BY <1>1
  <2> HIDE DEF members, X
  <2> QED
    BY <2>1, <2>2
<1>6. <<Placeholder>> \in X
  BY <1>1
<1>7. Len(members[1]) \in Nat /\ DOMAIN members[1] = 1..Len(members[1])
  BY <1>4
<1> HIDE DEF members, static, X
<1>8. \A pos \in DOMAIN members[1] : piece(pos) \in Y
  BY <1>5, <1>6
<1> HIDE DEF piece, Y
<1>9. ss \in Seq(Y)
  BY <1>7, <1>8
<1> HIDE DEF ss
<1>10. FlattenSeq(ss) \in Seq(X)
  BY <1>9, FlattenIsText DEF Y
<1>11. Join(FlattenSeq(ss)) \in Seq(Symbols)
  BY <1>10, JoinIsText DEF X
<1>12. ASSUME ~SameLength(members) PROVE DerivePairTemplate(members[1], members[2]) \in Seq(Symbols)
  <2>1. PICK m, n \in DOMAIN members : Len(members[m]) # Len(members[n])
    BY <1>12 DEF SameLength, ToSet
  <2>2. 2 \in DOMAIN members
    BY <1>3, <1>4, <2>1
  <2>3. members[1] \in W /\ members[2] \in W
    BY <1>4, <2>2
  <2> QED
    BY <2>3, PairTemplateIsText
<1> QED
  BY <1>11, <1>12 DEF DeriveMultiTemplate, members, ss, piece, static

(* The template of a group of lines is a text.                             *)
LEMMA TemplateIsText ==
  ASSUME NEW group \in Seq(Seq(Characters)), group # <<>>
  PROVE  DeriveTemplate(group) \in Seq(Symbols)
BY LexTemplateIsText, MultiTemplateIsText DEF DeriveTemplate

(* Of the places of a subset, as many are listed as there are.             *)
LEMMA ListedCount ==
  ASSUME NEW S, NEW at, Lists(at, Cardinality(S), S), NEW P \in SUBSET S
  PROVE  Cardinality({i \in 1..Cardinality(S) : at[i] \in P}) = Cardinality(P)
<1> DEFINE n == Cardinality(S)
           I == {i \in 1..n : at[i] \in P}
           f == [i \in I |-> at[i]]
<1>1. /\ n \in Nat /\ at \in [1..n -> S] /\ IsFiniteSet(S)
      /\ \A p, q \in 1..n : p < q => at[p] < at[q]
      /\ \A i \in S : \E p \in 1..n : at[p] = i
      /\ \A p \in 1..n : Cardinality({j \in S : j < at[p]}) = p - 1
  BY DEF Lists
<1> HIDE DEF n
<1>2. \A p, q \in 1..n : at[p] = at[q] => p = q
  <2>1. ASSUME NEW p \in 1..n, NEW q \in 1..n, at[p] = at[q] PROVE p = q
    <3>1. p - 1 = q - 1
      BY <1>1, <2>1
    <3> QED
      BY <1>1, <3>1
  <2> QED
    BY <2>1
<1>3. IsFiniteSet(I)
  <2>1. IsFiniteSet(1..n) /\ I \in SUBSET (1..n)
    BY <1>1, FS_Interval
  <2> HIDE DEF I
  <2> QED
    BY <2>1, FS_Subset
<1>4. f \in [I -> P] /\ \A i \in I : f[i] = at[i] /\ i \in 1..n
  OBVIOUS
<1>5. \A x \in P : \E i \in I : f[i] = x
  BY <1>1
<1> HIDE DEF f, I
<1>6. f \in Bijection(I, P)
  BY <1>2, <1>4, <1>5 DEF Bijection, Injection, Surjection, IsInjective
<1>7. Cardinality(P) = Cardinality(I)
  BY <1>3, <1>6, FS_Bijection DEF ExistsBijection
<1> QED
  BY <1>7 DEF I, n

(* Placeholders.                                                           *)
SlotsIn(text) == {i \in DOMAIN text : text[i] = Placeholder}

(* The pattern has the placeholders of the template.                       *)
LEMMA PatternHolds ==
  ASSUME NEW template \in Seq(Symbols)
  PROVE  /\ StripCommas(template) \in Seq(Symbols)
         /\ Cardinality(SlotsIn(StripCommas(template))) = Cardinality(SlotsIn(template))
<1> DEFINE S == {i \in DOMAIN template : template[i] # Comma}
           n == Cardinality(S)
           P == SlotsIn(template)
           t == Selected(template, S)
<1>1. S \in SUBSET (DOMAIN template)
  OBVIOUS
<1>2. PICK at : /\ Lists(at, n, S) /\ t \in Seq(Symbols) /\ Len(t) = n
                /\ \A i \in 1..n : t[i] = template[at[i]]
  <2> HIDE DEF S
  <2> QED
    BY <1>1, SelectedElements
<1>3. P \in SUBSET S
  BY CharacterAssumption DEF SlotsIn
<1>4. n \in Nat /\ at \in [1..n -> S]
  BY <1>2 DEF Lists
<1>5. DOMAIN t = 1..n
  BY <1>2
<1>6. SlotsIn(t) = {i \in 1..n : at[i] \in P}
  <2>1. \A i \in 1..n : at[i] \in DOMAIN template
    BY <1>1, <1>4
  <2> HIDE DEF t, n, S
  <2>2. \A i \in 1..n : t[i] = Placeholder <=> at[i] \in P
    BY <1>2, <2>1 DEF SlotsIn
  <2> HIDE DEF P
  <2>3. SlotsIn(t) = {i \in 1..n : t[i] = Placeholder}
    BY <1>5 DEF SlotsIn
  <2> QED
    BY <2>2, <2>3
<1>7. Cardinality({i \in 1..n : at[i] \in P}) = Cardinality(P)
  <2> HIDE DEF S, P
  <2> QED
    BY <1>2, <1>3, ListedCount
<1>8. t = StripCommas(template)
  BY DEF StripCommas
<1> QED
  BY <1>2, <1>6, <1>7, <1>8

(* A trimmed line without its commas is text.                              *)
LEMMA TrimmedIsText ==
  ASSUME NEW line \in Seq(Characters)
  PROVE  Trim(StripCommas(line)) \in Seq(Characters)
<1> DEFINE text == StripCommas(line)
           ink == {i \in DOMAIN text : Inked(text, i)}
<1>1. text \in Seq(Characters)
  <2> DEFINE S == {i \in DOMAIN line : line[i] # Comma}
  <2>1. S \in SUBSET (DOMAIN line)
    OBVIOUS
  <2>2. Selected(line, S) \in Seq(Characters)
    <3> HIDE DEF S
    <3> QED
      BY <2>1, SelectedElements
  <2> QED
    BY <2>2 DEF StripCommas
<1> HIDE DEF text
<1>2. ink \in SUBSET (1..Len(text)) /\ Len(text) \in Nat
  BY <1>1
<1>3. CASE ink = {}
  BY <1>1, <1>3 DEF Trim, text
<1>4. CASE ink # {}
  <2>1. IsFiniteSet(ink) /\ ink \subseteq Int
    <3> HIDE DEF ink
    <3>1. IsFiniteSet(1..Len(text)) /\ 1..Len(text) \subseteq Int
      BY <1>2, FS_Interval
    <3> QED
      BY <1>2, <3>1, FS_Subset
  <2>2. Min(ink) \in ink /\ Max(ink) \in ink
    <3> HIDE DEF ink
    <3> QED
      BY <1>4, <2>1, FiniteSetsAreBounded
  <2>3. Min(ink) \in 1..Len(text) /\ Max(ink) \in 1..Len(text)
    <3> HIDE DEF ink
    <3> QED
      BY <1>2, <2>2
  <2>4. Trim(text) = SubSeq(text, Min(ink), Max(ink))
    BY <1>4 DEF Trim
  <2> HIDE DEF ink
  <2>5. Min(ink) \in Int /\ Max(ink) \in Int /\ Min(ink) >= 1 /\ Max(ink) <= Len(text)
    BY <1>2, <2>3
  <2>6. SubSeq(text, Min(ink), Max(ink)) \in Seq(Characters)
    BY <1>1, <2>5, PartOfText
  <2> QED
    BY <2>4, <2>6 DEF text
<1> QED
  BY <1>3, <1>4

-----------------------------------------------------------------------------
(* The capture regex. *)

(* Where the placeholder in place i of a pattern can end.                  *)
CaptureEnds(f, text, i, p) == {q \in p..(Len(text) + 1) : f[<<i + 1, q>>] # {}}

(* The equations of the match. *)
CaptureStep(f, pattern, text, i, p) ==
  IF i > Len(pattern) THEN IF p > Len(text) THEN { <<>> } ELSE {}
  ELSE IF pattern[i] = Placeholder
    THEN IF CaptureEnds(f, text, i, p) = {} THEN {}
         ELSE {<< SubSeq(text, p, Min(CaptureEnds(f, text, i, p)) - 1) >> \o c :
                 c \in f[<<i + 1, Min(CaptureEnds(f, text, i, p))>>]}
  ELSE IF p <= Len(text) /\ text[p] = pattern[i] THEN f[<<i + 1, p + 1>>]
  ELSE {}

(* What is left of the pattern. *)
Left(pattern, text) == [at \in PlacePairs(pattern, text) |-> Len(pattern) + 1 - at[1]]

(* The match of a pattern and a text goes on with less of the pattern.     *)
LEMMA Onwards ==
  ASSUME NEW E, NEW pattern \in Seq(E), NEW F, NEW text \in Seq(F)
  PROVE  /\ Len(pattern) \in Nat /\ Len(text) \in Nat
         /\ Ranked(PlacePairs(pattern, text), Left(pattern, text), Len(pattern))
         /\ \A at \in PlacePairs(pattern, text) :
              /\ at = <<at[1], at[2]>> /\ at[1] \in 1..(Len(pattern) + 1)
              /\ at[2] \in 1..(Len(text) + 1)
         /\ \A i \in 1..Len(pattern), p \in 1..(Len(text) + 1), q \in 1..(Len(text) + 1) :
              /\ <<i + 1, q>> \in PlacePairs(pattern, text)
              /\ Left(pattern, text)[<<i + 1, q>>] < Left(pattern, text)[<<i, p>>]
<1> DEFINE n == Len(pattern)
           m == Len(text)
           D == PlacePairs(pattern, text)
<1>1. n \in Nat /\ m \in Nat
  OBVIOUS
<1>2. D = (1..(n + 1)) \X (1..(m + 1)) /\ Left(pattern, text) = [at \in D |-> n + 1 - at[1]]
  BY DEF PlacePairs, Left
<1> HIDE DEF n, m, D
<1>3. \A at \in D : at = <<at[1], at[2]>> /\ at[1] \in 1..(n + 1) /\ at[2] \in 1..(m + 1)
  BY <1>2
<1>4. \A i \in 1..(n + 1) : n + 1 - i \in 0..n
  BY <1>1
<1>5. Ranked(D, Left(pattern, text), n)
  BY <1>1, <1>2, <1>3, <1>4 DEF Ranked
<1>6. ASSUME NEW i \in 1..n, NEW p \in 1..(m + 1), NEW q \in 1..(m + 1)
      PROVE  /\ <<i + 1, q>> \in D
             /\ Left(pattern, text)[<<i + 1, q>>] < Left(pattern, text)[<<i, p>>]
  <2>1. i + 1 \in 1..(n + 1) /\ i \in 1..(n + 1) /\ n + 1 - (i + 1) < n + 1 - i
    BY <1>1
  <2>2. <<i + 1, q>> \in D /\ <<i, p>> \in D
    BY <1>2, <2>1
  <2>3. /\ Left(pattern, text)[<<i + 1, q>>] = n + 1 - (i + 1)
        /\ Left(pattern, text)[<<i, p>>] = n + 1 - i
    BY <1>2, <2>2
  <2> QED
    BY <2>1, <2>2, <2>3
<1> QED
  BY <1>1, <1>3, <1>5, <1>6 DEF n, m, D

(* The end that (.*?) takes.                                               *)
LEMMA FirstEnd ==
  ASSUME NEW F, NEW text \in Seq(F), NEW f, NEW i, NEW p \in 1..(Len(text) + 1),
         CaptureEnds(f, text, i, p) # {}
  PROVE  LET q == Min(CaptureEnds(f, text, i, p))
         IN  /\ q \in CaptureEnds(f, text, i, p) /\ q \in p..(Len(text) + 1)
             /\ \A r \in CaptureEnds(f, text, i, p) : q <= r
             /\ SubSeq(text, p, q - 1) \in Seq(F)
<1> DEFINE S == CaptureEnds(f, text, i, p)
           m == Len(text)
           q == Min(S)
<1>1. m \in Nat /\ S \in SUBSET (p..(m + 1))
  BY DEF CaptureEnds
<1> HIDE DEF S
<1>2. IsFiniteSet(S) /\ S \subseteq Int
  <2>1. p \in Int /\ m + 1 \in Int /\ p..(m + 1) \subseteq Int
    BY <1>1
  <2> HIDE DEF m
  <2>2. IsFiniteSet(p..(m + 1))
    BY <2>1, FS_Interval
  <2> QED
    BY <1>1, <2>1, <2>2, FS_Subset
<1>3. q \in S /\ \A r \in S : q <= r
  BY <1>2, FiniteSetsAreBounded DEF S
<1> HIDE DEF q
<1>4. q \in p..(m + 1)
  BY <1>1, <1>3
<1>5. p \in Int /\ q - 1 \in Int /\ p >= 1 /\ q - 1 <= Len(text)
  BY <1>1, <1>4
<1>6. SubSeq(text, p, q - 1) \in Seq(F)
  BY <1>5, PartOfText
<1> QED
  BY <1>3, <1>4, <1>6 DEF S, q, m

(* A step of the match gives captures when the steps it needs do.          *)
LEMMA CaptureStepType ==
  ASSUME NEW pattern \in Seq(Symbols), NEW text \in Seq(Characters),
         NEW at \in PlacePairs(pattern, text), NEW f,
         \A y \in PlacePairs(pattern, text) :
           Left(pattern, text)[y] < Left(pattern, text)[at] => f[y] \in SUBSET Seq(Seq(Characters))
  PROVE  CaptureStep(f, pattern, text, at[1], at[2]) \in SUBSET Seq(Seq(Characters))
<1> DEFINE i == at[1]
           p == at[2]
           X == Seq(Characters)
           n == Len(pattern)
           m == Len(text)
<1>1. /\ n \in Nat /\ m \in Nat /\ at = <<i, p>> /\ i \in 1..(n + 1) /\ p \in 1..(m + 1)
      /\ \A k \in 1..n, q \in 1..(m + 1) :
           /\ <<k + 1, q>> \in PlacePairs(pattern, text)
           /\ Left(pattern, text)[<<k + 1, q>>] < Left(pattern, text)[<<k, p>>]
  BY Onwards
<1> HIDE DEF i, p
<1>2. CASE i > n
  <2>1. <<>> \in Seq(X)
    OBVIOUS
  <2>2. CaptureStep(f, pattern, text, i, p) \in SUBSET {<<>>}
    BY <1>2 DEF CaptureStep
  <2> HIDE DEF X
  <2> QED
    BY <2>1, <2>2 DEF i, p, X
<1>3. CASE ~(i > n)
  <2>1. i \in 1..n
    BY <1>1, <1>3
  <2>2. \A q \in 1..(m + 1) : f[<<i + 1, q>>] \in SUBSET Seq(X)
    BY <1>1, <2>1
  <2> DEFINE S == CaptureEnds(f, text, i, p)
             q == Min(S)
             whole == SubSeq(text, p, q - 1)
  <2>3. CASE pattern[i] = Placeholder /\ S # {}
    <3>1. q \in p..(m + 1) /\ whole \in X
      BY <1>1, <2>3, FirstEnd
    <3>2. q \in 1..(m + 1)
      <4> HIDE DEF q
      <4> QED
        BY <1>1, <3>1
    <3>3. CaptureStep(f, pattern, text, i, p) = {<<whole>> \o c : c \in f[<<i + 1, q>>]}
      BY <1>3, <2>3 DEF CaptureStep
    <3> HIDE DEF whole, q, X, S
    <3>4. \A c \in Seq(X) : <<whole>> \o c \in Seq(X)
      BY <3>1
    <3>5. f[<<i + 1, q>>] \in SUBSET Seq(X)
      BY <2>2, <3>2
    <3>6. CaptureStep(f, pattern, text, i, p) \in SUBSET Seq(X)
      BY <3>3, <3>4, <3>5
    <3> QED
      BY <3>6 DEF i, p, X
  <2>4. CASE pattern[i] = Placeholder /\ S = {}
    <3>1. CaptureStep(f, pattern, text, i, p) = {}
      BY <1>3, <2>4 DEF CaptureStep
    <3> QED
      BY <3>1 DEF i, p
  <2>5. CASE pattern[i] # Placeholder
    <3>1. CASE p <= m /\ text[p] = pattern[i]
      <4>1. CaptureStep(f, pattern, text, i, p) = f[<<i + 1, p + 1>>]
        BY <1>3, <2>5, <3>1 DEF CaptureStep
      <4>2. p + 1 \in 1..(m + 1)
        BY <1>1, <3>1
      <4>3. f[<<i + 1, p + 1>>] \in SUBSET Seq(X)
        BY <2>2, <4>2
      <4> QED
        BY <4>1, <4>3 DEF i, p
    <3>2. CASE ~(p <= m /\ text[p] = pattern[i])
      <4>1. CaptureStep(f, pattern, text, i, p) = {}
        BY <1>3, <2>5, <3>2 DEF CaptureStep
      <4> QED
        BY <4>1 DEF i, p
    <3> QED
      BY <3>1, <3>2
  <2> QED
    BY <2>3, <2>4, <2>5
<1> QED
  BY <1>2, <1>3

(* f and g agree on what is left after a place.                            *)
SameAfter(f, g, at, pattern, text) ==
  \A y \in PlacePairs(pattern, text) :
    Left(pattern, text)[y] < Left(pattern, text)[at] => f[y] = g[y]

(* A step of the match depends on nothing else.                            *)
LEMMA CaptureStepSame ==
  ASSUME NEW pattern \in Seq(Symbols), NEW text \in Seq(Characters),
         NEW at \in PlacePairs(pattern, text), NEW f, NEW g, SameAfter(f, g, at, pattern, text)
  PROVE  CaptureStep(f, pattern, text, at[1], at[2]) = CaptureStep(g, pattern, text, at[1], at[2])
<1> DEFINE i == at[1]
           p == at[2]
           n == Len(pattern)
           m == Len(text)
<1>1. /\ n \in Nat /\ m \in Nat /\ at = <<i, p>> /\ i \in 1..(n + 1) /\ p \in 1..(m + 1)
      /\ \A k \in 1..n, q \in 1..(m + 1) :
           /\ <<k + 1, q>> \in PlacePairs(pattern, text)
           /\ Left(pattern, text)[<<k + 1, q>>] < Left(pattern, text)[<<k, p>>]
  BY Onwards
<1> HIDE DEF i, p
<1>2. CASE i > n
  <2>1. CaptureStep(f, pattern, text, i, p) = CaptureStep(g, pattern, text, i, p)
    BY <1>2 DEF CaptureStep
  <2> QED
    BY <2>1 DEF i, p
<1>3. CASE ~(i > n)
  <2>1. i \in 1..n
    BY <1>1, <1>3
  <2>2. \A q \in 1..(m + 1) : f[<<i + 1, q>>] = g[<<i + 1, q>>]
    BY <1>1, <2>1 DEF SameAfter
  <2>3. CaptureEnds(f, text, i, p) = CaptureEnds(g, text, i, p)
    <3>1. \A q \in p..(m + 1) : q \in 1..(m + 1)
      BY <1>1
    <3> QED
      BY <2>2, <3>1 DEF CaptureEnds
  <2> DEFINE S == CaptureEnds(f, text, i, p)
  <2>4. S # {} => f[<<i + 1, Min(S)>>] = g[<<i + 1, Min(S)>>]
    <3>1. SUFFICES ASSUME S # {} PROVE f[<<i + 1, Min(S)>>] = g[<<i + 1, Min(S)>>]
      OBVIOUS
    <3>2. Min(S) \in p..(m + 1)
      BY <1>1, <3>1, FirstEnd
    <3> HIDE DEF S
    <3>3. Min(S) \in 1..(m + 1)
      BY <1>1, <3>2
    <3> QED
      BY <2>2, <3>3
  <2>5. p <= m => f[<<i + 1, p + 1>>] = g[<<i + 1, p + 1>>]
    <3>1. p <= m => p + 1 \in 1..(m + 1)
      BY <1>1
    <3> QED
      BY <2>2, <3>1
  <2> HIDE DEF S
  <2>6. CaptureStep(f, pattern, text, i, p) = CaptureStep(g, pattern, text, i, p)
    <3>1. CASE pattern[i] = Placeholder
      BY <1>3, <2>3, <2>4, <3>1 DEF CaptureStep, S
    <3>2. CASE pattern[i] # Placeholder
      BY <1>3, <2>5, <3>2 DEF CaptureStep
    <3> QED
      BY <3>1, <3>2
  <2> QED
    BY <2>6 DEF i, p
<1> QED
  BY <1>2, <1>3

(* What the regex captures: one list of texts, or none.                    *)
LEMMA CapturesFollow ==
  ASSUME NEW template \in Seq(Symbols), NEW line \in Seq(Characters), NEW pattern, NEW text,
         pattern = StripCommas(template), text = Trim(StripCommas(line))
  PROVE  /\ pattern \in Seq(Symbols) /\ text \in Seq(Characters)
         /\ \E match \in [PlacePairs(pattern, text) -> SUBSET Seq(Seq(Characters))] :
              /\ match[<<1, 1>>] = Captures(template, line)
              /\ \A at \in PlacePairs(pattern, text) :
                   match[at] = CaptureStep(match, pattern, text, at[1], at[2])
<1> DEFINE n == Len(pattern)
           m == Len(text)
           D == PlacePairs(pattern, text)
           rank == Left(pattern, text)
           V == SUBSET Seq(Seq(Characters))
           Step(f, i, p) == CaptureStep(f, pattern, text, i, p)
           Body(f, i, p) ==
             IF i > Len(pattern) THEN IF p > Len(text) THEN { <<>> } ELSE {}
             ELSE IF pattern[i] = Placeholder
               THEN LET ends == {q \in p..(Len(text) + 1) : f[<<i + 1, q>>] # {}}
                    IN  IF ends = {} THEN {}
                        ELSE {<< SubSeq(text, p, Takes(ends) - 1) >> \o c :
                                c \in f[<<i + 1, Takes(ends)>>]}
             ELSE IF p <= Len(text) /\ text[p] = pattern[i] THEN f[<<i + 1, p + 1>>]
             ELSE {}
           Match(f) == [at \in D |-> Body(f, at[1], at[2])]
           step == [q \in D \X [D -> V] |-> Step(q[2], q[1][1], q[1][2])]
<1>1. pattern \in Seq(Symbols) /\ text \in Seq(Characters)
  BY PatternHolds, TrimmedIsText
<1>2. Captures(template, line) = (CHOOSE f : f = Match(f))[<<1, 1>>]
  BY DEF Captures, PlacePairs
<1>3. /\ n \in Nat /\ Ranked(D, rank, n)
      /\ \A at \in D : at = <<at[1], at[2]>>
  BY <1>1, Onwards
<1>4. \A f, i, p : Body(f, i, p) = Step(f, i, p)
  BY DEF CaptureStep, CaptureEnds, Takes
<1> HIDE DEF Body
<1>5. ASSUME NEW at \in D, NEW f, \A y \in D : rank[y] < rank[at] => f[y] \in V
      PROVE  Step(f, at[1], at[2]) \in V
  BY <1>1, <1>5, CaptureStepType
<1>6. ASSUME NEW at \in D, NEW f, NEW g, \A y \in D : rank[y] < rank[at] => f[y] = g[y]
      PROVE  Step(f, at[1], at[2]) = Step(g, at[1], at[2])
  <2>1. SameAfter(f, g, at, pattern, text)
    BY <1>6 DEF SameAfter
  <2> HIDE DEF D, rank
  <2> QED
    BY <1>1, <2>1, CaptureStepSame DEF D
<1> HIDE DEF V, Step, D, rank, n
<1>7. \A f \in [D -> V], at \in D : step[<<at, f>>] = Step(f, at[1], at[2])
  OBVIOUS
<1>8. step \in [D \X [D -> V] -> V]
  BY <1>5
<1>9. \A f : /\ Match(f) = [at \in D |-> Match(f)[at]]
             /\ \A at \in D : Match(f)[at] = Step(f, at[1], at[2])
  BY <1>4
<1> HIDE DEF step, Match
<1>10. PICK h \in [D -> V] : \A at \in D : h[at] = step[<<at, h>>]
  <2>1. \A x \in D : \A f, g \in [D -> V] :
          (\A y \in D : rank[y] < rank[x] => f[y] = g[y]) => step[<<x, f>>] = step[<<x, g>>]
    <3>1. SUFFICES ASSUME NEW x \in D, NEW f \in [D -> V], NEW g \in [D -> V],
                          \A y \in D : rank[y] < rank[x] => f[y] = g[y]
                   PROVE  step[<<x, f>>] = step[<<x, g>>]
      OBVIOUS
    <3>2. Step(f, x[1], x[2]) = Step(g, x[1], x[2])
      BY <1>6, <3>1
    <3> QED
      BY <1>7, <3>2
  <2>2. V # {}
    BY DEF V
  <2>3. Recursion(step, D, rank, V)
    BY <1>8, <2>1, <2>2 DEF Recursion
  <2> QED
    BY <1>3, <2>3, RecursionExists
<1>11. h = Match(h)
  <2>1. h = [at \in D |-> h[at]] /\ \A at \in D : h[at] = Match(h)[at]
    BY <1>7, <1>9, <1>10
  <2> QED
    BY <1>9, <2>1
<1> DEFINE match == CHOOSE f : f = Match(f)
<1>12. match = Match(match)
  BY <1>11
<1>13. match[<<1, 1>>] = Captures(template, line)
  BY <1>2
<1> HIDE DEF match
<1>14. \A at \in D : match[at] = Step(match, at[1], at[2])
  BY <1>9, <1>12
<1> DEFINE T == {at \in D : match[at] \in V}
<1>15. ASSUME NEW at \in D, \A y \in D : rank[y] < rank[at] => y \in T PROVE at \in T
  BY <1>5, <1>14, <1>15
<1>16. D \subseteq T
  <2> HIDE DEF T
  <2>1. Inherited(T, D, rank)
    BY <1>15 DEF Inherited
  <2> QED
    BY <1>3, <2>1, ByRank
<1>17. match \in [D -> V]
  <2>1. match = [at \in D |-> match[at]]
    BY <1>9, <1>12
  <2> QED
    BY <1>16, <2>1
<1> QED
  BY <1>1, <1>13, <1>14, <1>17 DEF D, V, Step

(* Placeholders from place i of a text on.                                 *)
SlotsFrom(text, i) == {k \in i..Len(text) : text[k] = Placeholder}

(* How their number changes from one place to the next.                    *)
LEMMA SlotsFromHere ==
  ASSUME NEW E, NEW pattern \in Seq(E), NEW i \in 1..(Len(pattern) + 1)
  PROVE  /\ IsFiniteSet(SlotsFrom(pattern, i)) /\ Cardinality(SlotsFrom(pattern, i)) \in Nat
         /\ i > Len(pattern) => SlotsFrom(pattern, i) = {} /\ Cardinality(SlotsFrom(pattern, i)) = 0
         /\ i <= Len(pattern) =>
              Cardinality(SlotsFrom(pattern, i)) =
                IF pattern[i] = Placeholder THEN Cardinality(SlotsFrom(pattern, i + 1)) + 1
                ELSE Cardinality(SlotsFrom(pattern, i + 1))
<1> DEFINE n == Len(pattern)
<1>1. n \in Nat
  OBVIOUS
<1>2. \A k \in 1..(n + 1) :
        IsFiniteSet(SlotsFrom(pattern, k)) /\ Cardinality(SlotsFrom(pattern, k)) \in Nat
  <2>1. SUFFICES ASSUME NEW k \in 1..(n + 1) PROVE IsFiniteSet(SlotsFrom(pattern, k))
    BY FS_CardinalityType
  <2>2. SlotsFrom(pattern, k) \in SUBSET (k..n)
    BY DEF SlotsFrom
  <2>3. k \in Int /\ n \in Int
    BY <1>1
  <2> HIDE DEF n
  <2>4. IsFiniteSet(k..n)
    BY <2>3, FS_Interval
  <2> QED
    BY <2>2, <2>4, FS_Subset
<1>3. ASSUME i > n PROVE SlotsFrom(pattern, i) = {} /\ Cardinality(SlotsFrom(pattern, i)) = 0
  <2>1. SlotsFrom(pattern, i) = {}
    BY <1>1, <1>3 DEF SlotsFrom
  <2> QED
    BY <2>1, FS_EmptySet
<1>4. ASSUME i <= n
      PROVE  Cardinality(SlotsFrom(pattern, i)) =
               IF pattern[i] = Placeholder THEN Cardinality(SlotsFrom(pattern, i + 1)) + 1
               ELSE Cardinality(SlotsFrom(pattern, i + 1))
  <2>1. /\ \A k : k \in i..n <=> k = i \/ k \in (i + 1)..n
        /\ i \notin (i + 1)..n /\ i + 1 \in 1..(n + 1)
    BY <1>1, <1>4
  <2>2. CASE pattern[i] = Placeholder
    <3>1. SlotsFrom(pattern, i) = SlotsFrom(pattern, i + 1) \cup {i}
      BY <2>1, <2>2 DEF SlotsFrom
    <3>2. i \notin SlotsFrom(pattern, i + 1)
      BY <2>1 DEF SlotsFrom
    <3>3. IsFiniteSet(SlotsFrom(pattern, i + 1))
      BY <1>2, <2>1
    <3> QED
      BY <2>2, <3>1, <3>2, <3>3, FS_AddElement
  <2>3. CASE pattern[i] # Placeholder
    <3>1. SlotsFrom(pattern, i) = SlotsFrom(pattern, i + 1)
      BY <2>1, <2>3 DEF SlotsFrom
    <3> QED
      BY <2>3, <3>1
  <2> QED
    BY <2>2, <2>3
<1> QED
  BY <1>2, <1>3, <1>4

(* Captures hold a text for each placeholder of the template.              *)
LEMMA CapturesFit ==
  ASSUME NEW template \in Seq(Symbols), NEW line \in Seq(Characters)
  PROVE  \A c \in Captures(template, line) :
           c \in Seq(Seq(Characters)) /\ Len(c) = Cardinality(SlotsIn(template))
<1> DEFINE pattern == StripCommas(template)
           text == Trim(StripCommas(line))
           n == Len(pattern)
           m == Len(text)
           D == PlacePairs(pattern, text)
           rank == Left(pattern, text)
           X == Seq(Characters)
           count(i) == Cardinality(SlotsFrom(pattern, i))
<1>0. pattern = StripCommas(template) /\ text = Trim(StripCommas(line))
  OBVIOUS
<1> HIDE DEF pattern, text
<1>1. /\ pattern \in Seq(Symbols) /\ text \in Seq(Characters)
      /\ \E match \in [D -> SUBSET Seq(X)] :
           /\ match[<<1, 1>>] = Captures(template, line)
           /\ \A at \in D : match[at] = CaptureStep(match, pattern, text, at[1], at[2])
  BY <1>0, CapturesFollow
<1>2. PICK match \in [D -> SUBSET Seq(X)] :
        /\ match[<<1, 1>>] = Captures(template, line)
        /\ \A at \in D : match[at] = CaptureStep(match, pattern, text, at[1], at[2])
  BY <1>1
<1>3. /\ n \in Nat /\ m \in Nat /\ Ranked(D, rank, n)
      /\ \A at \in D : at = <<at[1], at[2]>> /\ at[1] \in 1..(n + 1) /\ at[2] \in 1..(m + 1)
      /\ \A k \in 1..n, p \in 1..(m + 1), q \in 1..(m + 1) :
           <<k + 1, q>> \in D /\ rank[<<k + 1, q>>] < rank[<<k, p>>]
  BY <1>1, Onwards
<1>4. <<1, 1>> \in D
  BY <1>3 DEF PlacePairs
<1>5. \A i \in 1..(n + 1) :
        /\ i > n => count(i) = 0
        /\ i <= n => count(i) = IF pattern[i] = Placeholder THEN count(i + 1) + 1 ELSE count(i + 1)
  BY <1>1, SlotsFromHere
<1> DEFINE T == {at \in D : \A c \in match[at] : Len(c) = count(at[1])}
<1> HIDE DEF n, m, D, rank, count
<1>6. ASSUME NEW at \in D, \A y \in D : rank[y] < rank[at] => y \in T PROVE at \in T
  <2> DEFINE i == at[1]
             p == at[2]
  <2>1. at = <<i, p>> /\ i \in 1..(n + 1) /\ p \in 1..(m + 1)
    BY <1>3
  <2>2. match[at] = CaptureStep(match, pattern, text, i, p)
    BY <1>2
  <2> SUFFICES ASSUME NEW c \in match[at] PROVE Len(c) = count(i)
    OBVIOUS
  <2> HIDE DEF i, p
  <2>3. CASE i > n
    <3>1. c = <<>>
      BY <2>2, <2>3 DEF CaptureStep, n
    <3> QED
      BY <1>5, <2>1, <2>3, <3>1
  <2>4. CASE ~(i > n)
    <3>1. i \in 1..n
      BY <1>3, <2>1, <2>4
    <3>2. \A q \in 1..(m + 1) : \A d \in match[<<i + 1, q>>] : d \in Seq(X) /\ Len(d) = count(i + 1)
      <4>1. ASSUME NEW q \in 1..(m + 1), NEW d \in match[<<i + 1, q>>]
            PROVE  d \in Seq(X) /\ Len(d) = count(i + 1)
        <5>1. <<i + 1, q>> \in D /\ rank[<<i + 1, q>>] < rank[at]
          BY <1>3, <2>1, <3>1
        <5>2. <<i + 1, q>> \in T
          <6> HIDE DEF T
          <6> QED
            BY <1>6, <5>1
        <5>3. match[<<i + 1, q>>] \in SUBSET Seq(X)
          <6> HIDE DEF X
          <6> QED
            BY <1>2, <5>1
        <5> HIDE DEF X
        <5> QED
          BY <4>1, <5>2, <5>3
      <4> QED
        BY <4>1
    <3> DEFINE S == CaptureEnds(match, text, i, p)
               q == Min(S)
               whole == SubSeq(text, p, q - 1)
    <3>3. CASE pattern[i] = Placeholder
      <4>1. S # {}
        BY <2>2, <2>4, <3>3 DEF CaptureStep, n
      <4>2. q \in p..(m + 1) /\ whole \in X
        BY <1>1, <2>1, <4>1, FirstEnd DEF m
      <4>3. q \in 1..(m + 1)
        <5> HIDE DEF q
        <5> QED
          BY <1>3, <2>1, <4>2
      <4>4. match[at] = {<<whole>> \o d : d \in match[<<i + 1, q>>]}
        BY <2>2, <2>4, <3>3, <4>1 DEF CaptureStep, n
      <4> HIDE DEF whole, q, S, X
      <4>5. PICK d \in match[<<i + 1, q>>] : c = <<whole>> \o d
        BY <4>4
      <4>6. d \in Seq(X) /\ Len(d) = count(i + 1)
        BY <3>2, <4>3
      <4>7. Len(<<whole>> \o d) = 1 + Len(d)
        BY <4>2, <4>6
      <4>8. count(i) = count(i + 1) + 1 /\ Len(d) \in Nat
        BY <1>5, <2>1, <3>1, <3>3, <2>4, <4>6, <1>3
      <4> QED
        BY <4>5, <4>6, <4>7, <4>8
    <3>4. CASE pattern[i] # Placeholder
      <4>1. p <= m /\ match[at] = match[<<i + 1, p + 1>>]
        BY <2>2, <2>4, <3>4 DEF CaptureStep, n, m
      <4>2. p + 1 \in 1..(m + 1)
        BY <1>3, <2>1, <4>1
      <4>3. Len(c) = count(i + 1)
        BY <3>2, <4>1, <4>2
      <4>4. count(i) = count(i + 1)
        BY <1>5, <2>1, <2>4, <3>1, <3>4, <1>3
      <4> QED
        BY <4>3, <4>4
    <3> QED
      BY <3>3, <3>4
  <2> QED
    BY <2>3, <2>4
<1>7. D \subseteq T
  <2> HIDE DEF T
  <2>1. Inherited(T, D, rank)
    BY <1>6 DEF Inherited
  <2> QED
    BY <1>3, <2>1, ByRank
<1>8. \A c \in Captures(template, line) : c \in Seq(X) /\ Len(c) = count(1)
  <2>1. <<1, 1>> \in T /\ <<1, 1>>[1] = 1
    BY <1>4, <1>7
  <2>2. match[<<1, 1>>] \in SUBSET Seq(X)
    <3> HIDE DEF X
    <3> QED
      BY <1>2, <1>4
  <2> HIDE DEF X
  <2> QED
    BY <1>2, <2>1, <2>2
<1>9. count(1) = Cardinality(SlotsIn(template))
  <2>1. Cardinality(SlotsIn(pattern)) = Cardinality(SlotsIn(template))
    BY PatternHolds DEF pattern
  <2>2. SlotsFrom(pattern, 1) = SlotsIn(pattern)
    BY <1>1 DEF SlotsFrom, SlotsIn
  <2> QED
    BY <2>1, <2>2 DEF count
<1> QED
  BY <1>8, <1>9

-----------------------------------------------------------------------------
(* The summary of a slot.                                                  *)

(* What a template with K placeholders can capture of a line.              *)
CapturesOf(K) == SUBSET {c \in Seq(Seq(Characters)) : Len(c) = K}

(* The members that match, what placeholder k captures of one, the members *)
(* whose capture has a number, and that number.                            *)
Matched(captures) == {m \in DOMAIN captures : captures[m] # {}}

ValueOf(captures, k, m) == Value(captures[m])[k]

Parsed(captures, k) == {m \in Matched(captures) : FirstNumber(ValueOf(captures, k, m)) # {}}

NumberOf(captures, k, m) == Value(FirstNumber(ValueOf(captures, k, m)))

(* SlotValues has the captures of the members that match, in order.        *)
LEMMA SlotValuesHold ==
  ASSUME NEW K \in Nat, NEW captures \in Seq(CapturesOf(K)), NEW k \in 1..K
  PROVE  LET M == Matched(captures)
             values == SlotValues(captures, k)
         IN  \E at : /\ Lists(at, Cardinality(M), M)
                     /\ values \in Seq(Seq(Characters)) /\ Len(values) = Cardinality(M)
                     /\ \A i \in 1..Cardinality(M) : values[i] = ValueOf(captures, k, at[i])
<1> DEFINE M == Matched(captures)
           n == Cardinality(M)
           X == Seq(Characters)
           values == SlotValues(captures, k)
           matched == Selected(captures, M)
<1>1. M \in SUBSET (DOMAIN captures)
  BY DEF Matched
<1>2. PICK at : /\ Lists(at, n, M) /\ matched \in Seq(CapturesOf(K)) /\ Len(matched) = n
                /\ \A i \in 1..n : matched[i] = captures[at[i]]
  <2> HIDE DEF M
  <2> QED
    BY <1>1, SelectedElements
<1>3. n \in Nat /\ at \in [1..n -> M]
  BY <1>2 DEF Lists
<1>4. DOMAIN matched = 1..n
  BY <1>2
<1>5. values = [i \in 1..n |-> Value(matched[i])[k]]
  <2>1. values = [i \in DOMAIN matched |-> Value(matched[i])[k]]
    BY DEF SlotValues, Matched
  <2> QED
    BY <1>4, <2>1
<1> HIDE DEF matched, n, values
<1>6. ASSUME NEW i \in 1..n PROVE ValueOf(captures, k, at[i]) \in X
  <2>1. captures[at[i]] # {} /\ at[i] \in DOMAIN captures
    BY <1>1, <1>3 DEF Matched
  <2>2. captures[at[i]] \in CapturesOf(K)
    BY <2>1
  <2>3. Value(captures[at[i]]) \in captures[at[i]]
    BY <2>1 DEF Value
  <2>4. Value(captures[at[i]]) \in Seq(X) /\ Len(Value(captures[at[i]])) = K
    BY <2>2, <2>3 DEF CapturesOf
  <2> HIDE DEF X
  <2> QED
    BY <2>4 DEF ValueOf
<1>7. \A i \in 1..n : values[i] = ValueOf(captures, k, at[i])
  BY <1>2, <1>5 DEF ValueOf
<1> HIDE DEF X
<1>8. values \in Seq(X) /\ Len(values) = n
  BY <1>3, <1>5, <1>6, <1>7
<1> QED
  BY <1>2, <1>7, <1>8 DEF n, values, X

(* The numbers of a slot are those of the members that have one.           *)
LEMMA SlotNumbersHold ==
  ASSUME NEW K \in Nat, NEW captures \in Seq(CapturesOf(K)), NEW k \in 1..K
  PROVE  LET P == Parsed(captures, k)
             numbers == SlotNumbers(SlotValues(captures, k))
         IN  \E of : /\ numbers \in Seq(Int) /\ Len(numbers) = Cardinality(P)
                     /\ IsFiniteSet(P)
                     /\ \A j \in 1..Len(numbers) :
                          of[j] \in P /\ numbers[j] = NumberOf(captures, k, of[j])
                     /\ \A m \in P : \E j \in 1..Len(numbers) : of[j] = m
                     /\ \A Q \in SUBSET P :
                          Cardinality({j \in 1..Len(numbers) : of[j] \in Q}) = Cardinality(Q)
<1> DEFINE M == Matched(captures)
           n == Cardinality(M)
           X == Seq(Characters)
           values == SlotValues(captures, k)
           numbers == SlotNumbers(values)
           P == Parsed(captures, k)
           I == {i \in DOMAIN values : FirstNumber(values[i]) # {}}
           c == Cardinality(I)
           parsed == Selected(values, I)
<1>1. PICK at : /\ Lists(at, n, M) /\ values \in Seq(X) /\ Len(values) = n
                /\ \A i \in 1..n : values[i] = ValueOf(captures, k, at[i])
  BY SlotValuesHold
<1>2. n \in Nat /\ at \in [1..n -> M] /\ IsFiniteSet(M) /\ \A m \in M : \E i \in 1..n : at[i] = m
  BY <1>1 DEF Lists
<1> HIDE DEF values, X, M, n
<1>3. I \in SUBSET (DOMAIN values) /\ DOMAIN values = 1..n
  BY <1>1
<1>4. PICK bt : /\ Lists(bt, c, I) /\ parsed \in Seq(X) /\ Len(parsed) = c
                /\ \A j \in 1..c : parsed[j] = values[bt[j]]
  <2> HIDE DEF I
  <2> QED
    BY <1>1, <1>3, SelectedElements, SMTT(30)
<1>5. c \in Nat /\ bt \in [1..c -> I] /\ \A i \in I : \E j \in 1..c : bt[j] = i
  BY <1>4 DEF Lists
<1>6. numbers = [j \in 1..c |-> Value(FirstNumber(parsed[j]))]
  <2>1. DOMAIN parsed = 1..c
    BY <1>4
  <2>2. numbers = [j \in DOMAIN parsed |-> Value(FirstNumber(parsed[j]))]
    BY DEF SlotNumbers
  <2> QED
    BY <2>1, <2>2
<1> HIDE DEF numbers, parsed, c
<1> DEFINE of == [j \in 1..c |-> at[bt[j]]]
<1>7. \A i \in 1..n : i \in I <=> at[i] \in P
  <2>1. \A i \in 1..n : at[i] \in M /\ values[i] = ValueOf(captures, k, at[i])
    BY <1>1, <1>2
  <2> QED
    BY <1>3, <2>1 DEF Parsed, M
<1>8. P \in SUBSET M
  BY DEF Parsed, M
<1> HIDE DEF I, P
<1>9. ASSUME NEW j \in 1..c
      PROVE  of[j] \in P /\ numbers[j] = NumberOf(captures, k, of[j]) /\ numbers[j] \in Int
  <2>1. bt[j] \in I /\ bt[j] \in 1..n
    BY <1>3, <1>5
  <2>2. of[j] = at[bt[j]] /\ at[bt[j]] \in P
    BY <1>7, <2>1
  <2>3. values[bt[j]] = ValueOf(captures, k, of[j])
    BY <1>1, <2>1, <2>2
  <2>4. numbers[j] = NumberOf(captures, k, of[j])
    BY <1>4, <1>6, <2>3 DEF NumberOf
  <2>5. values[bt[j]] \in X
    BY <1>1, <1>3, <2>1
  <2>6. FirstNumber(values[bt[j]]) \subseteq Int
    BY <2>5, FirstNumberIsInt DEF X
  <2>7. FirstNumber(values[bt[j]]) # {}
    BY <2>1 DEF I
  <2>8. numbers[j] = Value(FirstNumber(values[bt[j]]))
    BY <1>4, <1>6
  <2>9. numbers[j] \in Int
    BY <2>6, <2>7, <2>8 DEF Value
  <2> QED
    BY <2>2, <2>4, <2>9
<1>10. numbers \in Seq(Int) /\ Len(numbers) = c
  <2> HIDE DEF of
  <2> QED
    BY <1>5, <1>6, <1>9
<1>11. ASSUME NEW Q \in SUBSET P PROVE Cardinality({j \in 1..c : of[j] \in Q}) = Cardinality(Q)
  <2> DEFINE J == {i \in 1..n : at[i] \in Q}
  <2>1. Cardinality(J) = Cardinality(Q)
    BY <1>1, <1>8, ListedCount DEF n
  <2>2. J \in SUBSET I
    BY <1>3, <1>7
  <2>3. Cardinality({j \in 1..c : bt[j] \in J}) = Cardinality(J)
    <3> HIDE DEF J
    <3> QED
      BY <1>4, <2>2, ListedCount DEF c
  <2>4. \A j \in 1..c : bt[j] \in J <=> of[j] \in Q
    BY <1>3, <1>5
  <2> HIDE DEF J, of
  <2>5. {j \in 1..c : of[j] \in Q} = {j \in 1..c : bt[j] \in J}
    BY <2>4
  <2> QED
    BY <2>1, <2>3, <2>5
<1>12. \A m \in P : \E j \in 1..c : of[j] = m
  <2>1. ASSUME NEW m \in P PROVE \E j \in 1..c : of[j] = m
    <3>1. PICK i \in 1..n : at[i] = m
      BY <1>2, <1>8
    <3>2. PICK j \in 1..c : bt[j] = i
      BY <1>5, <1>7, <3>1
    <3> QED
      BY <3>1, <3>2
  <2> QED
    BY <2>1
<1>13. c = Cardinality(P)
  <2>1. {j \in 1..c : of[j] \in P} = 1..c
    BY <1>9
  <2>2. 1 \in Int /\ c \in Int
    BY <1>5
  <2>3. Cardinality(1..c) = IF 1 > c THEN 0 ELSE c - 1 + 1
    BY <2>2, FS_Interval
  <2>4. Cardinality(1..c) = c
    BY <1>5, <2>3
  <2>5. Cardinality({j \in 1..c : of[j] \in P}) = Cardinality(P)
    BY <1>11
  <2> QED
    BY <2>1, <2>4, <2>5
<1>14. IsFiniteSet(P)
  BY <1>2, <1>8, FS_Subset
<1> HIDE DEF of
<1> QED
  BY <1>9, <1>10, <1>11, <1>12, <1>13, <1>14 DEF P, numbers, values

(* What StatisticsOfMembers asks of a slot. *)
Speaks(slot, captures, k) ==
  LET matched   == Matched(captures)
      parsed    == Parsed(captures, k)
      number(m) == NumberOf(captures, k, m)
  IN  /\ \A n \in slot.numeric :
           /\ 2 * Cardinality({m \in parsed : 2 * number(m) <= n.medianTwice})
                >= Cardinality(parsed)
           /\ 2 * Cardinality({m \in parsed : 2 * number(m) >= n.medianTwice})
                >= Cardinality(parsed)
           /\ \A m \in parsed : number(m) \in n.min..n.max
      /\ slot.numeric = {} <=> 2 * Cardinality(parsed) < Cardinality(matched) \/ parsed = {}
      /\ slot.distinct = Cardinality({ValueOf(captures, k, m) : m \in matched})

(* What SamplesAreFirstDistinct asks of the samples of a slot. *)
AreFirst(samples, captures, k) ==
  LET matched    == Matched(captures)
      value(m)   == ValueOf(captures, k, m)
      earlier(i) == {samples[j] : j \in 1..(i - 1)}
  IN  /\ Len(samples) = Min({Cardinality({value(m) : m \in matched}), SlotSampleCap})
      /\ \A i \in DOMAIN samples : \E m \in matched :
           /\ value(m) = samples[i] /\ samples[i] \notin earlier(i)
           /\ \A o \in matched : o < m => value(o) \in earlier(i)

(* The median halves the numbers of the members, and min and max bound them. *)
LEMMA NumbersSpeak ==
  ASSUME NEW K \in Nat, NEW captures \in Seq(CapturesOf(K)), NEW k \in 1..K,
         NEW n \in SlotNumeric(SlotValues(captures, k))
  PROVE  LET parsed    == Parsed(captures, k)
             number(m) == NumberOf(captures, k, m)
         IN  /\ 2 * Cardinality({m \in parsed : 2 * number(m) <= n.medianTwice})
                  >= Cardinality(parsed)
             /\ 2 * Cardinality({m \in parsed : 2 * number(m) >= n.medianTwice})
                  >= Cardinality(parsed)
             /\ \A m \in parsed : number(m) \in n.min..n.max
<1> DEFINE P == Parsed(captures, k)
           number(m) == NumberOf(captures, k, m)
           values == SlotValues(captures, k)
           numbers == SlotNumbers(values)
           N == Len(numbers)
<1>1. PICK of : /\ numbers \in Seq(Int) /\ N = Cardinality(P) /\ IsFiniteSet(P)
                /\ \A j \in 1..N : of[j] \in P /\ numbers[j] = number(of[j])
                /\ \A m \in P : \E j \in 1..N : of[j] = m
                /\ \A Q \in SUBSET P : Cardinality({j \in 1..N : of[j] \in Q}) = Cardinality(Q)
  BY SlotNumbersHold, SMTT(30)
<1>2. /\ numbers # <<>>
      /\ n = [min |-> Min(ToSet(numbers)), medianTwice |-> MedianTwice(numbers),
              max |-> Max(ToSet(numbers))]
  BY DEF SlotNumeric
<1>3. /\ n.min = Min(ToSet(numbers)) /\ n.medianTwice = MedianTwice(numbers)
      /\ n.max = Max(ToSet(numbers))
  BY <1>2
<1> HIDE DEF numbers, P, number
<1>4. DOMAIN numbers = 1..N /\ N \in Nat /\ \A j \in 1..N : numbers[j] \in Int
  BY <1>1
<1> DEFINE low  == {m \in P : 2 * number(m) <= n.medianTwice}
           high == {m \in P : 2 * number(m) >= n.medianTwice}
           lowAt  == {j \in DOMAIN numbers : 2 * numbers[j] <= n.medianTwice}
           highAt == {j \in DOMAIN numbers : 2 * numbers[j] >= n.medianTwice}
<1>5. 2 * Cardinality(lowAt) >= N /\ 2 * Cardinality(highAt) >= N
  BY <1>1, <1>2, <1>3, MedianHalves
<1>6. Cardinality(lowAt) = Cardinality(low) /\ Cardinality(highAt) = Cardinality(high)
  <2>1. lowAt = {j \in 1..N : of[j] \in low} /\ highAt = {j \in 1..N : of[j] \in high}
    BY <1>1, <1>4
  <2>2. low \in SUBSET P /\ high \in SUBSET P
    OBVIOUS
  <2> HIDE DEF low, high
  <2> QED
    BY <1>1, <2>1, <2>2
<1>7. ASSUME NEW m \in P PROVE number(m) \in n.min..n.max
  <2> DEFINE R == ToSet(numbers)
  <2>1. PICK j \in 1..N : of[j] = m
    BY <1>1
  <2>2. number(m) = numbers[j] /\ numbers[j] \in R /\ R \subseteq Int /\ numbers[j] \in Int
    BY <1>1, <1>4, <2>1 DEF ToSet
  <2>3. IsFiniteSet(R)
    <3>1. IsFiniteSet(ToSet(numbers))
      BY <1>1, OnceCounts
    <3> QED
      BY <3>1
  <2> HIDE DEF R
  <2>4. Min(R) \in R /\ Max(R) \in R /\ Min(R) <= numbers[j] /\ numbers[j] <= Max(R)
    BY <2>2, <2>3, FiniteSetsAreBounded
  <2>5. number(m) \in Min(R)..Max(R)
    BY <2>2, <2>4
  <2> QED
    BY <1>3, <2>5 DEF R
<1> HIDE DEF low, high, lowAt, highAt
<1>8. 2 * Cardinality(low) >= Cardinality(P) /\ 2 * Cardinality(high) >= Cardinality(P)
  BY <1>1, <1>5, <1>6
<1> QED
  BY <1>7, <1>8 DEF P, number, low, high

(* None of the samples is there twice, and each is the value in a place    *)
(* before which there are values of earlier samples only.                  *)
FirstInPlace(samples, values) ==
  \A i \in 1..Len(samples) : \E q \in 1..Len(values) :
    /\ values[q] = samples[i]
    /\ \A j \in 1..(i - 1) : samples[j] # samples[i]
    /\ \A r \in 1..(q - 1) : \E j \in 1..(i - 1) : samples[j] = values[r]

(* Samples are the first distinct values, as many as the cap allows.       *)
LEMMA FirstSamples ==
  ASSUME NEW E, NEW values \in Seq(E), NEW cap \in Nat
  PROVE  LET samples == Upto(Distinct(values), cap)
             c       == Cardinality(FirstSeen(values))
         IN  /\ samples \in Seq(E) /\ c \in Nat
             /\ Len(samples) = IF c < cap THEN c ELSE cap
             /\ FirstInPlace(samples, values)
<1> DEFINE F == FirstSeen(values)
           c == Cardinality(F)
           d == Distinct(values)
           cut == IF Len(d) < cap THEN Len(d) ELSE cap
           samples == Upto(d, cap)
<1>1. F \in SUBSET (DOMAIN values) /\ DOMAIN values = 1..Len(values) /\ Len(values) \in Nat
  BY DEF FirstSeen
<1>2. \A i \in F : \A j \in 1..(i - 1) : values[j] # values[i]
  BY DEF FirstSeen
<1>3. \A r \in 1..Len(values) : \E i \in F : i <= r /\ values[i] = values[r]
  BY FirstOccurs
<1>4. d = Selected(values, F) /\ samples = SubSeq(d, 1, cut)
  BY DEF Distinct, Upto
<1> HIDE DEF F, d, samples
<1>5. PICK at : /\ Lists(at, c, F) /\ d \in Seq(E) /\ Len(d) = c
                /\ \A i \in 1..c : d[i] = values[at[i]]
  BY <1>1, <1>4, SelectedElements, SMTT(30)
<1>6. /\ c \in Nat /\ at \in [1..c -> F] /\ \A p, q \in 1..c : p < q => at[p] < at[q]
      /\ \A i \in F : \E p \in 1..c : at[p] = i
  BY <1>5 DEF Lists
<1> HIDE DEF c
<1>7. cut \in Int /\ cut = (IF c < cap THEN c ELSE cap) /\ cut \in Nat /\ cut <= c
  BY <1>5, <1>6
<1> HIDE DEF cut
<1>8. samples \in Seq(E) /\ Len(samples) = cut /\ \A i \in 1..cut : samples[i] = d[i]
  <2>1. /\ samples \in Seq(E) /\ Len(samples) = IF 1 <= cut THEN cut - 1 + 1 ELSE 0
        /\ \A i \in 1..(cut - 1 + 1) : samples[i] = d[1 + i - 1]
    BY <1>4, <1>5, <1>7, PartOfText
  <2>2. cut - 1 + 1 = cut /\ \A i \in 1..cut : 1 + i - 1 = i
    BY <1>7
  <2> QED
    BY <1>7, <2>1, <2>2
<1>9. \A i \in 1..cut : i \in 1..c /\ samples[i] = values[at[i]] /\ at[i] \in F /\ at[i] \in 1..Len(values)
  BY <1>1, <1>5, <1>6, <1>7, <1>8
<1>10. ASSUME NEW i \in 1..cut, NEW j \in 1..(i - 1) PROVE samples[j] # samples[i]
  <2>1. j \in 1..cut /\ j < i
    BY <1>7, <1>10
  <2>2. at[j] < at[i]
    BY <1>6, <1>9, <2>1
  <2>3. at[j] \in 1..(at[i] - 1)
    BY <1>1, <1>9, <2>1, <2>2
  <2> QED
    BY <1>2, <1>9, <2>1, <2>3
<1>11. ASSUME NEW i \in 1..cut, NEW r \in 1..(at[i] - 1)
       PROVE  \E j \in 1..(i - 1) : samples[j] = values[r]
  <2>1. r \in 1..Len(values) /\ r < at[i] /\ at[i] \in Nat
    BY <1>1, <1>9
  <2>2. PICK f \in F : f <= r /\ values[f] = values[r]
    BY <1>3, <2>1
  <2>3. PICK j \in 1..c : at[j] = f
    BY <1>6
  <2>4. at[j] < at[i] /\ i \in 1..c
    BY <1>1, <1>9, <2>1, <2>2, <2>3
  <2>5. ~(i < j) /\ i # j
    <3>1. ~(at[i] < at[j]) /\ at[i] # at[j]
      BY <1>1, <1>6, <2>1, <2>3, <2>4
    <3> QED
      BY <1>6, <2>4, <3>1
  <2>6. j \in 1..(i - 1) /\ j \in 1..cut
    BY <1>6, <1>7, <2>4, <2>5
  <2> QED
    BY <1>9, <2>2, <2>3, <2>6
<1>12. ASSUME NEW i \in 1..cut
       PROVE  \E q \in 1..Len(values) :
                /\ values[q] = samples[i]
                /\ \A j \in 1..(i - 1) : samples[j] # samples[i]
                /\ \A r \in 1..(q - 1) : \E j \in 1..(i - 1) : samples[j] = values[r]
  BY <1>9, <1>10, <1>11
<1>13. FirstInPlace(samples, values)
  BY <1>8, <1>12 DEF FirstInPlace
<1> QED
  BY <1>6, <1>7, <1>8, <1>13 DEF c, F, samples, d

(* What a summary says of a slot is true of the members (Speaks), and its  *)
(* samples are their first distinct values (AreFirst).                     *)
LEMMA SlotSpeaks ==
  ASSUME NEW K \in Nat, NEW captures \in Seq(CapturesOf(K)), NEW k \in 1..K
  PROVE  LET slot == SlotSummary(SlotValues(captures, k))
         IN  Speaks(slot, captures, k) /\ AreFirst(slot.samples, captures, k)
<1> DEFINE M == Matched(captures)
           P == Parsed(captures, k)
           X == Seq(Characters)
           values == SlotValues(captures, k)
           numbers == SlotNumbers(values)
           V == {ValueOf(captures, k, m) : m \in M}
           slot == SlotSummary(values)
           samples == Upto(Distinct(values), SlotSampleCap)
<1>1. PICK at : /\ Lists(at, Cardinality(M), M)
                /\ values \in Seq(X) /\ Len(values) = Cardinality(M)
                /\ \A i \in 1..Cardinality(M) : values[i] = ValueOf(captures, k, at[i])
  BY SlotValuesHold
<1>2. PICK of : /\ numbers \in Seq(Int) /\ Len(numbers) = Cardinality(P) /\ IsFiniteSet(P)
                /\ \A m \in P : \E j \in 1..Len(numbers) : of[j] = m
                /\ \A j \in 1..Len(numbers) : of[j] \in P
  BY SlotNumbersHold
<1>3. \A n \in SlotNumeric(values) :
        /\ 2 * Cardinality({m \in P : 2 * NumberOf(captures, k, m) <= n.medianTwice})
             >= Cardinality(P)
        /\ 2 * Cardinality({m \in P : 2 * NumberOf(captures, k, m) >= n.medianTwice})
             >= Cardinality(P)
        /\ \A m \in P : NumberOf(captures, k, m) \in n.min..n.max
  BY NumbersSpeak
<1>4. /\ slot.numeric = SlotNumeric(values)
      /\ slot.distinct = Cardinality(FirstSeen(values))
      /\ slot.samples = samples
  BY DEF SlotSummary
<1> HIDE DEF values, numbers, slot, X, M, P, samples
<1>5. SlotNumeric(values) = {} <=> 2 * Cardinality(P) < Cardinality(M) \/ P = {}
  <2>1. SlotNumeric(values) = {} <=> numbers = <<>> \/ 2 * Len(numbers) < Len(values)
    BY DEF SlotNumeric, numbers
  <2>2. numbers = <<>> <=> P = {}
    <3>1. numbers = <<>> => Len(numbers) = 0
      OBVIOUS
    <3>2. numbers = <<>> => P = {}
      BY <1>2, <3>1
    <3>3. numbers # <<>> => 1 \in 1..Len(numbers)
      BY <1>2
    <3>4. numbers # <<>> => P # {}
      BY <1>2, <3>3
    <3> QED
      BY <3>2, <3>4
  <2> QED
    BY <1>1, <1>2, <2>1, <2>2
<1>6. ToSet(values) = V
  <2>1. DOMAIN values = 1..Cardinality(M)
    BY <1>1
  <2>2. /\ \A i \in 1..Cardinality(M) : at[i] \in M
        /\ \A m \in M : \E i \in 1..Cardinality(M) : at[i] = m
    BY <1>1 DEF Lists
  <2> DEFINE c == Cardinality(M)
  <2>3. ToSet(values) = {values[i] : i \in 1..c}
    BY <2>1 DEF ToSet
  <2>4. \A i \in 1..c : values[i] = ValueOf(captures, k, at[i])
    BY <1>1
  <2>5. V = {ValueOf(captures, k, m) : m \in M}
    OBVIOUS
  <2> HIDE DEF M, V, values, c
  <2> QED
    BY <2>2, <2>3, <2>4, <2>5 DEF c
<1> HIDE DEF V
<1>7. Cardinality(FirstSeen(values)) = Cardinality(V)
  BY <1>1, <1>6, FirstSeenCounts
<1>8. /\ samples \in Seq(X) /\ Cardinality(V) \in Nat
      /\ Len(samples) = IF Cardinality(V) < SlotSampleCap THEN Cardinality(V) ELSE SlotSampleCap
      /\ FirstInPlace(samples, values)
  <2> DEFINE cap == SlotSampleCap
             c   == Cardinality(FirstSeen(values))
  <2>1. cap \in Nat /\ values \in Seq(X)
    BY <1>1, ProfileAssumption
  <2>2. samples = Upto(Distinct(values), cap)
    BY DEF samples
  <2> HIDE DEF cap
  <2>3. /\ samples \in Seq(X) /\ c \in Nat
        /\ Len(samples) = IF c < cap THEN c ELSE cap
        /\ FirstInPlace(samples, values)
    BY <2>1, <2>2, FirstSamples
  <2>4. c = Cardinality(V)
    BY <1>7
  <2> HIDE DEF c
  <2> QED
    BY <2>3, <2>4 DEF cap
<1>9. Len(samples) = Min({Cardinality(V), SlotSampleCap})
  <2> DEFINE B == {Cardinality(V), SlotSampleCap}
  <2>1. Cardinality(V) \in Nat /\ SlotSampleCap \in Nat
    BY <1>8, ProfileAssumption
  <2>2. B \subseteq Int /\ B # {} /\ IsFiniteSet(B)
    <3>1. IsFiniteSet({Cardinality(V)})
      BY FS_Singleton
    <3>2. IsFiniteSet({Cardinality(V)} \cup {SlotSampleCap})
      BY <3>1, FS_AddElement
    <3>3. B = {Cardinality(V)} \cup {SlotSampleCap}
      OBVIOUS
    <3>4. IsFiniteSet(B)
      BY <3>2, <3>3
    <3>5. B \subseteq Int /\ B # {}
      BY <2>1
    <3> QED
      BY <3>4, <3>5
  <2>3. Min(B) \in B /\ \A x \in B : Min(B) <= x
    <3> HIDE DEF B
    <3> QED
      BY <2>2, FiniteSetsAreBounded
  <2> QED
    BY <1>8, <2>1, <2>3
<1>10. ASSUME NEW i \in DOMAIN samples
       PROVE  LET earlier == {samples[j] : j \in 1..(i - 1)}
              IN  \E m \in M :
                    /\ ValueOf(captures, k, m) = samples[i] /\ samples[i] \notin earlier
                    /\ \A o \in M : o < m => ValueOf(captures, k, o) \in earlier
  <2> DEFINE n == Cardinality(M)
             earlier == {samples[j] : j \in 1..(i - 1)}
  <2>1. /\ n \in Nat /\ at \in [1..n -> M] /\ M \subseteq Nat
        /\ \A p, q \in 1..n : p < q => at[p] < at[q]
        /\ \A m \in M : \E p \in 1..n : at[p] = m
    <3>1. M \subseteq Nat
      BY DEF M, Matched
    <3> QED
      BY <1>1, <3>1 DEF Lists
  <2>2. Len(values) = n /\ \A p \in 1..n : values[p] = ValueOf(captures, k, at[p])
    BY <1>1
  <2>3. i \in 1..Len(samples)
    BY <1>8
  <2> HIDE DEF n
  <2>4. PICK q \in 1..n :
          /\ values[q] = samples[i]
          /\ \A j \in 1..(i - 1) : samples[j] # samples[i]
          /\ \A r \in 1..(q - 1) : \E j \in 1..(i - 1) : samples[j] = values[r]
    BY <1>8, <2>2, <2>3 DEF FirstInPlace
  <2>5. at[q] \in M /\ ValueOf(captures, k, at[q]) = samples[i] /\ samples[i] \notin earlier
    BY <2>1, <2>2, <2>4
  <2>6. ASSUME NEW o \in M, o < at[q] PROVE ValueOf(captures, k, o) \in earlier
    <3>1. PICK r \in 1..n : at[r] = o
      BY <2>1
    <3>2. ~(q < r) /\ q # r
      <4>1. ~(at[q] < at[r]) /\ at[q] # at[r]
        <5>1. at[q] \in Nat /\ o \in Nat
          BY <2>1, <2>5
        <5> QED
          BY <2>6, <3>1, <5>1
      <4> QED
        BY <2>1, <3>1, <4>1
    <3>3. r \in 1..(q - 1)
      BY <2>1, <3>2
    <3> QED
      BY <2>2, <2>4, <3>1, <3>3
  <2> HIDE DEF earlier
  <2>7. \A o \in M : o < at[q] => ValueOf(captures, k, o) \in earlier
    BY <2>6
  <2> QED
    BY <2>5, <2>7 DEF earlier
<1>11. Speaks(slot, captures, k)
  <2>1. /\ \A n \in slot.numeric :
             /\ 2 * Cardinality({m \in P : 2 * NumberOf(captures, k, m) <= n.medianTwice})
                  >= Cardinality(P)
             /\ 2 * Cardinality({m \in P : 2 * NumberOf(captures, k, m) >= n.medianTwice})
                  >= Cardinality(P)
             /\ \A m \in P : NumberOf(captures, k, m) \in n.min..n.max
        /\ slot.numeric = {} <=> 2 * Cardinality(P) < Cardinality(M) \/ P = {}
        /\ slot.distinct = Cardinality(V)
    BY <1>3, <1>4, <1>5, <1>7
  <2> QED
    BY <2>1, Zenon DEF Speaks, M, P, V
<1>12. AreFirst(samples, captures, k)
  BY <1>9, <1>10, Zenon DEF AreFirst, M, V
<1> QED
  BY <1>4, <1>11, <1>12 DEF slot, values

-----------------------------------------------------------------------------
(* The profiles are those of groups of lines of the log.                   *)
ProfilesBuilt ==
  \A p \in ToSet(profiles) :
    p.members \in Seq(DOMAIN log) /\ p.members # <<>> /\ p = ProfileOf(p.members)

(* A group is not empty, and its members are in the log.                   *)
LEMMA GroupsHold ==
  ASSUME LinesLogged, NEW g \in DOMAIN Groups
  PROVE  Groups[g] \in Seq(DOMAIN log) /\ Groups[g] # <<>>
<1> DEFINE D == DOMAIN log
           bucket(i) == {j \in D : log[j].id = log[i].id}
           firsts == {i \in D : \A j \in bucket(i) : i <= j}
           n == Cardinality(firsts)
           at == Ascending(firsts)
           B == bucket(at[g])
           N == Cardinality(B)
           m == Ascending(B)
<1>1. D \subseteq Nat /\ IsFiniteSet(D)
  <2>1. IsFiniteSet(1..Len(log)) /\ D = 1..Len(log) /\ 1..Len(log) \subseteq Nat
    BY FS_Interval DEF LinesLogged
  <2> QED
    BY <2>1
<1>2. Groups = [h \in 1..n |-> Ascending(bucket(at[h]))]
  BY DEF Groups
<1>3. g \in 1..n /\ Groups[g] = m
  BY <1>2
<1> HIDE DEF D, bucket
<1>4. firsts \in SUBSET D
  OBVIOUS
<1> HIDE DEF firsts
<1>5. Lists(at, n, firsts)
  <2>1. IsFiniteSet(firsts) /\ firsts \subseteq Nat
    BY <1>1, <1>4, FS_Subset
  <2> QED
    BY <2>1, AscendingLists
<1>6. at[g] \in D
  BY <1>3, <1>4, <1>5 DEF Lists
<1>7. B \in SUBSET D /\ at[g] \in B
  BY <1>6 DEF bucket, D
<1> HIDE DEF B
<1>8. Lists(m, N, B)
  <2>1. IsFiniteSet(B) /\ B \subseteq Nat
    BY <1>1, <1>7, FS_Subset
  <2> QED
    BY <2>1, AscendingLists
<1> HIDE DEF m, N
<1>9. N \in Nat /\ m \in [1..N -> B] /\ \E i \in 1..N : m[i] = at[g]
  BY <1>7, <1>8 DEF Lists
<1>10. m \in Seq(D)
  BY <1>7, <1>9
<1>11. Len(m) = N /\ N # 0
  BY <1>9
<1>12. m # <<>>
  BY <1>11
<1> QED
  BY <1>3, <1>10, <1>12 DEF D

(* Every profile is that of a group of logged lines, in every state.       *)
LEMMA ProfilesAreBuilt == Spec => [](LinesLogged /\ ProfilesBuilt)
<1>1. Init => ProfilesBuilt
  BY DEF Init, ProfilesBuilt, ToSet
<1>2. LinesLogged /\ ProfilesBuilt /\ [Next]_vars => ProfilesBuilt'
  <2> SUFFICES ASSUME LinesLogged, ProfilesBuilt, [Next]_vars PROVE ProfilesBuilt'
    OBVIOUS
  <2>1. ASSUME log' = log, NEW members PROVE ProfileOf(members)' = ProfileOf(members)
    BY <2>1 DEF ProfileOf, MemberLines
  <2>2. CASE UNCHANGED vars
    <3>1. log' = log /\ profiles' = profiles
      BY <2>2 DEF vars, engineVars
    <3> QED
      BY <2>1, <3>1 DEF ProfilesBuilt, ToSet
  <2>3. CASE GroupLine
    <3>1. profiles' = <<>>
      BY <2>3 DEF GroupLine
    <3> QED
      BY <3>1 DEF ProfilesBuilt, ToSet
  <2>4. CASE TemplateGroups
    <3>1. log' = log /\ profiles' = [g \in DOMAIN Groups |-> ProfileOf(Groups[g])]
      BY <2>4 DEF TemplateGroups, engineVars
    <3>2. \A g \in DOMAIN Groups : Groups[g] \in Seq(DOMAIN log) /\ Groups[g] # <<>>
      BY GroupsHold
    <3>3. \A members : ProfileOf(members).members = members
      BY DEF ProfileOf
    <3>4. SUFFICES ASSUME NEW p \in ToSet(profiles')
                   PROVE  /\ p.members \in Seq(DOMAIN log) /\ p.members # <<>>
                          /\ p = ProfileOf(p.members)
      BY <2>1, <3>1 DEF ProfilesBuilt, ToSet
    <3>5. PICK g \in DOMAIN Groups : p = ProfileOf(Groups[g])
      BY <3>1, <3>4 DEF ToSet
    <3> QED
      BY <3>2, <3>3, <3>5
  <2> QED
    BY <2>2, <2>3, <2>4 DEF Next
<1> QED
  BY <1>1, <1>2, LinesAreLogged, PTL DEF Spec

(* The lines of a group are texts.                                         *)
LEMMA GroupIsText ==
  ASSUME LinesLogged, NEW members \in Seq(DOMAIN log), members # <<>>
  PROVE  /\ MemberLines(members) \in Seq(Seq(Characters)) /\ MemberLines(members) # <<>>
         /\ DOMAIN MemberLines(members) = DOMAIN members
<1> DEFINE X == Seq(Characters)
           group == MemberLines(members)
<1>1. \A i \in DOMAIN log : log[i].line[2] \in X
  BY LoggedLine DEF Characters
<1>2. Len(members) \in Nat /\ DOMAIN members = 1..Len(members) /\ Len(members) # 0
  OBVIOUS
<1>3. group = [m \in DOMAIN members |-> log[members[m]].line[2]]
  BY DEF MemberLines
<1> HIDE DEF X, group
<1>4. \A m \in DOMAIN members : log[members[m]].line[2] \in X
  BY <1>1
<1>5. group \in Seq(X) /\ Len(group) = Len(members) /\ DOMAIN group = DOMAIN members
  BY <1>2, <1>3, <1>4
<1> QED
  BY <1>2, <1>5 DEF X, group

(* The summaries of the groups in the profiles speak for their members.    *)
LEMMA ProfilesSpeak ==
  ASSUME LinesLogged, ProfilesBuilt, NEW p \in ToSet(profiles), NEW k \in DOMAIN p.group.slots
  PROVE  /\ Speaks(p.group.slots[k], p.captures, k)
         /\ AreFirst(p.group.slots[k].samples, p.captures, k)
<1> DEFINE members == p.members
           group == MemberLines(members)
           template == DeriveTemplate(group)
           captures == [m \in DOMAIN group |-> CaptureSlots(template, group[m])]
           K == Cardinality(SlotsIn(template))
<1>1. members \in Seq(DOMAIN log) /\ members # <<>> /\ p = ProfileOf(members)
  BY DEF ProfilesBuilt
<1>2. p.captures = captures /\ p.group = TemplateGroup(members, template, captures)
  <2>1. /\ ProfileOf(members).captures = captures
        /\ ProfileOf(members).group = TemplateGroup(members, template, captures)
    BY DEF ProfileOf
  <2> QED
    BY <1>1, <2>1
<1> HIDE DEF members
<1>3. group \in Seq(Seq(Characters)) /\ group # <<>>
  BY <1>1, GroupIsText
<1> HIDE DEF group
<1>4. template \in Seq(Symbols)
  BY <1>3, TemplateIsText
<1> HIDE DEF template
<1>5. K \in Nat
  <2>1. SlotsIn(template) \in SUBSET (1..Len(template)) /\ IsFiniteSet(1..Len(template))
    BY <1>4, FS_Interval DEF SlotsIn
  <2> QED
    BY <2>1, FS_Subset, FS_CardinalityType
<1>6. captures \in Seq(CapturesOf(K))
  <2>1. \A m \in DOMAIN group : CaptureSlots(template, group[m]) \in CapturesOf(K)
    <3>1. ASSUME NEW m \in DOMAIN group
          PROVE  CaptureSlots(template, group[m]) \in CapturesOf(K)
      <4>1. group[m] \in Seq(Characters)
        BY <1>3
      <4>2. \A c \in Captures(template, group[m]) : c \in Seq(Seq(Characters)) /\ Len(c) = K
        BY <1>4, <4>1, CapturesFit
      <4> QED
        BY <4>2 DEF CaptureSlots, CapturesOf
    <3> QED
      BY <3>1
  <2>2. Len(group) \in Nat /\ DOMAIN group = 1..Len(group)
    BY <1>3
  <2> HIDE DEF K
  <2> QED
    BY <2>1, <2>2
<1> HIDE DEF captures, K
<1>7. p.group.slots = [j \in 1..K |-> SlotSummary(SlotValues(captures, j))]
  BY <1>2 DEF TemplateGroup, K, SlotsIn
<1>8. k \in 1..K /\ p.group.slots[k] = SlotSummary(SlotValues(captures, k))
  BY <1>7
<1>9. LET slot == SlotSummary(SlotValues(captures, k))
      IN  Speaks(slot, captures, k) /\ AreFirst(slot.samples, captures, k)
  BY <1>5, <1>6, <1>8, SlotSpeaks
<1> QED
  BY <1>2, <1>8, <1>9

(* The summary of a slot speaks for its members: repeated values included, *)
(* its statistics are theirs, and its samples are their first distinct     *)
(* values up to the cap, in every batch (SummariesSpeakForMembers).        *)
THEOREM Summaries == Spec => []SummariesSpeakForMembers
<1>1. StatisticsOfMembers <=>
        \A p \in ToSet(profiles) : \A k \in DOMAIN p.group.slots :
          Speaks(p.group.slots[k], p.captures, k)
  BY SMTT(30) DEF StatisticsOfMembers, Speaks, Matched, Parsed, ValueOf, NumberOf
<1>2. SamplesAreFirstDistinct <=>
        \A p \in ToSet(profiles) : \A k \in DOMAIN p.group.slots :
          AreFirst(p.group.slots[k].samples, p.captures, k)
  BY SMTT(30) DEF SamplesAreFirstDistinct, AreFirst, Matched, ValueOf
<1>3. LinesLogged /\ ProfilesBuilt => SummariesSpeakForMembers
  BY <1>1, <1>2, ProfilesSpeak DEF SummariesSpeakForMembers
<1> QED
  BY <1>3, ProfilesAreBuilt, PTL

-----------------------------------------------------------------------------
(* Slots are words. *)

(* The equations of a match. *)
Matches(match, pattern, text) ==
  \A at \in PlacePairs(pattern, text) :
    match[at] = CaptureStep(match, pattern, text, at[1], at[2])

(* For c characters the pattern reads like the text.                       *)
Along(pattern, text, i, p, c) ==
  /\ i + c <= Len(pattern) + 1 /\ p + c <= Len(text) + 1
  /\ \A k \in 0..(c - 1) : pattern[i + k] = text[p + k]

(* The regex goes through what reads alike.                                *)
LEMMA Walk ==
  ASSUME NEW pattern \in Seq(Symbols), NEW text \in Seq(Characters), NEW match,
         Matches(match, pattern, text), NEW i \in Nat \ {0}, NEW p \in Nat \ {0}, NEW c \in Nat,
         Along(pattern, text, i, p, c)
  PROVE  match[<<i, p>>] = match[<<i + c, p + c>>]
<1> DEFINE T == {d \in Nat : Along(pattern, text, i, p, d) =>
                               match[<<i, p>>] = match[<<i + d, p + d>>]}
<1>1. Len(pattern) \in Nat /\ Len(text) \in Nat
  OBVIOUS
<1>2. 0 \in T
  OBVIOUS
<1>3. ASSUME NEW d \in Nat, d \in T PROVE d + 1 \in T
  <2>1. SUFFICES ASSUME Along(pattern, text, i, p, d + 1)
                 PROVE  match[<<i, p>>] = match[<<i + (d + 1), p + (d + 1)>>]
    OBVIOUS
  <2> DEFINE j == i + d
             q == p + d
  <2>2. /\ j \in 1..Len(pattern) /\ q \in 1..Len(text)
        /\ i + (d + 1) = j + 1 /\ p + (d + 1) = q + 1
    BY <1>1, <2>1 DEF Along
  <2>3. pattern[j] = text[q]
    <3>1. d \in 0..((d + 1) - 1)
      OBVIOUS
    <3> QED
      BY <2>1, <3>1 DEF Along
  <2>4. Along(pattern, text, i, p, d)
    <3>1. \A k \in 0..(d - 1) : k \in 0..((d + 1) - 1)
      OBVIOUS
    <3>2. i + d <= Len(pattern) + 1 /\ p + d <= Len(text) + 1
      BY <1>1, <2>2
    <3> QED
      BY <2>1, <3>1, <3>2 DEF Along
  <2>5. match[<<i, p>>] = match[<<j, q>>]
    BY <1>3, <2>4
  <2> HIDE DEF j, q, T
  <2>6. pattern[j] # Placeholder
    <3>1. text[q] \in Characters
      BY <2>2
    <3> QED
      BY <2>3, <3>1, CharacterAssumption DEF Characters
  <2>7. <<j, q>> \in PlacePairs(pattern, text)
    BY <1>1, <2>2 DEF PlacePairs
  <2>8. match[<<j, q>>] = CaptureStep(match, pattern, text, j, q)
    <3> DEFINE at == <<j, q>>
    <3>1. at \in PlacePairs(pattern, text) /\ at[1] = j /\ at[2] = q
      BY <2>7
    <3> HIDE DEF at
    <3>2. match[at] = CaptureStep(match, pattern, text, at[1], at[2])
      BY <3>1 DEF Matches
    <3> QED
      BY <3>1, <3>2 DEF at
  <2>9. CaptureStep(match, pattern, text, j, q) = match[<<j + 1, q + 1>>]
    <3>1. ~(j > Len(pattern)) /\ q <= Len(text)
      BY <1>1, <2>2
    <3> QED
      BY <2>3, <2>6, <3>1 DEF CaptureStep
  <2> QED
    BY <2>2, <2>5, <2>8, <2>9
<1>4. Nat \subseteq T
  <2> HIDE DEF T
  <2> QED
    BY <1>2, <1>3, StepByStep
<1> QED
  BY <1>4

(* Where token i of a line ends; the line before its tokens ends at 0.     *)
EndOf(sp, i) == IF i = 0 THEN 0 ELSE sp[i].end

(* A template that has the text of a line, with placeholders for some of   *)
(* its tokens, and its prefixes.                                           *)
Piece(line, sp, dynamic, i) ==
  Gap(line, sp, i) \o (IF i \in dynamic THEN <<Placeholder>> ELSE Text(line, sp[i]))

(* F[i] is the template up to token i.                                     *)
BuiltUp(F, pattern, line, sp, dynamic) ==
  /\ F \in [0..Len(sp) -> Seq(Symbols)] /\ F[0] = <<>> /\ F[Len(sp)] = pattern
  /\ \A i \in 1..Len(sp) : F[i] = F[i - 1] \o Piece(line, sp, dynamic, i)

(* A piece of a template is a text.                                        *)
LEMMA PieceType ==
  ASSUME NEW line \in Seq(Characters), NEW dynamic, NEW i \in 1..Len(Lex(line))
  PROVE  Piece(line, Lex(line), dynamic, i) \in Seq(Symbols)
<1>1. Gap(line, Lex(line), i) \in Seq(Characters) /\ Text(line, Lex(line)[i]) \in Seq(Characters)
  BY LexParts
<1>2. Seq(Characters) \subseteq Seq(Symbols) /\ <<Placeholder>> \in Seq(Symbols)
  BY DEF Symbols
<1>3. \A s, t \in Seq(Symbols) : s \o t \in Seq(Symbols)
  OBVIOUS
<1> QED
  BY <1>1, <1>2, <1>3 DEF Piece

(* Such a template has such prefixes.                                      *)
LEMMA PrefixesHold ==
  ASSUME NEW line \in Seq(Characters), NEW pattern, NEW dynamic, NEW F,
         BuiltUp(F, pattern, line, Lex(line), dynamic)
  PROVE  \A i \in 0..Len(Lex(line)) :
           /\ Len(F[i]) \in Nat /\ Len(F[i]) <= Len(pattern)
           /\ \A k \in 1..Len(F[i]) : pattern[k] = F[i][k]
<1> DEFINE n == Len(Lex(line))
           X == Seq(Symbols)
           piece(i) == Piece(line, Lex(line), dynamic, i)
           Prefix(i) == /\ Len(F[i]) \in Nat /\ Len(F[i]) <= Len(pattern)
                        /\ \A k \in 1..Len(F[i]) : pattern[k] = F[i][k]
           T == {d \in Nat : d <= n => Prefix(n - d)}
<1>1. n \in Nat
  BY LexParts
<1>2. F \in [0..n -> X] /\ F[n] = pattern /\ \A i \in 1..n : F[i] = F[i - 1] \o piece(i)
  BY DEF BuiltUp
<1>3. \A i \in 1..n : piece(i) \in X
  BY PieceType
<1> HIDE DEF n, piece
<1>4. 0 \in T
  <2>1. Prefix(n)
    <3>1. F[n] \in X
      BY <1>1, <1>2
    <3> QED
      BY <1>2, <3>1
  <2>2. n - 0 = n
    BY <1>1
  <2> HIDE DEF Prefix
  <2> QED
    BY <2>1, <2>2
<1>5. ASSUME NEW d \in Nat, d \in T PROVE d + 1 \in T
  <2>1. SUFFICES ASSUME d + 1 <= n PROVE Prefix(n - (d + 1))
    BY DEF T
  <2> DEFINE i == n - d
  <2>2. i \in 1..n /\ i - 1 \in 0..n /\ n - (d + 1) = i - 1 /\ d <= n
    BY <1>1, <2>1
  <2>3. Prefix(i)
    BY <1>5, <2>2
  <2> HIDE DEF i
  <2>4. F[i] = F[i - 1] \o piece(i) /\ F[i - 1] \in X /\ piece(i) \in X
    BY <1>2, <1>3, <2>2
  <2> HIDE DEF T
  <2> DEFINE s == F[i - 1]
             t == piece(i)
             u == F[i]
  <2>5. /\ Len(s) \in Nat /\ Len(t) \in Nat /\ Len(u) = Len(s) + Len(t)
        /\ \A k \in 1..Len(s) : u[k] = s[k]
    BY <2>4
  <2>6. \A k \in 1..Len(s) : k \in 1..Len(u)
    BY <2>5
  <2>7. Prefix(i - 1)
    <3> HIDE DEF s, t, u
    <3>1. Len(u) <= Len(pattern) /\ \A k \in 1..Len(u) : pattern[k] = u[k]
      BY <2>3 DEF u
    <3>2. Len(pattern) \in Nat
      <4>1. pattern \in X
        BY <1>1, <1>2
      <4> QED
        BY <4>1
    <3>3. Len(s) \in Nat /\ Len(s) <= Len(pattern) /\ \A k \in 1..Len(s) : pattern[k] = s[k]
      BY <2>5, <2>6, <3>1, <3>2
    <3> QED
      BY <3>3 DEF s
  <2> HIDE DEF Prefix
  <2> QED
    BY <2>2, <2>7
<1>6. Nat \subseteq T
  <2> HIDE DEF T
  <2> QED
    BY <1>4, <1>5, StepByStep
<1>7. ASSUME NEW i \in 0..n PROVE Prefix(i)
  <2>1. n - i \in Nat /\ n - i <= n /\ n - (n - i) = i
    BY <1>1
  <2>2. n - i \in T
    BY <1>6, <2>1
  <2>3. Prefix(n - (n - i))
    <3> HIDE DEF Prefix
    <3> QED
      BY <2>1, <2>2
  <2> HIDE DEF Prefix
  <2> QED
    BY <2>1, <2>3
<1> QED
  BY <1>7 DEF n

(* u is s and then t.                                                      *)
Joined(u, s, t) ==
  /\ Len(s) \in Nat /\ Len(t) \in Nat /\ Len(u) = Len(s) + Len(t)
  /\ \A k \in 1..Len(s) : u[k] = s[k]
  /\ \A k \in 1..Len(t) : u[Len(s) + k] = t[k]

(* A concatenation, place by place.                                        *)
LEMMA JoinedAt ==
  ASSUME NEW E, NEW s \in Seq(E), NEW t \in Seq(E)
  PROVE  s \o t \in Seq(E) /\ Joined(s \o t, s, t)
<1>1. /\ s \o t \in Seq(E) /\ Len(s) \in Nat /\ Len(t) \in Nat
      /\ Len(s \o t) = Len(s) + Len(t)
  OBVIOUS
<1>2. \A k \in 1..(Len(s) + Len(t)) :
        (s \o t)[k] = IF k <= Len(s) THEN s[k] ELSE t[k - Len(s)]
  BY ConcatProperties
<1>3. ASSUME NEW k \in 1..Len(s) PROVE (s \o t)[k] = s[k]
  <2>1. k \in 1..(Len(s) + Len(t)) /\ k <= Len(s)
    BY <1>1
  <2> QED
    BY <1>2, <2>1
<1>4. ASSUME NEW k \in 1..Len(t) PROVE (s \o t)[Len(s) + k] = t[k]
  <2> DEFINE j == Len(s) + k
  <2>1. j \in 1..(Len(s) + Len(t)) /\ ~(j <= Len(s)) /\ j - Len(s) = k
    BY <1>1
  <2> HIDE DEF j
  <2>2. (s \o t)[j] = t[k]
    BY <1>2, <2>1
  <2> QED
    BY <2>2 DEF j
<1> QED
  BY <1>1, <1>3, <1>4 DEF Joined

(* Where a token, and the gap before it, are in the line.                  *)
LEMMA TokenPlaces ==
  ASSUME NEW E, NEW line \in Seq(E), NEW i \in 1..Len(Lex(line))
  PROVE  LET sp == Lex(line)
         IN  /\ EndOf(sp, i - 1) \in Nat /\ EndOf(sp, i - 1) < sp[i].start
             /\ sp[i].start \in Nat /\ sp[i].end \in Nat
             /\ sp[i].start <= sp[i].end /\ sp[i].end <= Len(line)
             /\ EndOf(sp, i) = sp[i].end
<1> DEFINE sp == Lex(line)
           n == Len(sp)
<1>1. /\ n \in Nat
      /\ \A p \in 1..n :
           /\ sp[p].start \in 1..Len(line) /\ sp[p].end \in sp[p].start..Len(line)
           /\ \A q \in 1..n : p < q => sp[p].end < sp[q].start
  BY LexParts
<1>0. i \in 1..n
  OBVIOUS
<1> HIDE DEF sp, n
<1>2. Len(line) \in Nat
  OBVIOUS
<1>3. \A p \in 1..n : sp[p].start \in Nat \ {0} /\ sp[p].end \in Nat
  BY <1>1, <1>2
<1>4. CASE i = 1
  <2>1. EndOf(sp, i - 1) = 0
    BY <1>4 DEF EndOf
  <2>2. EndOf(sp, i) = sp[i].end
    BY <1>4 DEF EndOf
  <2> QED
    BY <1>0, <1>1, <1>2, <1>3, <2>1, <2>2 DEF sp
<1>5. CASE i # 1
  <2>1. i - 1 \in 1..n /\ i - 1 < i /\ i - 1 # 0 /\ i # 0
    BY <1>0, <1>1, <1>5
  <2>2. EndOf(sp, i - 1) = sp[i - 1].end /\ EndOf(sp, i) = sp[i].end
    BY <2>1 DEF EndOf
  <2> QED
    BY <1>0, <1>1, <1>2, <1>3, <2>1, <2>2 DEF sp
<1> QED
  BY <1>4, <1>5

(* What a piece adds to the template.                                      *)
LEMMA PiecesHold ==
  ASSUME NEW line \in Seq(Characters), NEW pattern, NEW dynamic, NEW F,
         BuiltUp(F, pattern, line, Lex(line), dynamic), NEW i \in 1..Len(Lex(line))
  PROVE  LET token == Lex(line)[i]
             e == EndOf(Lex(line), i - 1)
             base == Len(F[i - 1])
         IN  /\ \A k \in 1..(token.start - 1 - e) : pattern[base + k] = line[e + k]
             /\ i \in dynamic =>
                  /\ Len(F[i]) = base + (token.start - 1 - e) + 1
                  /\ pattern[Len(F[i])] = Placeholder
             /\ i \notin dynamic =>
                  /\ Len(F[i]) = base + (token.end - e)
                  /\ \A k \in 1..(token.end - e) : pattern[base + k] = line[e + k]
<1> DEFINE sp == Lex(line)
           s == sp[i].start
           z == sp[i].end
           e == EndOf(sp, i - 1)
           base == Len(F[i - 1])
           g == s - 1 - e
           gap == Gap(line, sp, i)
           rest == IF i \in dynamic THEN <<Placeholder>> ELSE Text(line, sp[i])
           X == Seq(Symbols)
<1>1. e \in Nat /\ s \in Nat /\ z \in Nat /\ e < s /\ s <= z /\ z <= Len(line) /\ Len(line) \in Nat
  BY TokenPlaces
<1>2. gap = SubSeq(line, e + 1, s - 1)
  <2>1. gap = SubSeq(line, IF i = 1 THEN 1 ELSE sp[i - 1].end + 1, s - 1)
    BY DEF Gap
  <2>2. i \in Int
    BY LexParts
  <2>3. CASE i = 1
    BY <2>1, <2>3 DEF EndOf
  <2>4. CASE i # 1
    <3>1. i - 1 # 0
      BY <2>2, <2>4
    <3>2. e = sp[i - 1].end
      BY <3>1 DEF EndOf
    <3> HIDE DEF e, gap, s, sp
    <3> QED
      BY <2>1, <2>4, <3>2
  <2> QED
    BY <2>3, <2>4
<1>3. Text(line, sp[i]) = SubSeq(line, s, z)
  BY DEF Text
<1>4. F[i] = F[i - 1] \o (gap \o rest) /\ F[i - 1] \in X
  <2>1. F[i] = F[i - 1] \o Piece(line, sp, dynamic, i) /\ F \in [0..Len(sp) -> X]
    BY DEF BuiltUp
  <2>2. i - 1 \in 0..Len(sp)
    BY LexParts
  <2> QED
    BY <2>1, <2>2 DEF Piece
<1>5. /\ Len(F[i]) \in Nat /\ \A k \in 1..Len(F[i]) : pattern[k] = F[i][k]
  <2>1. i \in 0..Len(sp)
    BY LexParts
  <2> QED
    BY <2>1, PrefixesHold
<1> HIDE DEF sp, s, z, e, X
<1>6. g \in Nat /\ gap \in Seq(Characters) /\ Len(gap) = g /\ \A k \in 1..g : gap[k] = line[e + k]
  <2>1. e + 1 \in Int /\ s - 1 \in Int /\ e + 1 >= 1 /\ s - 1 <= Len(line) /\ g \in Nat
    BY <1>1
  <2>2. /\ SubSeq(line, e + 1, s - 1) \in Seq(Characters)
        /\ Len(SubSeq(line, e + 1, s - 1)) = IF e + 1 <= s - 1 THEN s - 1 - (e + 1) + 1 ELSE 0
        /\ \A k \in 1..(s - 1 - (e + 1) + 1) : SubSeq(line, e + 1, s - 1)[k] = line[e + 1 + k - 1]
    <3> DEFINE i0 == e + 1
               j0 == s - 1
    <3>1. i0 \in Int /\ j0 \in Int /\ i0 >= 1 /\ j0 <= Len(line)
      BY <2>1
    <3> HIDE DEF i0, j0
    <3>2. /\ SubSeq(line, i0, j0) \in Seq(Characters)
          /\ Len(SubSeq(line, i0, j0)) = IF i0 <= j0 THEN j0 - i0 + 1 ELSE 0
          /\ \A k \in 1..(j0 - i0 + 1) : SubSeq(line, i0, j0)[k] = line[i0 + k - 1]
      BY <3>1, PartOfText
    <3> QED
      BY <3>2 DEF i0, j0
  <2>3. s - 1 - (e + 1) + 1 = g /\ (~(e + 1 <= s - 1) => g = 0)
        /\ \A k \in 1..g : e + 1 + k - 1 = e + k
    BY <1>1
  <2> HIDE DEF g, gap
  <2> QED
    BY <1>2, <2>1, <2>2, <2>3
<1>7. \A k \in 1..(z - s + 1) : SubSeq(line, s, z)[k] = line[s + k - 1]
  BY <1>1, PartOfText
<1>8. SubSeq(line, s, z) \in Seq(Characters) /\ Len(SubSeq(line, s, z)) = z - s + 1
  <2>1. s >= 1 /\ s \in Int /\ z \in Int
    BY <1>1
  <2> QED
    BY <1>1, <2>1, PartOfText
<1>9. rest \in X /\ gap \in X
  <2>1. Seq(Characters) \subseteq X /\ <<Placeholder>> \in X
    BY DEF Symbols, X
  <2> HIDE DEF gap
  <2> QED
    BY <1>3, <1>6, <1>8, <2>1
<1> DEFINE r == Len(rest)
           whole == F[i]
<1>10. /\ r \in Nat /\ base \in Nat /\ Len(whole) = base + g + r
       /\ \A k \in 1..g : whole[base + k] = gap[k]
       /\ \A k \in 1..r : whole[base + g + k] = rest[k]
  <2> DEFINE a == F[i - 1]
             both == gap \o rest
  <2>1. a \in Seq(Symbols) /\ gap \in Seq(Symbols) /\ rest \in Seq(Symbols) /\ Len(gap) = g
    BY <1>4, <1>6, <1>9 DEF X
  <2> HIDE DEF gap, rest, a, g
  <2>2. /\ both \in Seq(Symbols) /\ Len(both) = g + r /\ g \in Nat /\ r \in Nat
        /\ \A k \in 1..g : both[k] = gap[k]
        /\ \A k \in 1..r : both[g + k] = rest[k]
    <3>1. both \in Seq(Symbols) /\ Joined(both, gap, rest)
      BY <2>1, JoinedAt
    <3> HIDE DEF both
    <3> QED
      BY <2>1, <3>1 DEF Joined
  <2>3. whole = a \o both
    BY <1>4 DEF a
  <2> HIDE DEF both, whole, r
  <2>4. /\ Len(a) \in Nat /\ Len(whole) = Len(a) + (g + r)
        /\ \A k \in 1..(g + r) : whole[Len(a) + k] = both[k]
    <3>1. Joined(whole, a, both)
      BY <2>1, <2>2, <2>3, JoinedAt
    <3> QED
      BY <2>2, <3>1 DEF Joined
  <2> DEFINE b == Len(a)
  <2>5. b \in Nat /\ Len(whole) = b + g + r
    BY <2>2, <2>4
  <2>6. \A k \in 1..g : whole[b + k] = gap[k]
    <3>1. \A k \in 1..g : k \in 1..(g + r)
      BY <2>2
    <3> QED
      BY <2>2, <2>4, <3>1
  <2>7. \A k \in 1..r : whole[b + g + k] = rest[k]
    <3>1. \A k \in 1..r : g + k \in 1..(g + r) /\ b + (g + k) = b + g + k
      BY <2>2, <2>5
    <3>2. \A k \in 1..r : whole[b + (g + k)] = both[g + k]
      BY <2>4, <3>1
    <3> QED
      BY <2>2, <3>1, <3>2
  <2> QED
    BY <2>2, <2>5, <2>6, <2>7 DEF a
<1>11. \A k \in 1..g : pattern[base + k] = line[e + k]
  <2> HIDE DEF gap, rest, whole, r, base, g
  <2>1. \A k \in 1..g : base + k \in 1..Len(whole)
    BY <1>6, <1>10
  <2> QED
    BY <1>5, <1>6, <1>10, <2>1 DEF whole
<1>12. \A k \in 1..r : pattern[base + g + k] = rest[k]
  <2> HIDE DEF gap, rest, whole, r, base, g
  <2>1. \A k \in 1..r : base + g + k \in 1..Len(whole)
    BY <1>6, <1>10
  <2> QED
    BY <1>5, <1>10, <2>1 DEF whole
<1>13. ASSUME i \in dynamic
       PROVE  Len(F[i]) = base + g + 1 /\ pattern[Len(F[i])] = Placeholder
  <2>1. rest = <<Placeholder>>
    BY <1>13
  <2>2. r = 1 /\ rest[1] = Placeholder
    BY <2>1
  <2>3. Len(F[i]) = base + g + 1
    <3> HIDE DEF rest, gap, g, base
    <3> QED
      BY <1>10, <2>2
  <2>4. pattern[base + g + 1] = rest[1]
    <3>1. 1 \in 1..r
      BY <2>2
    <3> HIDE DEF rest, gap, g, base, r
    <3> QED
      BY <1>12, <3>1
  <2> HIDE DEF rest, gap, g, base, r
  <2> QED
    BY <2>2, <2>3, <2>4
<1>14. ASSUME i \notin dynamic
       PROVE  /\ Len(F[i]) = base + (z - e)
              /\ \A k \in 1..(z - e) : pattern[base + k] = line[e + k]
  <2>1. rest = SubSeq(line, s, z)
    BY <1>3, <1>14
  <2> HIDE DEF rest, gap, base
  <2>2. r = z - s + 1 /\ g + r = z - e
    BY <1>1, <1>8, <2>1
  <2>3. Len(F[i]) = base + (z - e)
    <3> HIDE DEF g, r
    <3> QED
      BY <1>6, <1>10, <2>2
  <2>4. ASSUME NEW k \in 1..(z - e) PROVE pattern[base + k] = line[e + k]
    <3>1. CASE k <= g
      <4>1. k \in 1..g
        BY <1>1, <3>1
      <4> QED
        BY <1>11, <4>1
    <3>2. CASE ~(k <= g)
      <4> DEFINE j == k - g
      <4>1. j \in 1..(z - s + 1) /\ base + g + j = base + k /\ s + j - 1 = e + k
        BY <1>1, <1>10, <3>2
      <4>2. pattern[base + g + j] = rest[j]
        <5>1. j \in 1..r
          BY <2>2, <4>1
        <5> HIDE DEF g, r, j
        <5> QED
          BY <1>12, <5>1
      <4>3. rest[j] = line[s + j - 1]
        BY <1>7, <2>1, <4>1
      <4> QED
        BY <4>1, <4>2, <4>3
    <3> QED
      BY <3>1, <3>2
  <2> QED
    BY <2>3, <2>4
<1> QED
  BY <1>11, <1>13, <1>14 DEF sp, s, z, e

(* A word has word characters only, and what follows it is none.           *)
LEMMA WordFollowed ==
  ASSUME NEW line \in Seq(Characters), NEW i \in 1..Len(Lex(line)),
         Kind[line[Lex(line)[i].start]] = "word"
  PROVE  /\ \A j \in Lex(line)[i].start..Lex(line)[i].end : Kind[line[j]] = "word"
         /\ Lex(line)[i].end < Len(line) => Kind[line[Lex(line)[i].end + 1]] # "word"
<1> DEFINE sp == Lex(line)
           s == sp[i].start
           z == sp[i].end
           T == {d \in Nat : s + d <= z => Kind[line[s + d]] = "word"}
<1>1. /\ \A j \in (s + 1)..z : Inked(line, j) /\ j \notin LexStarts(line)
      /\ z < Len(line) => ~Inked(line, z + 1) \/ z + 1 \in LexStarts(line)
  BY LexSpans DEF SpansAt
<1>2. s \in Nat \ {0} /\ z \in Nat /\ s <= z /\ z <= Len(line) /\ Len(line) \in Nat
  <2>1. s \in 1..Len(line) /\ z \in s..Len(line)
    BY LexParts
  <2> QED
    BY <2>1
<1>3. Kind[line[s]] = "word"
  OBVIOUS
<1> HIDE DEF sp, s, z
<1>4. \A j \in 1..Len(line) :
        j \in LexStarts(line) <=>
          /\ Kind[line[j]] # "blank"
          /\ j > 1 /\ Kind[line[j]] # "punct" => Kind[line[j]] # Kind[line[j - 1]]
  BY DEF LexStarts, Inked
<1>5. 0 \in T
  BY <1>2, <1>3
<1>6. ASSUME NEW d \in Nat, d \in T PROVE d + 1 \in T
  <2>1. SUFFICES ASSUME s + (d + 1) <= z PROVE Kind[line[s + (d + 1)]] = "word"
    OBVIOUS
  <2> DEFINE j == s + (d + 1)
  <2>2. j \in (s + 1)..z /\ j \in 1..Len(line) /\ j - 1 = s + d /\ s + d <= z
    BY <1>2, <2>1
  <2>3. Kind[line[j - 1]] = "word"
    BY <1>6, <2>2
  <2> HIDE DEF j
  <2>4. Kind[line[j]] # "blank" /\ j \notin LexStarts(line)
    BY <1>1, <2>2 DEF Inked
  <2>5. Kind[line[j]] = Kind[line[j - 1]]
    BY <1>4, <2>2, <2>4
  <2> QED
    BY <2>3, <2>5 DEF j
<1>7. Nat \subseteq T
  <2> HIDE DEF T
  <2> QED
    BY <1>5, <1>6, StepByStep
<1>8. ASSUME NEW j \in s..z PROVE Kind[line[j]] = "word"
  <2>1. j - s \in Nat /\ s + (j - s) = j /\ j <= z
    BY <1>2
  <2>2. j - s \in T
    BY <1>7, <2>1
  <2> QED
    BY <2>1, <2>2
<1>9. ASSUME z < Len(line) PROVE Kind[line[z + 1]] # "word"
  <2>1. z + 1 \in 1..Len(line) /\ z + 1 > 1 /\ (z + 1) - 1 = z /\ z \in s..z
    BY <1>2, <1>9
  <2>2. Kind[line[z]] = "word"
    BY <1>8, <2>1
  <2>3. CASE ~Inked(line, z + 1)
    BY <2>3 DEF Inked
  <2>4. CASE z + 1 \in LexStarts(line)
    <3>1. Kind[line[z + 1]] # "punct" => Kind[line[z + 1]] # Kind[line[(z + 1) - 1]]
      BY <1>4, <2>1, <2>4
    <3> QED
      BY <2>1, <2>2, <3>1
  <2> QED
    BY <1>1, <1>9, <2>3, <2>4
<1> QED
  BY <1>8, <1>9 DEF sp, s, z

(* A line that is trimmed and has no commas.                               *)
LEMMA TrimmedEnds ==
  ASSUME NEW line \in Seq(Characters), line = Trim(StripCommas(line))
  PROVE  /\ line \in Seq(Characters \ {Comma})
         /\ Len(line) # 0 => Inked(line, Len(line))
<1> DEFINE text == StripCommas(line)
           C == Characters \ {Comma}
           ink == {i \in DOMAIN text : Inked(text, i)}
<1>1. text \in Seq(C)
  <2> DEFINE S == {i \in DOMAIN line : line[i] # Comma}
             n == Cardinality(S)
             t == Selected(line, S)
  <2>1. S \in SUBSET (DOMAIN line)
    OBVIOUS
  <2>2. PICK at : /\ Lists(at, n, S) /\ t \in Seq(Characters) /\ Len(t) = n
                  /\ \A i \in 1..n : t[i] = line[at[i]]
    <3> HIDE DEF S
    <3> QED
      BY <2>1, SelectedElements
  <2>3. n \in Nat /\ at \in [1..n -> S]
    BY <2>2 DEF Lists
  <2>4. \A i \in 1..n : line[at[i]] \in C
    BY <2>3
  <2> HIDE DEF t, n, C
  <2>5. t \in Seq(C)
    BY <2>2, <2>3, <2>4
  <2> QED
    BY <2>5 DEF StripCommas, t
<1> HIDE DEF text, C
<1>2. ink \in SUBSET (1..Len(text)) /\ Len(text) \in Nat
  BY <1>1
<1>3. CASE ink = {}
  <2>1. line = <<>>
    BY <1>3 DEF Trim, text
  <2> QED
    BY <2>1
<1>4. CASE ink # {}
  <2>1. IsFiniteSet(ink) /\ ink \subseteq Int
    <3> HIDE DEF ink
    <3>1. IsFiniteSet(1..Len(text)) /\ 1..Len(text) \subseteq Int
      BY <1>2, FS_Interval
    <3> QED
      BY <1>2, <3>1, FS_Subset
  <2> DEFINE a == Min(ink)
             b == Max(ink)
  <2>2. a \in ink /\ b \in ink /\ \A x \in ink : x <= b
    <3> HIDE DEF ink
    <3> QED
      BY <1>4, <2>1, FiniteSetsAreBounded
  <2>3. line = SubSeq(text, a, b)
    <3>1. Trim(text) = SubSeq(text, a, b)
      BY <1>4 DEF Trim
    <3> QED
      BY <3>1 DEF text
  <2>4. Inked(text, b)
    BY <2>2
  <2> HIDE DEF a, b, ink
  <2>5. /\ a \in Int /\ b \in Int /\ a >= 1 /\ b <= Len(text) /\ a <= b
    BY <1>2, <2>2
  <2>6. /\ line \in Seq(C) /\ Len(line) = b - a + 1
        /\ \A k \in 1..(b - a + 1) : line[k] = text[a + k - 1]
    BY <1>1, <2>3, <2>5, PartOfText
  <2>7. b - a + 1 \in 1..(b - a + 1) /\ a + (b - a + 1) - 1 = b
    BY <2>5
  <2>8. line[b - a + 1] = text[b]
    BY <2>6, <2>7
  <2> QED
    BY <2>4, <2>6, <2>8 DEF Inked, C
<1> QED
  BY <1>3, <1>4

(* The last token of such a line ends where the line does.                 *)
LEMMA LastEnds ==
  ASSUME NEW line \in Seq(Characters), Len(line) # 0 => Inked(line, Len(line))
  PROVE  EndOf(Lex(line), Len(Lex(line))) = Len(line)
<1> DEFINE sp == Lex(line)
           n == Len(sp)
           L == Len(line)
           S == LexStarts(line)
           e == EndOf(sp, n)
<1>1. PICK at : SpansAt(line, S, at, sp)
  BY LexSpans
<1>2. /\ n = Cardinality(S) /\ n \in Nat
      /\ at \in [1..n -> S] /\ \A i \in S : \E p \in 1..n : at[p] = i
      /\ \A p, q \in 1..n : p < q => at[p] < at[q]
  BY <1>1 DEF SpansAt, Lists
<1>3. L \in Nat
  OBVIOUS
<1>4. /\ e \in Nat /\ e <= L
      /\ e < L => ~Inked(line, e + 1) \/ e + 1 \in S
      /\ \A i \in S : i <= e
  <2>1. CASE n = 0
    <3>1. e = 0 /\ S = {}
      BY <1>2, <2>1 DEF EndOf
    <3>2. 0 < L => ~Inked(line, 1)
      <4>1. SUFFICES ASSUME 0 < L, Inked(line, 1) PROVE FALSE
        OBVIOUS
      <4>2. 1 \in S
        BY <1>3, <4>1 DEF LexStarts
      <4> QED
        BY <3>1, <4>2
    <3> HIDE DEF e, L
    <3> QED
      BY <1>3, <3>1, <3>2
  <2>2. CASE n # 0
    <3>1. n \in 1..n /\ e = sp[n].end
      <4>1. n \in 1..n
        BY <1>2, <2>2
      <4> QED
        BY <2>2, <4>1 DEF EndOf
    <3>2. /\ sp[n].start = at[n] /\ sp[n].start <= sp[n].end
          /\ e < L => ~Inked(line, e + 1) \/ e + 1 \in S
      BY <1>1, <3>1 DEF SpansAt
    <3>3. e \in Nat /\ e <= L /\ at[n] <= e /\ at[n] \in Nat
      <4>1. sp[n].start \in 1..L /\ sp[n].end \in sp[n].start..L
        BY <3>1, LexParts
      <4> QED
        BY <1>3, <3>1, <3>2, <4>1
    <3>4. \A i \in S : i <= e
      <4>1. ASSUME NEW i \in S PROVE i <= e
        <5>1. PICK p \in 1..n : at[p] = i
          BY <1>2
        <5>2. at[p] = at[n] \/ at[p] < at[n]
          BY <1>2, <3>1, <5>1
        <5>3. i \in Nat
          BY DEF LexStarts
        <5> HIDE DEF e
        <5> QED
          BY <3>3, <5>1, <5>2, <5>3
      <4> QED
        BY <4>1
    <3> HIDE DEF e
    <3> QED
      BY <3>2, <3>3, <3>4
  <2> QED
    BY <2>1, <2>2
<1> HIDE DEF e, sp, n
<1>5. ASSUME e < L PROVE FALSE
  <2>1. e + 1 \in 1..L /\ e + 1 \notin S
    BY <1>3, <1>4, <1>5
  <2>2. ~Inked(line, e + 1)
    BY <1>4, <1>5, <2>1
  <2> DEFINE T == {j \in Nat : j \in (e + 1)..L /\ Inked(line, j)}
  <2>3. L \in T
    <3>1. L # 0 /\ L \in (e + 1)..L
      BY <1>3, <1>4, <1>5
    <3> QED
      BY <1>3, <3>1
  <2>4. PICK j \in T : \A k \in T : j <= k
    <3> HIDE DEF T
    <3>1. T \subseteq Nat /\ T # {}
      BY <2>3 DEF T
    <3> QED
      BY <3>1, LeastNatural
  <2>5. j \in Nat /\ j \in (e + 1)..L /\ Inked(line, j)
    BY <2>4
  <2>6. j # e + 1
    BY <2>2, <2>5
  <2>7. j - 1 \in (e + 1)..L /\ j - 1 \in Nat /\ j - 1 < j /\ j \in 1..L
    BY <1>3, <1>4, <2>5, <2>6
  <2>8. ~Inked(line, j - 1)
    <3>1. ASSUME Inked(line, j - 1) PROVE FALSE
      <4>1. j - 1 \in T
        BY <2>7, <3>1
      <4>2. j <= j - 1
        <5> HIDE DEF T
        <5> QED
          BY <2>4, <4>1
      <4> QED
        BY <2>7, <2>5, <4>2
    <3> QED
      BY <3>1
  <2> HIDE DEF T
  <2>9. j \in S
    BY <2>5, <2>7, <2>8 DEF LexStarts, Inked
  <2>10. j <= e
    BY <1>4, <2>9
  <2> QED
    BY <1>3, <1>4, <2>5, <2>10
<1>6. e = L
  BY <1>3, <1>4, <1>5
<1> QED
  BY <1>6 DEF e, n, sp

(* How many of the tokens up to token i vary.                              *)
Varied(dynamic, i) == Cardinality({j \in dynamic : j < i + 1})

(* Varied, from one token to the next.                                     *)
LEMMA VariedCounts ==
  ASSUME NEW n \in Nat, NEW dynamic \in SUBSET (1..n)
  PROVE  /\ Cardinality(dynamic) \in Nat /\ Varied(dynamic, 0) = 0
         /\ Varied(dynamic, n) = Cardinality(dynamic)
         /\ \A i \in 1..n :
              /\ i \notin dynamic => Varied(dynamic, i) = Varied(dynamic, i - 1)
              /\ i \in dynamic =>
                   /\ Varied(dynamic, i) \in 1..Cardinality(dynamic)
                   /\ Varied(dynamic, i - 1) = Varied(dynamic, i) - 1
                   /\ Ascending(dynamic)[Varied(dynamic, i)] = i
<1> DEFINE K == Cardinality(dynamic)
           d == Ascending(dynamic)
           upto(i) == {j \in dynamic : j < i + 1}
<1>1. dynamic \subseteq Nat /\ IsFiniteSet(dynamic)
  <2>1. IsFiniteSet(1..n) /\ 1..n \subseteq Nat
    BY FS_Interval
  <2> QED
    BY <2>1, FS_Subset
<1>2. Lists(d, K, dynamic)
  BY <1>1, AscendingLists
<1>3. /\ K \in Nat /\ d \in [1..K -> dynamic]
      /\ \A i \in dynamic : \E p \in 1..K : d[p] = i
      /\ \A p \in 1..K : Cardinality({j \in dynamic : j < d[p]}) = p - 1
  BY <1>2 DEF Lists
<1> HIDE DEF d, K
<1>4. \A j \in dynamic : j \in Nat /\ 1 <= j /\ j <= n
  OBVIOUS
<1>5. upto(0) = {} /\ upto(n) = dynamic
  <2>1. \A j \in dynamic : j < n + 1 /\ ~(j < 0 + 1)
    BY <1>4
  <2> QED
    BY <2>1
<1>6. Varied(dynamic, 0) = 0 /\ Varied(dynamic, n) = K
  BY <1>5, FS_EmptySet DEF Varied, K
<1>7. ASSUME NEW i \in 1..n, i \notin dynamic PROVE Varied(dynamic, i) = Varied(dynamic, i - 1)
  <2>1. upto(i) = upto(i - 1)
    <3>1. \A j \in dynamic : j # i /\ (j < i + 1 <=> j < (i - 1) + 1)
      BY <1>4, <1>7
    <3> QED
      BY <3>1
  <2> QED
    BY <2>1 DEF Varied
<1>8. ASSUME NEW i \in 1..n, i \in dynamic
      PROVE  /\ Varied(dynamic, i) \in 1..K /\ Varied(dynamic, i - 1) = Varied(dynamic, i) - 1
             /\ d[Varied(dynamic, i)] = i
  <2>1. PICK p \in 1..K : d[p] = i
    BY <1>3, <1>8
  <2>2. Cardinality({j \in dynamic : j < i}) = p - 1
    BY <1>3, <2>1
  <2>3. upto(i - 1) = {j \in dynamic : j < i}
    <3>1. (i - 1) + 1 = i
      OBVIOUS
    <3> QED
      BY <3>1
  <2>4. upto(i) = upto(i - 1) \cup {i} /\ i \notin upto(i - 1)
    <3>1. \A j \in dynamic : j < i + 1 <=> j < (i - 1) + 1 \/ j = i
      BY <1>4
    <3>2. i < i + 1 /\ ~(i < (i - 1) + 1)
      OBVIOUS
    <3> QED
      BY <1>8, <3>1, <3>2
  <2>5. IsFiniteSet(upto(i - 1))
    <3>1. upto(i - 1) \in SUBSET dynamic
      OBVIOUS
    <3> HIDE DEF upto
    <3> QED
      BY <1>1, <3>1, FS_Subset
  <2>6. Varied(dynamic, i) = Cardinality(upto(i)) /\ Varied(dynamic, i - 1) = Cardinality(upto(i - 1))
    BY DEF Varied
  <2>7. Cardinality(upto(i - 1)) = p - 1
    BY <2>2, <2>3
  <2> HIDE DEF upto
  <2>8. Cardinality(upto(i)) = Cardinality(upto(i - 1)) + 1
    BY <2>4, <2>5, FS_AddElement
  <2> QED
    BY <1>3, <2>1, <2>6, <2>7, <2>8
<1> QED
  BY <1>3, <1>6, <1>7, <1>8 DEF K, d

(* The words that vary, but for the first c.                               *)
WordsAfter(line, dynamic, c) ==
  [k \in 1..(Cardinality(dynamic) - c) |-> Text(line, Lex(line)[Ascending(dynamic)[c + k]])]

(* The words that vary, from one to the next.                              *)
LEMMA NextWord ==
  ASSUME NEW line \in Seq(Characters), NEW dynamic \in SUBSET (1..Len(Lex(line))),
         NEW c \in 1..Cardinality(dynamic)
  PROVE  WordsAfter(line, dynamic, c - 1) =
           << Text(line, Lex(line)[Ascending(dynamic)[c]]) >> \o WordsAfter(line, dynamic, c)
<1> DEFINE K == Cardinality(dynamic)
           d == Ascending(dynamic)
           X == Seq(Characters)
           word(k) == Text(line, Lex(line)[d[k]])
           s == WordsAfter(line, dynamic, c - 1)
           t == WordsAfter(line, dynamic, c)
           x == << word(c) >>
           u == x \o t
<1>1. K \in Nat /\ d \in [1..K -> dynamic]
  <2>1. dynamic \subseteq Nat /\ IsFiniteSet(dynamic)
    <3>1. /\ IsFiniteSet(1..Len(Lex(line))) /\ 1..Len(Lex(line)) \subseteq Nat
      BY LexParts, FS_Interval
    <3> QED
      BY <3>1, FS_Subset
  <2> QED
    BY <2>1, AscendingLists DEF Lists
<1>2. \A k \in 1..K : word(k) \in X
  <2>1. \A k \in 1..K : d[k] \in 1..Len(Lex(line))
    BY <1>1
  <2> HIDE DEF d
  <2> QED
    BY <2>1, LexParts
<1>3. s = [k \in 1..(K - (c - 1)) |-> word((c - 1) + k)] /\ t = [k \in 1..(K - c) |-> word(c + k)]
  BY DEF WordsAfter
<1>4. c \in 1..K
  OBVIOUS
<1> HIDE DEF K, d, word, s, t, X
<1>5. s \in Seq(X) /\ Len(s) = K - c + 1 /\ \A k \in 1..(K - c + 1) : s[k] = word((c - 1) + k)
  <2>1. K - (c - 1) = K - c + 1 /\ K - c + 1 \in Nat
    BY <1>1, <1>4
  <2>2. \A k \in 1..(K - c + 1) : (c - 1) + k \in 1..K
    BY <1>1, <1>4
  <2>3. s = [k \in 1..(K - c + 1) |-> word((c - 1) + k)]
    BY <1>3, <2>1
  <2> QED
    BY <1>2, <2>1, <2>2, <2>3
<1>6. t \in Seq(X) /\ Len(t) = K - c /\ \A k \in 1..(K - c) : t[k] = word(c + k)
  <2>1. K - c \in Nat
    BY <1>1, <1>4
  <2>2. \A k \in 1..(K - c) : c + k \in 1..K
    BY <1>1, <1>4
  <2> QED
    BY <1>2, <1>3, <2>1, <2>2
<1>7. x \in Seq(X) /\ Len(x) = 1 /\ x[1] = word(c)
  BY <1>2, <1>4
<1> HIDE DEF x
<1>8. u \in Seq(X) /\ Joined(u, x, t)
  BY <1>6, <1>7, JoinedAt
<1> HIDE DEF u
<1>9. Len(u) = Len(s)
  BY <1>1, <1>4, <1>5, <1>6, <1>7, <1>8 DEF Joined
<1>10. ASSUME NEW k \in 1..Len(s) PROVE s[k] = u[k]
  <2>1. k \in 1..(K - c + 1) /\ s[k] = word((c - 1) + k)
    BY <1>5
  <2>2. CASE k = 1
    <3>1. u[1] = word(c) /\ (c - 1) + 1 = c
      BY <1>4, <1>7, <1>8 DEF Joined
    <3> QED
      BY <2>1, <2>2, <3>1
  <2>3. CASE k # 1
    <3>1. k - 1 \in 1..(K - c) /\ 1 + (k - 1) = k /\ c + (k - 1) = (c - 1) + k
      BY <1>1, <1>4, <2>1, <2>3
    <3>2. u[1 + (k - 1)] = t[k - 1]
      BY <1>6, <1>7, <1>8, <3>1 DEF Joined
    <3>3. t[k - 1] = word(c + (k - 1))
      BY <1>6, <3>1
    <3> QED
      BY <2>1, <3>1, <3>2, <3>3
  <2> QED
    BY <2>2, <2>3
<1>11. s = u
  BY <1>5, <1>8, <1>9, <1>10, SeqEqual
<1> QED
  BY <1>11 DEF s, u, x, t, word, d

(* Words that vary, one at a time.                                         *)
OneAtATime(line, dynamic) ==
  /\ dynamic \in SUBSET (1..Len(Lex(line)))
  /\ \A i \in dynamic : i + 1 \notin dynamic /\ Kind[line[Lex(line)[i].start]] = "word"

(* The regex is past token i when it is past what the template has of it.  *)
At(match, F, line, i) == match[<<Len(F[i]) + 1, EndOf(Lex(line), i) + 1>>]

(* Through a token that stands in the template as it is.                   *)
LEMMA StaticToken ==
  ASSUME NEW line \in Seq(Characters), NEW pattern \in Seq(Symbols), NEW dynamic, NEW F,
         BuiltUp(F, pattern, line, Lex(line), dynamic),
         NEW match, Matches(match, pattern, line),
         NEW i \in 1..Len(Lex(line)), i \notin dynamic
  PROVE  At(match, F, line, i - 1) = At(match, F, line, i)
<1> DEFINE sp == Lex(line)
           z == sp[i].end
           e == EndOf(sp, i - 1)
           base == Len(F[i - 1])
           c == z - e
<1>1. /\ e \in Nat /\ z \in Nat /\ c \in Nat /\ z <= Len(line) /\ EndOf(sp, i) = z
      /\ Len(line) \in Nat /\ e + c = z
  <2>1. /\ e \in Nat /\ e < sp[i].start /\ sp[i].start \in Nat /\ z \in Nat /\ sp[i].start <= z
        /\ z <= Len(line) /\ EndOf(sp, i) = z
    BY TokenPlaces
  <2> HIDE DEF sp, z, e
  <2> QED
    BY <2>1
<1>2. /\ base \in Nat /\ Len(F[i]) \in Nat /\ Len(F[i]) <= Len(pattern)
  <2>1. i \in 0..Len(sp) /\ i - 1 \in 0..Len(sp)
    BY LexParts
  <2> QED
    BY <2>1, PrefixesHold
<1>3. Len(F[i]) = base + c /\ \A k \in 1..c : pattern[base + k] = line[e + k]
  BY PiecesHold
<1>4. Len(pattern) \in Nat
  OBVIOUS
<1>5. At(match, F, line, i - 1) = match[<<base + 1, e + 1>>]
  BY DEF At
<1>6. At(match, F, line, i) = match[<<Len(F[i]) + 1, z + 1>>]
  BY <1>1 DEF At
<1> HIDE DEF sp, z, e, base, c
<1>7. Along(pattern, line, base + 1, e + 1, c)
  <2>1. base + 1 + c <= Len(pattern) + 1 /\ e + 1 + c <= Len(line) + 1
    BY <1>1, <1>2, <1>3, <1>4
  <2>2. \A k \in 0..(c - 1) : pattern[base + 1 + k] = line[e + 1 + k]
    <3>1. ASSUME NEW k \in 0..(c - 1) PROVE pattern[base + 1 + k] = line[e + 1 + k]
      <4>1. k + 1 \in 1..c /\ base + (k + 1) = base + 1 + k /\ e + (k + 1) = e + 1 + k
        BY <1>1, <1>2
      <4>2. pattern[base + (k + 1)] = line[e + (k + 1)]
        BY <1>3, <4>1
      <4> QED
        BY <4>1, <4>2
    <3> QED
      BY <3>1
  <2> QED
    BY <2>1, <2>2 DEF Along
<1>8. match[<<base + 1, e + 1>>] = match[<<base + 1 + c, e + 1 + c>>]
  <2> DEFINE j == base + 1
             p == e + 1
  <2>1. j \in Nat \ {0} /\ p \in Nat \ {0} /\ c \in Nat
    BY <1>1, <1>2
  <2>2. Along(pattern, line, j, p, c)
    BY <1>7
  <2> HIDE DEF j, p
  <2>3. match[<<j, p>>] = match[<<j + c, p + c>>]
    BY <2>1, <2>2, Walk
  <2> QED
    BY <2>3 DEF j, p
<1>9. base + 1 + c = Len(F[i]) + 1
  BY <1>1, <1>2, <1>3
<1>10. e + 1 + c = z + 1
  BY <1>1
<1> QED
  BY <1>5, <1>6, <1>8, <1>9, <1>10

(* What follows a placeholder matches nowhere in its word.                 *)
LEMMA NotInTheWord ==
  ASSUME NEW line \in Seq(Characters), NEW pattern \in Seq(Symbols), NEW dynamic, NEW F,
         BuiltUp(F, pattern, line, Lex(line), dynamic), OneAtATime(line, dynamic),
         NEW match, Matches(match, pattern, line),
         NEW i \in 1..Len(Lex(line)), i \in dynamic,
         NEW q \in Lex(line)[i].start..Lex(line)[i].end
  PROVE  match[<<Len(F[i]) + 1, q>>] = {}
<1> DEFINE sp == Lex(line)
           z == sp[i].end
           j == Len(F[i]) + 1
<1>1. /\ sp[i].start \in 1..Len(line) /\ z \in sp[i].start..Len(line) /\ Len(line) \in Nat
      /\ Len(sp) \in Nat
  BY LexParts
<1>2. Len(F[i]) \in Nat /\ Len(F[i]) <= Len(pattern) /\ Len(pattern) \in Nat
  <2>1. i \in 0..Len(sp)
    BY LexParts
  <2> QED
    BY <2>1, PrefixesHold
<1>3. q \in 1..Len(line) /\ j \in 1..(Len(pattern) + 1) /\ z \in Nat
  <2>1. q \in sp[i].start..z
    OBVIOUS
  <2> HIDE DEF sp, z
  <2>2. q \in 1..Len(line) /\ z \in Nat
    BY <1>1, <2>1
  <2> QED
    BY <1>2, <2>2
<1>4. Kind[line[sp[i].start]] = "word"
  BY DEF OneAtATime
<1>5. Kind[line[q]] = "word" /\ (z < Len(line) => Kind[line[z + 1]] # "word")
  BY <1>4, WordFollowed
<1>6. match[<<j, q>>] = CaptureStep(match, pattern, line, j, q)
  <2> DEFINE at == <<j, q>>
  <2> HIDE DEF j
  <2>1. at \in PlacePairs(pattern, line) /\ at[1] = j /\ at[2] = q
    <3>1. q \in 1..(Len(line) + 1)
      BY <1>1, <1>3
    <3> QED
      BY <1>3, <3>1 DEF PlacePairs
  <2> HIDE DEF at
  <2>2. match[at] = CaptureStep(match, pattern, line, at[1], at[2])
    BY <2>1 DEF Matches
  <2> QED
    BY <2>1, <2>2 DEF at
<1>7. CASE j > Len(pattern)
  <2>1. ~(q > Len(line))
    BY <1>1, <1>3
  <2>2. CaptureStep(match, pattern, line, j, q) = {}
    <3> HIDE DEF j
    <3> QED
      BY <1>7, <2>1 DEF CaptureStep
  <2> QED
    BY <1>6, <2>2
<1>8. CASE ~(j > Len(pattern))
  <2>1. i # Len(sp)
    <3>1. F[Len(sp)] = pattern
      BY DEF BuiltUp
    <3> QED
      BY <1>2, <1>8, <3>1
  <2>2. i + 1 \in 1..Len(sp) /\ (i + 1) - 1 = i
    BY <1>1, <2>1
  <2>3. i + 1 \notin dynamic
    BY DEF OneAtATime
  <2> DEFINE y == sp[i + 1].end
             e == EndOf(sp, (i + 1) - 1)
  <2>4. \A k \in 1..(y - e) : pattern[Len(F[(i + 1) - 1]) + k] = line[e + k]
    BY <2>2, <2>3, PiecesHold
  <2>5. /\ e = z /\ y \in Nat /\ y <= Len(line) /\ z < y
    <3>1. EndOf(sp, i) = z
      BY TokenPlaces
    <3>2. /\ EndOf(sp, (i + 1) - 1) < sp[i + 1].start /\ sp[i + 1].start \in Nat
          /\ y \in Nat /\ sp[i + 1].start <= y /\ y <= Len(line)
      BY <2>2, TokenPlaces
    <3>3. EndOf(sp, (i + 1) - 1) = z
      BY <2>2, <3>1
    <3> HIDE DEF sp, z, y
    <3> QED
      BY <1>3, <3>2, <3>3
  <2>6. pattern[j] = line[z + 1] /\ z < Len(line)
    <3>1. 1 \in 1..(y - e) /\ z < Len(line)
      <4> HIDE DEF y, e, z
      <4> QED
        BY <1>1, <1>3, <2>5
    <3>2. pattern[Len(F[(i + 1) - 1]) + 1] = line[e + 1]
      <4> HIDE DEF y, e
      <4> QED
        BY <2>4, <3>1
    <3> HIDE DEF e, z, y
    <3> QED
      BY <2>2, <2>5, <3>1, <3>2
  <2>7. z + 1 \in 1..Len(line)
    <3> HIDE DEF z
    <3> QED
      BY <1>1, <1>3, <2>6
  <2> HIDE DEF z, j, sp
  <2>8. pattern[j] # Placeholder
    <3>1. line[z + 1] \in Characters
      BY <2>7
    <3> QED
      BY <2>6, <3>1, CharacterAssumption DEF Characters
  <2>9. line[q] # pattern[j]
    BY <1>5, <2>6
  <2>10. CaptureStep(match, pattern, line, j, q) = {}
    BY <1>8, <2>8, <2>9 DEF CaptureStep
  <2> QED
    BY <1>6, <2>10 DEF j
<1> QED
  BY <1>7, <1>8

(* After token i the rest of the template captures v, and only that.       *)
CapturesFrom(match, F, line, i, v) == At(match, F, line, i) = {v}

(* Through a placeholder: it captures the whole word.                      *)
LEMMA DynamicToken ==
  ASSUME NEW line \in Seq(Characters), NEW pattern \in Seq(Symbols), NEW dynamic, NEW F,
         BuiltUp(F, pattern, line, Lex(line), dynamic), OneAtATime(line, dynamic),
         NEW match, Matches(match, pattern, line),
         NEW i \in 1..Len(Lex(line)), i \in dynamic, NEW v, CapturesFrom(match, F, line, i, v)
  PROVE  CapturesFrom(match, F, line, i - 1, << Text(line, Lex(line)[i]) >> \o v)
<1> DEFINE sp == Lex(line)
           s == sp[i].start
           z == sp[i].end
           e == EndOf(sp, i - 1)
           base == Len(F[i - 1])
           g == s - 1 - e
           j == Len(F[i])
           word == Text(line, sp[i])
           S == CaptureEnds(match, line, j, s)
<1>1. /\ e \in Nat /\ s \in Nat \ {0} /\ z \in Nat /\ g \in Nat /\ s <= z /\ z <= Len(line)
      /\ EndOf(sp, i) = z /\ Len(line) \in Nat
  <2>1. /\ e \in Nat /\ e < s /\ s \in Nat /\ z \in Nat /\ s <= z
        /\ z <= Len(line) /\ EndOf(sp, i) = z
    BY TokenPlaces
  <2> HIDE DEF sp, s, z, e
  <2> QED
    BY <2>1
<1>2. base \in Nat /\ j \in Nat /\ j <= Len(pattern) /\ Len(pattern) \in Nat
  <2>1. i \in 0..Len(sp) /\ i - 1 \in 0..Len(sp)
    BY LexParts
  <2> QED
    BY <2>1, PrefixesHold
<1>3. /\ j = base + g + 1 /\ pattern[j] = Placeholder
      /\ \A k \in 1..g : pattern[base + k] = line[e + k]
  BY PiecesHold
<1>4. At(match, F, line, i - 1) = match[<<base + 1, e + 1>>]
  BY DEF At
<1>5. match[<<j + 1, z + 1>>] = {v}
  BY <1>1 DEF At, CapturesFrom
<1>6. \A q \in s..z : match[<<j + 1, q>>] = {}
  BY NotInTheWord
<1>7. word = SubSeq(line, s, z)
  BY DEF Text
<1> HIDE DEF sp, s, z, e, base, j, word
<1>8. match[<<base + 1, e + 1>>] = match[<<j, s>>]
  <2> DEFINE a == base + 1
             p == e + 1
  <2>1. a \in Nat \ {0} /\ p \in Nat \ {0} /\ g \in Nat
    BY <1>1, <1>2
  <2>2. a + g = j /\ p + g = s
    BY <1>1, <1>2, <1>3
  <2>3. \A k \in 0..(g - 1) : pattern[a + k] = line[p + k]
    <3>1. ASSUME NEW k \in 0..(g - 1) PROVE pattern[a + k] = line[p + k]
      <4>1. k + 1 \in 1..g /\ base + (k + 1) = a + k /\ e + (k + 1) = p + k
        BY <1>1, <1>2
      <4>2. pattern[base + (k + 1)] = line[e + (k + 1)]
        <5> HIDE DEF g
        <5> QED
          BY <1>3, <4>1
      <4> QED
        BY <4>1, <4>2
    <3> QED
      BY <3>1
  <2> HIDE DEF a, p, g
  <2>4. Along(pattern, line, a, p, g)
    <3>1. a + g <= Len(pattern) + 1 /\ p + g <= Len(line) + 1
      BY <1>1, <1>2, <2>2
    <3> QED
      BY <2>3, <3>1 DEF Along
  <2>5. match[<<a, p>>] = match[<<a + g, p + g>>]
    BY <2>1, <2>4, Walk
  <2> QED
    BY <2>2, <2>5 DEF a, p
<1>9. j \in 1..Len(pattern) /\ s \in 1..(Len(line) + 1)
  BY <1>1, <1>2, <1>3
<1> HIDE DEF g
<1>10. match[<<j, s>>] = CaptureStep(match, pattern, line, j, s)
  <2> DEFINE at == <<j, s>>
  <2>1. at \in PlacePairs(pattern, line) /\ at[1] = j /\ at[2] = s
    <3>1. j \in 1..(Len(pattern) + 1)
      BY <1>2, <1>9
    <3> QED
      BY <1>9, <3>1 DEF PlacePairs
  <2> HIDE DEF at
  <2>2. match[at] = CaptureStep(match, pattern, line, at[1], at[2])
    BY <2>1 DEF Matches
  <2> QED
    BY <2>1, <2>2 DEF at
<1>11. z + 1 \in S
  <2>1. z + 1 \in s..(Len(line) + 1)
    BY <1>1
  <2> QED
    BY <1>5, <2>1 DEF CaptureEnds
<1>12. Min(S) = z + 1
  <2> DEFINE q == Min(S)
  <2>1. q \in S /\ q \in s..(Len(line) + 1) /\ q <= z + 1
    BY <1>9, <1>11, FirstEnd
  <2>2. match[<<j + 1, q>>] # {}
    BY <2>1 DEF CaptureEnds
  <2> HIDE DEF q
  <2>3. q \notin s..z
    BY <1>6, <2>2
  <2>4. q = z + 1
    BY <1>1, <2>1, <2>3
  <2> QED
    BY <2>4 DEF q
<1> HIDE DEF S
<1>13. CaptureStep(match, pattern, line, j, s) =
         {<< SubSeq(line, s, Min(S) - 1) >> \o c : c \in match[<<j + 1, Min(S)>>]}
  <2>1. S # {} /\ ~(j > Len(pattern))
    BY <1>2, <1>9, <1>11
  <2> QED
    BY <1>3, <2>1 DEF CaptureStep, S
<1>14. (z + 1) - 1 = z
  BY <1>1
<1>15. CaptureStep(match, pattern, line, j, s) = {<< word >> \o c : c \in {v}}
  BY <1>5, <1>7, <1>12, <1>13, <1>14
<1>16. {<< word >> \o c : c \in {v}} = {<< word >> \o v}
  OBVIOUS
<1> QED
  BY <1>4, <1>8, <1>10, <1>15, <1>16 DEF word, sp, CapturesFrom

(* The regex of such a template captures the words.                        *)
LEMMA WordsCaptured ==
  ASSUME NEW line \in Seq(Characters), NEW pattern \in Seq(Symbols), NEW dynamic, NEW F,
         BuiltUp(F, pattern, line, Lex(line), dynamic), OneAtATime(line, dynamic),
         EndOf(Lex(line), Len(Lex(line))) = Len(line),
         NEW match, Matches(match, pattern, line)
  PROVE  match[<<1, 1>>] = {WordsAfter(line, dynamic, 0)}
<1> DEFINE n == Len(Lex(line))
           v(i) == WordsAfter(line, dynamic, Varied(dynamic, i))
           B(i) == At(match, F, line, i) = {v(i)}
           T == {d \in Nat : d <= n => B(n - d)}
<1>1. n \in Nat /\ dynamic \in SUBSET (1..n)
  BY LexParts DEF OneAtATime
<1>2. /\ Cardinality(dynamic) \in Nat /\ Varied(dynamic, 0) = 0
      /\ Varied(dynamic, n) = Cardinality(dynamic)
      /\ \A i \in 1..n :
           /\ i \notin dynamic => Varied(dynamic, i) = Varied(dynamic, i - 1)
           /\ i \in dynamic =>
                /\ Varied(dynamic, i) \in 1..Cardinality(dynamic)
                /\ Varied(dynamic, i - 1) = Varied(dynamic, i) - 1
                /\ Ascending(dynamic)[Varied(dynamic, i)] = i
  <2> HIDE DEF n
  <2> QED
    BY <1>1, VariedCounts
<1>3. B(n)
  <2>1. At(match, F, line, n) = match[<<Len(pattern) + 1, Len(line) + 1>>]
    BY DEF At, BuiltUp
  <2>2. match[<<Len(pattern) + 1, Len(line) + 1>>] = {<<>>}
    <3> DEFINE j == Len(pattern) + 1
               p == Len(line) + 1
               at == <<j, p>>
    <3>1. /\ j > Len(pattern) /\ p > Len(line)
          /\ j \in 1..(Len(pattern) + 1) /\ p \in 1..(Len(line) + 1)
      OBVIOUS
    <3> HIDE DEF j, p
    <3>2. at \in PlacePairs(pattern, line) /\ at[1] = j /\ at[2] = p
      BY <3>1 DEF PlacePairs
    <3> HIDE DEF at
    <3>3. match[at] = CaptureStep(match, pattern, line, at[1], at[2])
      BY <3>2 DEF Matches
    <3>4. CaptureStep(match, pattern, line, j, p) = {<<>>}
      BY <3>1 DEF CaptureStep
    <3> QED
      BY <3>2, <3>3, <3>4 DEF at, j, p
  <2>3. v(n) = <<>>
    <3> DEFINE K == Cardinality(dynamic)
    <3>1. K - K = 0 /\ 1..0 = {}
      BY <1>2
    <3>2. \A f : [k \in 1..(K - K) |-> f[k]] = <<>>
      BY <3>1
    <3> QED
      BY <1>2, <3>1 DEF WordsAfter
  <2> QED
    BY <2>1, <2>2, <2>3
<1>4. ASSUME NEW i \in 1..n, B(i) PROVE B(i - 1)
  <2>1. CASE i \notin dynamic
    <3>1. At(match, F, line, i - 1) = At(match, F, line, i)
      BY <2>1, StaticToken
    <3>2. v(i - 1) = v(i)
      BY <1>2, <2>1
    <3> QED
      BY <1>4, <3>1, <3>2
  <2>2. CASE i \in dynamic
    <3> DEFINE w == v(i)
               c == Varied(dynamic, i)
    <3>1. CapturesFrom(match, F, line, i, w)
      BY <1>4 DEF CapturesFrom
    <3>2. CapturesFrom(match, F, line, i - 1, << Text(line, Lex(line)[i]) >> \o w)
      <4> HIDE DEF w
      <4> QED
        BY <2>2, <3>1, DynamicToken
    <3>3. /\ c \in 1..Cardinality(dynamic) /\ Varied(dynamic, i - 1) = c - 1
          /\ Ascending(dynamic)[c] = i
      BY <1>2, <2>2
    <3> HIDE DEF c
    <3>4. WordsAfter(line, dynamic, c - 1) =
            << Text(line, Lex(line)[Ascending(dynamic)[c]]) >> \o WordsAfter(line, dynamic, c)
      BY <1>1, <3>3, NextWord
    <3>5. v(i - 1) = << Text(line, Lex(line)[i]) >> \o w
      BY <3>3, <3>4 DEF c
    <3> QED
      BY <3>2, <3>5 DEF CapturesFrom
  <2> QED
    BY <2>1, <2>2
<1> HIDE DEF B, n
<1>5. 0 \in T
  <2>1. n - 0 = n
    BY <1>1
  <2> QED
    BY <1>3, <2>1
<1>6. ASSUME NEW d \in Nat, d \in T PROVE d + 1 \in T
  <2>1. SUFFICES ASSUME d + 1 <= n PROVE B(n - (d + 1))
    BY DEF T
  <2> DEFINE i == n - d
  <2>2. i \in 1..n /\ i - 1 = n - (d + 1) /\ d <= n
    BY <1>1, <2>1
  <2>3. B(i)
    BY <1>6, <2>2
  <2> HIDE DEF i, T
  <2>4. B(i - 1)
    BY <1>4, <2>2, <2>3
  <2> QED
    BY <2>2, <2>4
<1>7. n \in T
  <2> HIDE DEF T
  <2>1. Nat \subseteq T
    BY <1>5, <1>6, StepByStep
  <2> QED
    BY <1>1, <2>1
<1>8. B(0)
  <2>1. n - n = 0 /\ n <= n
    BY <1>1
  <2>2. B(n - n)
    BY <1>7, <2>1
  <2> QED
    BY <2>1, <2>2
<1>9. At(match, F, line, 0) = match[<<1, 1>>]
  <2>1. F[0] = <<>> /\ Len(<<>>) + 1 = 1 /\ EndOf(Lex(line), 0) + 1 = 1
    BY DEF BuiltUp, EndOf
  <2> QED
    BY <2>1 DEF At
<1> QED
  BY <1>2, <1>8, <1>9 DEF B

(* A text without commas is left alone.                                    *)
LEMMA NoCommas ==
  ASSUME NEW E, NEW s \in Seq(E), Comma \notin E
  PROVE  StripCommas(s) = s
<1> DEFINE n == Len(s)
           S == {i \in DOMAIN s : s[i] # Comma}
<1>1. n \in Nat /\ DOMAIN s = 1..n /\ S = 1..n
  OBVIOUS
<1> HIDE DEF S, n
<1>2. IsFiniteSet(1..n) /\ Cardinality(1..n) = n
  <2>1. 1 \in Int /\ n \in Int
    BY <1>1
  <2>2. IsFiniteSet(1..n) /\ Cardinality(1..n) = IF 1 > n THEN 0 ELSE n - 1 + 1
    BY <2>1, FS_Interval
  <2> QED
    BY <1>1, <2>2
<1>3. PICK at : /\ Lists(at, n, 1..n) /\ Selected(s, 1..n) \in Seq(E) /\ Len(Selected(s, 1..n)) = n
                /\ \A i \in 1..n : Selected(s, 1..n)[i] = s[at[i]]
  <2>1. 1..n \in SUBSET (DOMAIN s)
    BY <1>1
  <2> DEFINE R == 1..n
  <2>2. R \in SUBSET (DOMAIN s) /\ Cardinality(R) = n
    BY <1>2, <2>1
  <2> HIDE DEF R
  <2>3. \E at : /\ Lists(at, n, R) /\ Selected(s, R) \in Seq(E) /\ Len(Selected(s, R)) = n
                /\ \A i \in 1..n : Selected(s, R)[i] = s[at[i]]
    BY <2>2, SelectedElements
  <2> QED
    BY <2>3 DEF R
<1>4. ASSUME NEW p \in 1..n PROVE at[p] = p
  <2>1. at[p] \in 1..n /\ Cardinality({j \in 1..n : j < at[p]}) = p - 1
    BY <1>3 DEF Lists
  <2> DEFINE a == at[p]
  <2>2. {j \in 1..n : j < a} = 1..(a - 1)
    BY <1>1, <2>1
  <2>3. a - 1 \in Nat /\ a - 1 \in Int /\ 1 \in Int /\ a \in Nat
    BY <1>1, <2>1
  <2>4. Cardinality({j \in 1..n : j < a}) = p - 1
    BY <2>1
  <2> HIDE DEF a
  <2>5. Cardinality(1..(a - 1)) = IF 1 > a - 1 THEN 0 ELSE (a - 1) - 1 + 1
    BY <2>3, FS_Interval
  <2>6. a - 1 = p - 1
    <3>1. Cardinality(1..(a - 1)) = p - 1
      BY <2>2, <2>4
    <3>2. (IF 1 > a - 1 THEN 0 ELSE (a - 1) - 1 + 1) = a - 1
      BY <2>3
    <3> QED
      BY <2>5, <3>1, <3>2
  <2>7. a = p
    BY <1>1, <2>3, <2>6
  <2> QED
    BY <2>7 DEF a
<1>5. Selected(s, 1..n) = s
  <2> DEFINE t == Selected(s, 1..n)
  <2>1. t \in Seq(E) /\ Len(t) = n /\ \A i \in 1..n : t[i] = s[i]
    BY <1>3, <1>4
  <2> HIDE DEF t
  <2>2. t = s
    BY <2>1, SeqEqual DEF n
  <2> QED
    BY <2>2 DEF t
<1> QED
  BY <1>1, <1>5 DEF StripCommas, S

(* The tokens that vary. *)
Dynamic(group) == {pos \in DOMAIN Lex(group[1]) : ~Static(group, pos)}

(* The template of lines that read alike is built of each of them.         *)
LEMMA TemplateOfAlike ==
  ASSUME NEW group \in Seq(Seq(Characters)), group # <<>>, ReadAlike(group),
         NEW m \in DOMAIN group
  PROVE  /\ OneAtATime(group[m], Dynamic(group))
         /\ EndOf(Lex(group[m]), Len(Lex(group[m]))) = Len(group[m])
         /\ DeriveTemplate(group) \in Seq(Symbols \ {Comma})
         /\ group[m] = Trim(StripCommas(group[m]))
         /\ \E F : BuiltUp(F, DeriveTemplate(group), group[m], Lex(group[m]), Dynamic(group))
<1> DEFINE line == group[m]
           raw == group[1]
           sp == Lex(line)
           spans == Lex(raw)
           n == Len(sp)
           D == Dynamic(group)
           E == Symbols \ {Comma}
           X == Seq(E)
           piece(pos) == Gap(raw, spans, pos) \o
                           (IF Static(group, pos) THEN Text(raw, spans[pos])
                            ELSE DynamicPiece(group, pos))
           ss == [pos \in DOMAIN spans |-> piece(pos)]
           from == IF spans = <<>> THEN 1 ELSE spans[Len(spans)].end + 1
           tail == SubSeq(raw, from, Len(raw))
<1>1. /\ 1 \in DOMAIN group /\ m \in DOMAIN group
      /\ line \in Seq(Characters) /\ raw \in Seq(Characters)
  BY LenProperties
<1>2. /\ SameLength([i \in DOMAIN group |-> Lex(group[i])])
      /\ \A i \in DOMAIN group :
           /\ group[i] = Trim(StripCommas(group[i]))
           /\ \A pos \in DOMAIN spans :
                /\ Gap(group[i], Lex(group[i]), pos) = Gap(raw, spans, pos)
                /\ pos \in D =>
                     /\ pos + 1 \notin D
                     /\ Kind[group[i][Lex(group[i])[pos].start]] = "word"
  BY DEF ReadAlike, Dynamic
<1>3. /\ n \in Nat /\ DOMAIN sp = 1..n /\ DOMAIN spans = 1..n /\ Len(spans) = n
      /\ Len(spans) = 0 => spans = <<>>
  <2>1. n \in Nat /\ DOMAIN sp = 1..n /\ DOMAIN spans = 1..Len(spans)
    BY <1>1, LexParts
  <2>2. Len(sp) = Len(spans)
    <3> DEFINE t == [i \in DOMAIN group |-> Lex(group[i])]
    <3>1. DOMAIN t = DOMAIN group /\ t[m] = sp /\ t[1] = spans
      BY <1>1
    <3>2. SameLength(t)
      BY <1>2
    <3> HIDE DEF t, sp, spans
    <3>3. t[m] \in ToSet(t) /\ t[1] \in ToSet(t)
      BY <1>1, <3>1 DEF ToSet
    <3> QED
      BY <3>1, <3>2, <3>3 DEF SameLength
  <2>3. Len(spans) = 0 => spans = <<>>
    BY <1>1, LexSpans DEF SpansAt
  <2> QED
    BY <2>1, <2>2, <2>3
<1>4. D \in SUBSET (1..n) /\ \A pos \in 1..n : pos \in D <=> ~Static(group, pos)
  BY <1>3 DEF Dynamic
<1>5. OneAtATime(line, D)
  BY <1>1, <1>2, <1>3, <1>4 DEF OneAtATime
<1>6. \A i \in DOMAIN group :
        /\ group[i] \in Seq(Characters \ {Comma})
        /\ EndOf(Lex(group[i]), Len(Lex(group[i]))) = Len(group[i])
  <2>1. ASSUME NEW i \in DOMAIN group
        PROVE  /\ group[i] \in Seq(Characters \ {Comma})
               /\ EndOf(Lex(group[i]), Len(Lex(group[i]))) = Len(group[i])
    <3> DEFINE l == group[i]
    <3>1. l \in Seq(Characters) /\ l = Trim(StripCommas(l))
      BY <1>2
    <3> HIDE DEF l
    <3>2. l \in Seq(Characters \ {Comma}) /\ (Len(l) # 0 => Inked(l, Len(l)))
      BY <3>1, TrimmedEnds
    <3>3. EndOf(Lex(l), Len(Lex(l))) = Len(l)
      BY <3>1, <3>2, LastEnds
    <3> QED
      BY <3>2, <3>3 DEF l
  <2> QED
    BY <2>1
<1> HIDE DEF D
<1>7. ASSUME NEW pos \in 1..n
      PROVE  piece(pos) = Piece(line, sp, D, pos) /\ Piece(line, sp, D, pos) \in X
  <2>1. Gap(raw, spans, pos) = Gap(line, sp, pos)
    BY <1>1, <1>2, <1>3
  <2>2. Gap(line, sp, pos) \in Seq(Characters \ {Comma})
    BY <1>6, LexParts
  <2>3. Text(line, sp[pos]) \in Seq(Characters \ {Comma})
    BY <1>6, LexParts
  <2>4. Seq(Characters \ {Comma}) \subseteq X /\ <<Placeholder>> \in X
    BY CharacterAssumption DEF Symbols, Characters
  <2>5. \A a, b \in X : a \o b \in X
    OBVIOUS
  <2> HIDE DEF X
  <2>6. CASE pos \in D
    <3>1. ~Static(group, pos)
      BY <1>4, <2>6
    <3>2. pos > 1 => Static(group, pos - 1)
      <4>1. SUFFICES ASSUME pos > 1, ~Static(group, pos - 1) PROVE FALSE
        OBVIOUS
      <4>2. pos - 1 \in 1..n /\ (pos - 1) + 1 = pos
        BY <1>3, <4>1
      <4>3. pos - 1 \in D
        BY <1>4, <4>1, <4>2
      <4> QED
        BY <1>5, <2>6, <4>2, <4>3 DEF OneAtATime
    <3>3. DynamicPiece(group, pos) = <<Placeholder>>
      BY <3>2 DEF DynamicPiece
    <3> HIDE DEF line, raw, sp, spans
    <3> QED
      BY <2>1, <2>2, <2>4, <2>5, <2>6, <3>1, <3>3 DEF Piece
  <2>7. CASE pos \notin D
    <3>1. Static(group, pos)
      BY <1>4, <2>7
    <3>2. Text(line, sp[pos]) = Text(raw, spans[pos])
      <4>1. line \in ToSet(group)
        BY <1>1 DEF ToSet
      <4> QED
        BY <3>1, <4>1 DEF Static
    <3> HIDE DEF line, raw, sp, spans
    <3> QED
      BY <2>1, <2>2, <2>3, <2>4, <2>5, <2>7, <3>1, <3>2 DEF Piece
  <2> QED
    BY <2>6, <2>7
<1>8. tail = <<>>
  <2>1. from = Len(raw) + 1
    <3>1. EndOf(spans, n) = Len(raw)
      BY <1>1, <1>3, <1>6
    <3>2. CASE n = 0
      BY <1>3, <3>1, <3>2 DEF EndOf
    <3>3. CASE n # 0
      <4>1. spans # <<>>
        BY <1>3, <3>3
      <4> HIDE DEF spans, n, raw
      <4> QED
        BY <1>3, <3>1, <3>3, <4>1 DEF EndOf
    <3> QED
      BY <3>2, <3>3
  <2> HIDE DEF from, raw
  <2> QED
    BY <1>1, <2>1
<1>9. DeriveTemplate(group) = FlattenSeq(ss) \o tail
  <2>1. DeriveTemplate(group) = DeriveLexTemplate(group)
    BY <1>2 DEF DeriveTemplate
  <2> QED
    BY <2>1 DEF DeriveLexTemplate
<1> HIDE DEF spans, piece, sp, line, raw, X, tail, n
<1>10. ss \in Seq(X) /\ Len(ss) = n /\ \A pos \in 1..n : ss[pos] = Piece(line, sp, D, pos)
  BY <1>3, <1>7
<1> HIDE DEF ss, E
<1>11. PICK F \in [0..n -> X] :
         /\ F[0] = <<>> /\ F[n] = FlattenSeq(ss)
         /\ \A i \in 1..n : F[i] = F[i - 1] \o ss[i]
  <2>1. \E F \in [0..Len(ss) -> Seq(E)] :
          /\ F[0] = <<>> /\ F[Len(ss)] = FlattenSeq(ss)
          /\ \A i \in 1..Len(ss) : F[i] = F[i - 1] \o ss[i]
    BY <1>10, FlattenPrefixes DEF X
  <2> QED
    BY <1>10, <2>1 DEF X
<1>12. FlattenSeq(ss) \in X
  BY <1>3, <1>11
<1>13. DeriveTemplate(group) = FlattenSeq(ss)
  <2> DEFINE t == FlattenSeq(ss)
  <2>1. t \in X
    BY <1>12
  <2> HIDE DEF t
  <2>2. t \o <<>> = t
    BY <2>1 DEF X
  <2> QED
    BY <1>8, <1>9, <2>2 DEF t
<1>14. BuiltUp(F, DeriveTemplate(group), line, sp, D)
  <2>1. X \subseteq Seq(Symbols)
    BY DEF X, E
  <2>2. F \in [0..n -> Seq(Symbols)]
    BY <1>11, <2>1
  <2> QED
    BY <1>10, <1>11, <1>13, <2>2 DEF BuiltUp, n
<1>15. EndOf(sp, Len(sp)) = Len(line) /\ line = Trim(StripCommas(line))
  BY <1>1, <1>2, <1>6 DEF sp, line
<1> QED
  BY <1>5, <1>12, <1>13, <1>14, <1>15 DEF D, sp, line, X, E

(* Of members that read alike, each placeholder of the template captures   *)
(* exactly the word that varies there, for every member (SlotsAreWords).   *)
THEOREM Slots == Spec => []SlotsAreWords
<1>1. LinesLogged /\ ProfilesBuilt => SlotsAreWords
  <2> SUFFICES ASSUME LinesLogged, ProfilesBuilt, NEW p \in ToSet(profiles),
                      ReadAlike(MemberLines(p.members)), HasStaticAnchor(p.template),
                      NEW m \in DOMAIN MemberLines(p.members)
               PROVE  LET group == MemberLines(p.members)
                          dynamic == Ascending(Dynamic(group))
                      IN  p.captures[m] =
                            {[k \in DOMAIN dynamic |-> Text(group[m], Lex(group[m])[dynamic[k]])]}
    BY DEF SlotsAreWords, Dynamic
  <2> DEFINE members == p.members
             group == MemberLines(members)
             template == DeriveTemplate(group)
             line == group[m]
             D == Dynamic(group)
             E == Symbols \ {Comma}
  <2>1. members \in Seq(DOMAIN log) /\ members # <<>> /\ p = ProfileOf(members)
    BY DEF ProfilesBuilt
  <2>2. p.template = template /\ p.captures[m] = CaptureSlots(template, line)
    <3>1. /\ ProfileOf(members).template = template
          /\ ProfileOf(members).captures = [i \in DOMAIN group |-> CaptureSlots(template, group[i])]
      BY DEF ProfileOf
    <3> QED
      BY <2>1, <3>1
  <2>3. m \in DOMAIN group /\ ReadAlike(group)
    OBVIOUS
  <2> HIDE DEF members
  <2>4. group \in Seq(Seq(Characters)) /\ group # <<>>
    BY <2>1, GroupIsText
  <2> HIDE DEF group
  <2>5. PICK F :
          /\ OneAtATime(line, D) /\ EndOf(Lex(line), Len(Lex(line))) = Len(line)
          /\ template \in Seq(E) /\ line = Trim(StripCommas(line))
          /\ BuiltUp(F, template, line, Lex(line), D)
    BY <2>3, <2>4, TemplateOfAlike
  <2>6. line \in Seq(Characters)
    BY <2>3, <2>4
  <2>7. template \in Seq(Symbols) /\ StripCommas(template) = template
    <3>1. Seq(E) \subseteq Seq(Symbols) /\ Comma \notin E
      OBVIOUS
    <3> HIDE DEF E, template
    <3> QED
      BY <2>5, <3>1, NoCommas
  <2>8. Captures(template, line) = CaptureSlots(template, line)
    BY <2>2 DEF CaptureSlots
  <2> HIDE DEF template, line, D
  <2>9. PICK match :
          /\ match[<<1, 1>>] = Captures(template, line)
          /\ \A at \in PlacePairs(template, line) :
               match[at] = CaptureStep(match, template, line, at[1], at[2])
    BY <2>5, <2>6, <2>7, CapturesFollow
  <2>10. match[<<1, 1>>] = {WordsAfter(line, D, 0)}
    <3>1. Matches(match, template, line)
      BY <2>9 DEF Matches
    <3> QED
      BY <2>5, <2>6, <2>7, <3>1, WordsCaptured
  <2>11. WordsAfter(line, D, 0) =
           [k \in DOMAIN Ascending(D) |-> Text(line, Lex(line)[Ascending(D)[k]])]
    <3>1. D \subseteq Nat /\ IsFiniteSet(D)
      <4>1. D \in SUBSET (1..Len(Lex(line)))
        BY <2>5 DEF OneAtATime
      <4>2. IsFiniteSet(1..Len(Lex(line))) /\ 1..Len(Lex(line)) \subseteq Nat
        BY <2>6, LexParts, FS_Interval
      <4> QED
        BY <4>1, <4>2, FS_Subset
    <3>2. DOMAIN Ascending(D) = 1..Cardinality(D) /\ Cardinality(D) \in Nat
      BY <3>1, AscendingLists DEF Lists
    <3>3. Cardinality(D) - 0 = Cardinality(D) /\ \A k \in 1..Cardinality(D) : 0 + k = k
      BY <3>2
    <3> QED
      BY <3>2, <3>3 DEF WordsAfter
  <2> QED
    BY <2>2, <2>8, <2>9, <2>10, <2>11 DEF line, D, group, members
<1> QED
  BY <1>1, ProfilesAreBuilt, PTL

-----------------------------------------------------------------------------
(* Lines word by word.                                                     *)

(* f lists numbers of S, all of them and each once, upwards.               *)
Upwards(f, n, S) ==
  /\ n \in Nat /\ f \in [1..n -> S] /\ S \subseteq Nat
  /\ \A p, q \in 1..n : p < q => f[p] < f[q]
  /\ \A i \in S : \E p \in 1..n : f[p] = i

(* Then it lists S.                                                        *)
LEMMA UpwardsLists ==
  ASSUME NEW f, NEW n, NEW S, Upwards(f, n, S)
  PROVE  Lists(f, n, S)
<1>1. /\ n \in Nat /\ f \in [1..n -> S] /\ S \subseteq Nat
      /\ \A p, q \in 1..n : p < q => f[p] < f[q]
      /\ \A i \in S : \E p \in 1..n : f[p] = i
  BY DEF Upwards
<1>2. \A p, q \in 1..n : (f[p] < f[q] <=> p < q) /\ (f[p] = f[q] => p = q)
  <2>1. ASSUME NEW p \in 1..n, NEW q \in 1..n
        PROVE  (f[p] < f[q] <=> p < q) /\ (f[p] = f[q] => p = q)
    <3>1. f[p] \in Nat /\ f[q] \in Nat /\ p \in Nat /\ q \in Nat
      <4>1. f[p] \in S /\ f[q] \in S
        BY <1>1
      <4>2. f[p] \in Nat /\ f[q] \in Nat
        BY <1>1, <4>1
      <4>3. p \in Nat /\ q \in Nat
        BY <1>1
      <4> QED
        BY <4>2, <4>3
    <3>2. p < q => f[p] < f[q]
      BY <1>1
    <3>3. q < p => f[q] < f[p]
      BY <1>1
    <3> QED
      BY <3>1, <3>2, <3>3
  <2> QED
    BY <2>1
<1>3. ASSUME NEW P \in SUBSET (1..n), NEW T \in SUBSET S,
             \A p \in P : f[p] \in T, \A x \in T : \E p \in P : f[p] = x
      PROVE  IsFiniteSet(T) /\ Cardinality(T) = Cardinality(P)
  <2> DEFINE g == [p \in P |-> f[p]]
  <2>1. IsFiniteSet(P)
    <3>1. IsFiniteSet(1..n)
      BY <1>1, FS_Interval
    <3> QED
      BY <3>1, FS_Subset
  <2>2. g \in [P -> T] /\ \A p \in P : g[p] = f[p] /\ p \in 1..n
    BY <1>3
  <2> HIDE DEF g
  <2>3. g \in Bijection(P, T)
    BY <1>2, <1>3, <2>2 DEF Bijection, Injection, Surjection, IsInjective
  <2> QED
    BY <2>1, <2>3, FS_Bijection DEF ExistsBijection
<1>4. IsFiniteSet(S) /\ n = Cardinality(S)
  <2>1. 1..n \in SUBSET (1..n) /\ S \in SUBSET S
    OBVIOUS
  <2>2. IsFiniteSet(S) /\ Cardinality(S) = Cardinality(1..n)
    BY <1>1, <1>3, <2>1
  <2>3. 1 \in Int /\ n \in Int
    BY <1>1
  <2>4. Cardinality(1..n) = n
    BY <1>1, <2>3, FS_Interval
  <2> QED
    BY <2>2, <2>4
<1>5. ASSUME NEW p \in 1..n PROVE Cardinality({j \in S : j < f[p]}) = p - 1
  <2> DEFINE T == {j \in S : j < f[p]}
             P == 1..(p - 1)
  <2>1. /\ P \in SUBSET (1..n) /\ T \in SUBSET S /\ p - 1 \in Nat
        /\ \A q \in 1..n : q \in P <=> q < p
    BY <1>1
  <2>2. \A q \in P : f[q] \in T
    BY <1>1, <1>2, <2>1
  <2>3. \A x \in T : \E q \in P : f[q] = x
    BY <1>1, <1>2, <2>1
  <2> HIDE DEF T, P
  <2>4. Cardinality(T) = Cardinality(P)
    BY <1>3, <2>1, <2>2, <2>3
  <2>5. Cardinality(P) = p - 1
    <3>1. 1 \in Int /\ p - 1 \in Int
      BY <2>1
    <3>2. Cardinality(1..(p - 1)) = p - 1
      BY <2>1, <3>1, FS_Interval
    <3> QED
      BY <3>2 DEF P
  <2> QED
    BY <2>4, <2>5 DEF T
<1> QED
  BY <1>1, <1>4, <1>5 DEF Lists

(* A set is listed in one way.                                             *)
LEMMA ListedOnce ==
  ASSUME NEW f, NEW g, NEW n, NEW S, S \subseteq Nat, Lists(f, n, S), Lists(g, n, S)
  PROVE  f = g
<1>1. /\ n \in Nat /\ f \in [1..n -> S] /\ g \in [1..n -> S]
      /\ \A i \in S : \E p \in 1..n : g[p] = i
      /\ \A p \in 1..n : Cardinality({j \in S : j < f[p]}) = p - 1
      /\ \A p \in 1..n : Cardinality({j \in S : j < g[p]}) = p - 1
  BY DEF Lists
<1>2. ASSUME NEW p \in 1..n PROVE f[p] = g[p]
  <2>1. PICK q \in 1..n : g[q] = f[p]
    BY <1>1
  <2>2. p - 1 = q - 1
    BY <1>1, <2>1
  <2>3. p = q
    BY <1>1, <2>2
  <2> QED
    BY <2>1, <2>3
<1> QED
  BY <1>1, <1>2

(* The spans of a line with given starts are what SpansAt says of them.    *)
LEMMA SpansUnique ==
  ASSUME NEW E, NEW line \in Seq(E), NEW starts \in SUBSET (DOMAIN line), NEW at, NEW sp,
         SpansAt(line, starts, at, sp)
  PROVE  Spans(line, starts) = sp
<1> DEFINE ss == Spans(line, starts)
           R == [start : 1..Len(line), end : 1..Len(line)]
           n == Cardinality(starts)
<1>1. PICK bt : SpansAt(line, starts, bt, ss)
  BY SpansHold
<1>2. /\ Lists(at, n, starts) /\ Lists(bt, n, starts) /\ ss \in Seq(R) /\ sp \in Seq(R)
      /\ Len(ss) = n /\ Len(sp) = n /\ n \in Nat
  BY <1>1 DEF SpansAt, Lists
<1>3. at = bt
  <2>1. starts \subseteq Nat
    OBVIOUS
  <2> QED
    BY <1>2, <2>1, ListedOnce
<1>4. \A p \in 1..n : ss[p] \in R /\ sp[p] \in R
  <2> HIDE DEF n, R, ss
  <2> QED
    BY <1>2
<1> HIDE DEF n
<1>5. ASSUME NEW p \in 1..n PROVE ss[p] = sp[p]
  <2> DEFINE s == sp[p].start
             d == sp[p].end
             e == ss[p].end
  <2>1. ss[p] \in R /\ sp[p] \in R
    BY <1>4
  <2>2. /\ ss[p] = [start |-> ss[p].start, end |-> e] /\ sp[p] = [start |-> s, end |-> d]
        /\ s \in Nat /\ d \in Nat /\ e \in Nat /\ d <= Len(line) /\ e <= Len(line)
    BY <2>1
  <2>3. /\ ss[p].start = s /\ s <= d /\ s <= e
        /\ \A j \in (s + 1)..d : Inked(line, j) /\ j \notin starts
        /\ \A j \in (s + 1)..e : Inked(line, j) /\ j \notin starts
        /\ d < Len(line) => ~Inked(line, d + 1) \/ d + 1 \in starts
        /\ e < Len(line) => ~Inked(line, e + 1) \/ e + 1 \in starts
    BY <1>1, <1>2, <1>3 DEF SpansAt
  <2> HIDE DEF s, d, e, ss, R
  <2>4. Len(line) \in Nat
    OBVIOUS
  <2>5. ~(d < e)
    <3>1. ASSUME d < e PROVE FALSE
      <4>1. d + 1 \in (s + 1)..e /\ d < Len(line)
        BY <2>2, <2>3, <2>4, <3>1
      <4> QED
        BY <2>3, <4>1
    <3> QED
      BY <3>1
  <2>6. ~(e < d)
    <3>1. ASSUME e < d PROVE FALSE
      <4>1. e + 1 \in (s + 1)..d /\ e < Len(line)
        BY <2>2, <2>3, <2>4, <3>1
      <4> QED
        BY <2>3, <4>1
    <3> QED
      BY <3>1
  <2>7. d = e
    BY <2>2, <2>5, <2>6
  <2> QED
    BY <2>2, <2>3, <2>7
<1> HIDE DEF ss
<1>6. ss = sp
  BY <1>2, <1>5
<1> QED
  BY <1>6 DEF ss

(* No word of u \o v is made of characters of both.                        *)
Apart(u, v) == u = <<>> \/ v = <<>> \/ ~Inked(u, Len(u)) \/ ~Inked(v, 1)

Shifted(S, n) == {n + i : i \in S}

PlacesOf(S, line) == S \subseteq DOMAIN line /\ \A i \in S : Inked(line, i)

(* The spans of two texts apart are those of the one and those of the      *)
(* other.                                                                  *)
LEMMA SpansAppend ==
  ASSUME NEW E, NEW u \in Seq(E), NEW v \in Seq(E), Apart(u, v),
         NEW Su, PlacesOf(Su, u), NEW Sv, PlacesOf(Sv, v)
  PROVE  Texts(u \o v, Spans(u \o v, Su \cup Shifted(Sv, Len(u))))
           = Texts(u, Spans(u, Su)) \o Texts(v, Spans(v, Sv))
<1> DEFINE n == Len(u)
           m == Len(v)
           w == u \o v
           S == Su \cup Shifted(Sv, n)
           A == Spans(u, Su)
           B == Spans(v, Sv)
           ca == Cardinality(Su)
           cb == Cardinality(Sv)
           RA == [start : 1..n, end : 1..n]
           RB == [start : 1..m, end : 1..m]
           R == [start : 1..(n + m), end : 1..(n + m)]
<1>0. Su \in SUBSET (DOMAIN u) /\ Sv \in SUBSET (DOMAIN v) /\ \A i \in Su : Inked(u, i)
  BY DEF PlacesOf
<1>1. /\ w \in Seq(E) /\ n \in Nat /\ m \in Nat /\ Len(w) = n + m
      /\ \A i \in 1..n : w[i] = u[i] /\ Inked(w, i) = Inked(u, i)
      /\ \A i \in 1..m : w[n + i] = v[i] /\ Inked(w, n + i) = Inked(v, i)
  BY JoinedAt DEF Joined, Inked
<1>2. PICK a : SpansAt(u, Su, a, A)
  BY <1>0, SpansHold
<1>3. PICK b : SpansAt(v, Sv, b, B)
  BY <1>0, SpansHold
<1>4. /\ A \in Seq(RA) /\ Len(A) = ca /\ ca \in Nat
      /\ Lists(a, ca, Su)
      /\ \A p \in 1..ca :
           /\ A[p].start = a[p] /\ A[p].start <= A[p].end
           /\ \A j \in (A[p].start + 1)..A[p].end : Inked(u, j) /\ j \notin Su
           /\ A[p].end < n => ~Inked(u, A[p].end + 1) \/ A[p].end + 1 \in Su
  BY <1>2 DEF SpansAt, Lists
<1>5. /\ B \in Seq(RB) /\ Len(B) = cb /\ cb \in Nat
      /\ Lists(b, cb, Sv)
      /\ \A p \in 1..cb :
           /\ B[p].start = b[p] /\ B[p].start <= B[p].end
           /\ \A j \in (B[p].start + 1)..B[p].end : Inked(v, j) /\ j \notin Sv
           /\ B[p].end < m => ~Inked(v, B[p].end + 1) \/ B[p].end + 1 \in Sv
  BY <1>3 DEF SpansAt, Lists
<1>6. /\ Su \subseteq 1..n /\ Sv \subseteq 1..m /\ S \subseteq 1..(n + m)
      /\ \A j \in 1..n : j \in S <=> j \in Su
      /\ \A j \in 1..m : n + j \in S <=> j \in Sv
      /\ \A j \in S : j \in Su \/ \E i \in Sv : j = n + i
  <2>1. Su \subseteq 1..n /\ Sv \subseteq 1..m
    BY <1>0
  <2> HIDE DEF n, m
  <2> QED
    BY <1>1, <2>1 DEF Shifted
<1> HIDE DEF A, B, RA, RB, n, m, w, S, ca, cb
<1>7. \A p \in 1..ca : /\ A[p] = [start |-> A[p].start, end |-> A[p].end]
                       /\ A[p].start \in 1..n /\ A[p].end \in 1..n
  <2>1. \A p \in 1..ca : A[p] \in RA
    BY <1>4
  <2> QED
    BY <2>1 DEF RA
<1>8. \A p \in 1..cb : /\ B[p] = [start |-> B[p].start, end |-> B[p].end]
                       /\ B[p].start \in 1..m /\ B[p].end \in 1..m
  <2>1. \A p \in 1..cb : B[p] \in RB
    BY <1>5
  <2> QED
    BY <2>1 DEF RB
<1> DEFINE at == [p \in 1..(ca + cb) |-> IF p <= ca THEN a[p] ELSE n + b[p - ca]]
           moved(r) == [start |-> n + r.start, end |-> n + r.end]
           sp == [p \in 1..(ca + cb) |-> IF p <= ca THEN A[p] ELSE moved(B[p - ca])]
<1>9. /\ \A p \in 1..ca : a[p] \in Su /\ a[p] \in 1..n
      /\ \A p, q \in 1..ca : p < q => a[p] < a[q]
      /\ \A i \in Su : \E p \in 1..ca : a[p] = i
  BY <1>4, <1>6 DEF Lists
<1>10. /\ \A p \in 1..cb : b[p] \in Sv /\ b[p] \in 1..m
       /\ \A p, q \in 1..cb : p < q => b[p] < b[q]
       /\ \A i \in Sv : \E p \in 1..cb : b[p] = i
  BY <1>5, <1>6 DEF Lists
<1>11. /\ \A p \in 1..ca : p \in 1..(ca + cb) /\ at[p] = a[p] /\ sp[p] = A[p]
       /\ \A p \in 1..cb : /\ ca + p \in 1..(ca + cb)
                           /\ at[ca + p] = n + b[p] /\ sp[ca + p] = moved(B[p])
  <2>1. ASSUME NEW p \in 1..ca PROVE p \in 1..(ca + cb) /\ at[p] = a[p] /\ sp[p] = A[p]
    BY <1>4, <1>5
  <2>2. ASSUME NEW p \in 1..cb
        PROVE  ca + p \in 1..(ca + cb) /\ at[ca + p] = n + b[p] /\ sp[ca + p] = moved(B[p])
    <3>1. ca + p \in 1..(ca + cb) /\ ~(ca + p <= ca) /\ (ca + p) - ca = p
      BY <1>4, <1>5
    <3> QED
      BY <3>1
  <2> QED
    BY <2>1, <2>2
<1>12. \A p \in 1..(ca + cb) : p \in 1..ca \/ \E q \in 1..cb : p = ca + q
  <2>1. ASSUME NEW p \in 1..(ca + cb), p \notin 1..ca PROVE p - ca \in 1..cb /\ p = ca + (p - ca)
    BY <1>4, <1>5, <2>1
  <2> QED
    BY <2>1
<1>13. DOMAIN at = 1..(ca + cb) /\ DOMAIN sp = 1..(ca + cb)
       /\ at = [p \in 1..(ca + cb) |-> at[p]] /\ sp = [p \in 1..(ca + cb) |-> sp[p]]
  OBVIOUS
<1> HIDE DEF at, sp
<1>14. Upwards(at, ca + cb, S)
  <2>1. ASSUME NEW p \in 1..(ca + cb) PROVE at[p] \in S
    <3>1. CASE p \in 1..ca
      BY <1>6, <1>9, <1>11, <3>1
    <3>2. CASE p \notin 1..ca
      <4>1. PICK q \in 1..cb : p = ca + q
        BY <1>12, <3>2
      <4>2. at[p] = n + b[q] /\ b[q] \in Sv /\ b[q] \in 1..m
        BY <1>10, <1>11, <4>1
      <4> QED
        BY <1>6, <4>2
    <3> QED
      BY <3>1, <3>2
  <2>2. ASSUME NEW p \in 1..(ca + cb), NEW q \in 1..(ca + cb), p < q PROVE at[p] < at[q]
    <3>1. CASE q \in 1..ca
      <4>1. p \in 1..ca
        BY <1>4, <2>2, <3>1
      <4> QED
        BY <1>9, <1>11, <2>2, <3>1, <4>1
    <3>2. CASE p \in 1..ca /\ q \notin 1..ca
      <4>1. PICK k \in 1..cb : q = ca + k
        BY <1>12, <3>2
      <4>2. at[p] = a[p] /\ a[p] \in 1..n /\ at[q] = n + b[k] /\ b[k] \in 1..m
        BY <1>9, <1>10, <1>11, <3>2, <4>1
      <4> QED
        BY <1>1, <4>2
    <3>3. CASE p \notin 1..ca /\ q \notin 1..ca
      <4>1. PICK j \in 1..cb, k \in 1..cb : p = ca + j /\ q = ca + k
        BY <1>12, <3>3
      <4>2. j < k
        BY <1>4, <2>2, <4>1
      <4>3. at[p] = n + b[j] /\ at[q] = n + b[k] /\ b[j] < b[k] /\ b[j] \in 1..m /\ b[k] \in 1..m
        BY <1>10, <1>11, <4>1, <4>2
      <4> QED
        BY <1>1, <4>3
    <3> QED
      BY <3>1, <3>2, <3>3
  <2>3. ASSUME NEW i \in S PROVE \E p \in 1..(ca + cb) : at[p] = i
    <3>1. CASE i \in Su
      <4>1. PICK p \in 1..ca : a[p] = i
        BY <1>9, <3>1
      <4> QED
        BY <1>11, <4>1
    <3>2. CASE i \notin Su
      <4>1. PICK k \in Sv : i = n + k
        BY <1>6, <3>2
      <4>2. PICK p \in 1..cb : b[p] = k
        BY <1>10
      <4> QED
        BY <1>11, <4>1, <4>2
    <3> QED
      BY <3>1, <3>2
  <2>4. ca + cb \in Nat /\ S \subseteq Nat
    BY <1>1, <1>4, <1>5, <1>6
  <2> QED
    BY <1>13, <2>1, <2>2, <2>3, <2>4 DEF Upwards
<1>15. Lists(at, ca + cb, S) /\ ca + cb = Cardinality(S)
  BY <1>14, UpwardsLists DEF Lists

<1>16. \A p \in 1..(ca + cb) : sp[p] \in R
  <2>1. ASSUME NEW p \in 1..ca PROVE sp[p] \in R
    <3> DEFINE s == A[p].start
               e == A[p].end
    <3>1. A[p] = [start |-> s, end |-> e] /\ s \in 1..n /\ e \in 1..n
      BY <1>7
    <3>2. sp[p] = A[p]
      BY <1>11
    <3> HIDE DEF s, e
    <3>3. s \in 1..(n + m) /\ e \in 1..(n + m)
      BY <1>1, <3>1
    <3> QED
      BY <3>1, <3>2, <3>3 DEF R
  <2>2. ASSUME NEW p \in 1..cb PROVE sp[ca + p] \in R
    <3> DEFINE s == B[p].start
               e == B[p].end
    <3>1. s \in 1..m /\ e \in 1..m
      BY <1>8
    <3>2. sp[ca + p] = [start |-> n + s, end |-> n + e]
      BY <1>11
    <3> HIDE DEF s, e
    <3>3. n + s \in 1..(n + m) /\ n + e \in 1..(n + m)
      BY <1>1, <3>1
    <3> QED
      BY <3>2, <3>3 DEF R
  <2> QED
    BY <1>12, <2>1, <2>2
<1>17. sp \in Seq(R) /\ Len(sp) = ca + cb
  <2> DEFINE c == ca + cb
  <2>1. c \in Nat
    BY <1>4, <1>5
  <2>2. \A p \in 1..c : sp[p] \in R
    BY <1>16
  <2>3. sp = [p \in 1..c |-> sp[p]]
    BY <1>13
  <2> HIDE DEF c, R, sp
  <2>4. sp \in [1..c -> R]
    BY <2>2, <2>3
  <2>5. sp \in Seq(R) /\ Len(sp) = c
    BY <2>1, <2>4
  <2> QED
    BY <2>5 DEF c
<1>18. ASSUME NEW p \in 1..ca
       PROVE  /\ sp[p].start = at[p] /\ sp[p].start <= sp[p].end
              /\ \A j \in (sp[p].start + 1)..sp[p].end : Inked(w, j) /\ j \notin S
              /\ sp[p].end < n + m => ~Inked(w, sp[p].end + 1) \/ sp[p].end + 1 \in S
  <2> DEFINE s == A[p].start
             e == A[p].end
  <2>1. /\ s \in 1..n /\ e \in 1..n /\ s = a[p] /\ s <= e
        /\ \A j \in (s + 1)..e : Inked(u, j) /\ j \notin Su
        /\ e < n => ~Inked(u, e + 1) \/ e + 1 \in Su
        /\ Inked(u, s)
    BY <1>0, <1>4, <1>7, <1>9
  <2>2. sp[p].start = s /\ sp[p].end = e /\ at[p] = a[p]
    BY <1>11
  <2> HIDE DEF s, e
  <2>3. \A j \in (s + 1)..e : Inked(w, j) /\ j \notin S
    <3>1. ASSUME NEW j \in (s + 1)..e PROVE Inked(w, j) /\ j \notin S
      <4>1. j \in 1..n
        BY <1>1, <2>1
      <4> QED
        BY <1>1, <1>6, <2>1, <4>1
    <3> QED
      BY <3>1
  <2>4. ASSUME e < n + m PROVE ~Inked(w, e + 1) \/ e + 1 \in S
    <3>1. CASE e < n
      <4>1. e + 1 \in 1..n
        BY <1>1, <2>1, <3>1
      <4> QED
        BY <1>1, <1>6, <2>1, <3>1, <4>1
    <3>2. CASE ~(e < n)
      <4>1. e = n /\ 1 \in 1..m /\ n # 0
        BY <1>1, <2>1, <2>4, <3>2
      <4>2. Inked(u, n)
        <5>1. s = e \/ e \in (s + 1)..e
          BY <1>1, <2>1
        <5> QED
          BY <2>1, <4>1, <5>1
      <4>3. u # <<>> /\ v # <<>>
        BY <4>1 DEF n, m
      <4>4. ~Inked(v, 1)
        BY <4>2, <4>3 DEF Apart, n
      <4> QED
        BY <1>1, <4>1, <4>4
    <3> QED
      BY <3>1, <3>2
  <2> QED
    BY <2>1, <2>2, <2>3, <2>4
<1>19. ASSUME NEW p \in 1..cb
       PROVE  LET q == ca + p
              IN  /\ sp[q].start = at[q] /\ sp[q].start <= sp[q].end
                  /\ \A j \in (sp[q].start + 1)..sp[q].end : Inked(w, j) /\ j \notin S
                  /\ sp[q].end < n + m => ~Inked(w, sp[q].end + 1) \/ sp[q].end + 1 \in S
  <2> DEFINE s == B[p].start
             e == B[p].end
             q == ca + p
  <2>1. /\ s \in 1..m /\ e \in 1..m /\ s = b[p] /\ s <= e
        /\ \A j \in (s + 1)..e : Inked(v, j) /\ j \notin Sv
        /\ e < m => ~Inked(v, e + 1) \/ e + 1 \in Sv
    BY <1>5, <1>8
  <2>2. sp[q].start = n + s /\ sp[q].end = n + e /\ at[q] = n + b[p]
    <3>1. sp[q] = [start |-> n + s, end |-> n + e] /\ at[q] = n + b[p]
      BY <1>11
    <3> HIDE DEF s, e, q
    <3> QED
      BY <3>1
  <2> HIDE DEF s, e, q
  <2>3. \A j \in (n + s + 1)..(n + e) : Inked(w, j) /\ j \notin S
    <3>1. ASSUME NEW j \in (n + s + 1)..(n + e) PROVE Inked(w, j) /\ j \notin S
      <4>1. j - n \in (s + 1)..e /\ j - n \in 1..m /\ j = n + (j - n)
        <5>1. s \in Int /\ e \in Int /\ n \in Int /\ m \in Int /\ j \in Int
              /\ 1 <= s /\ e <= m /\ n + s + 1 <= j /\ j <= n + e
          BY <1>1, <2>1, <3>1
        <5> QED
          BY <5>1
      <4> DEFINE i == j - n
      <4>2. i \in (s + 1)..e /\ i \in 1..m /\ j = n + i
        BY <4>1
      <4> HIDE DEF i
      <4> QED
        BY <1>1, <1>6, <2>1, <4>2
    <3> QED
      BY <3>1
  <2>4. ASSUME n + e < n + m PROVE ~Inked(w, n + e + 1) \/ n + e + 1 \in S
    <3>1. e + 1 \in 1..m /\ e < m /\ n + e + 1 = n + (e + 1)
      <4>1. e \in Int /\ n \in Int /\ m \in Int /\ 1 <= e
        BY <1>1, <2>1
      <4>2. e < m
        BY <2>4, <4>1
      <4> QED
        BY <4>1, <4>2
    <3> QED
      BY <1>1, <1>6, <2>1, <3>1
  <2>5. n + s <= n + e
    BY <1>1, <2>1
  <2>6. /\ sp[q].start = at[q] /\ sp[q].start <= sp[q].end
        /\ \A j \in (sp[q].start + 1)..sp[q].end : Inked(w, j) /\ j \notin S
        /\ sp[q].end < n + m => ~Inked(w, sp[q].end + 1) \/ sp[q].end + 1 \in S
    BY <2>1, <2>2, <2>3, <2>4, <2>5
  <2> QED
    BY <2>6 DEF q
<1>20. Spans(w, S) = sp
  <2>1. \A p \in 1..(ca + cb) :
          /\ sp[p].start = at[p] /\ sp[p].start <= sp[p].end
          /\ \A j \in (sp[p].start + 1)..sp[p].end : Inked(w, j) /\ j \notin S
          /\ sp[p].end < n + m => ~Inked(w, sp[p].end + 1) \/ sp[p].end + 1 \in S
    BY <1>12, <1>18, <1>19
  <2>2. sp \in Seq([start : 1..Len(w), end : 1..Len(w)])
    BY <1>1, <1>17 DEF R
  <2>3. Lists(at, Cardinality(S), S) /\ Len(sp) = Cardinality(S)
    BY <1>15, <1>17
  <2>4. \A p \in 1..Len(sp) :
          /\ sp[p].start = at[p] /\ sp[p].start <= sp[p].end
          /\ \A j \in (sp[p].start + 1)..sp[p].end : Inked(w, j) /\ j \notin S
          /\ sp[p].end < Len(w) => ~Inked(w, sp[p].end + 1) \/ sp[p].end + 1 \in S
    BY <1>1, <1>17, <2>1
  <2>5. SpansAt(w, S, at, sp)
    BY <2>2, <2>3, <2>4 DEF SpansAt
  <2>6. S \in SUBSET (DOMAIN w)
    BY <1>1, <1>6
  <2> QED
    BY <1>1, <2>5, <2>6, SpansUnique
<1>21. ASSUME NEW p \in 1..ca PROVE Text(w, sp[p]) = Text(u, A[p])
  <2> DEFINE s == A[p].start
             e == A[p].end
             x == SubSeq(w, s, e)
             y == SubSeq(u, s, e)
  <2>1. s \in 1..n /\ e \in 1..n /\ s <= e /\ sp[p] = A[p] /\ s \in Nat /\ e \in Nat
    BY <1>1, <1>4, <1>7, <1>11
  <2>2. Text(w, sp[p]) = x /\ Text(u, A[p]) = y
    BY <2>1 DEF Text
  <2> HIDE DEF s, e
  <2>3. s \in Int /\ e \in Int /\ s >= 1 /\ e <= Len(w) /\ e <= Len(u)
    BY <1>1, <2>1 DEF n
  <2>4. /\ x \in Seq(E) /\ y \in Seq(E) /\ Len(x) = e - s + 1 /\ Len(y) = e - s + 1
        /\ \A k \in 1..(e - s + 1) : x[k] = w[s + k - 1]
        /\ \A k \in 1..(e - s + 1) : y[k] = u[s + k - 1]
    <3>1. x \in Seq(E) /\ Len(x) = e - s + 1 /\ \A k \in 1..(e - s + 1) : x[k] = w[s + k - 1]
      <4>1. w \in Seq(E)
        BY <1>1
      <4>2. /\ x \in Seq(E) /\ Len(x) = IF s <= e THEN e - s + 1 ELSE 0
            /\ \A k \in 1..(e - s + 1) : x[k] = w[s + k - 1]
        BY <2>3, <4>1, PartOfText, SMTT(30)
      <4> QED
        BY <2>1, <4>2
    <3>2. y \in Seq(E) /\ Len(y) = e - s + 1 /\ \A k \in 1..(e - s + 1) : y[k] = u[s + k - 1]
      <4>1. /\ y \in Seq(E) /\ Len(y) = IF s <= e THEN e - s + 1 ELSE 0
            /\ \A k \in 1..(e - s + 1) : y[k] = u[s + k - 1]
        BY <2>3, PartOfText
      <4> QED
        BY <2>1, <4>1
    <3> QED
      BY <3>1, <3>2
  <2> HIDE DEF x, y
  <2>5. \A k \in 1..(e - s + 1) : x[k] = y[k]
    <3>1. ASSUME NEW k \in 1..(e - s + 1) PROVE x[k] = y[k]
      <4>1. s + k - 1 \in 1..n
        BY <1>1, <2>1
      <4> QED
        BY <1>1, <2>4, <4>1
    <3> QED
      BY <3>1
  <2>6. x = y
    BY <2>4, <2>5, SeqEqual
  <2> QED
    BY <2>2, <2>6
<1>22. ASSUME NEW p \in 1..cb PROVE Text(w, sp[ca + p]) = Text(v, B[p])
  <2> DEFINE s == B[p].start
             e == B[p].end
             x == SubSeq(w, n + s, n + e)
             y == SubSeq(v, s, e)
  <2>1. s \in 1..m /\ e \in 1..m /\ s <= e /\ sp[ca + p] = moved(B[p]) /\ s \in Nat /\ e \in Nat
    <3>1. s \in 1..m /\ e \in 1..m
      BY <1>8
    <3>2. s <= e
      BY <1>5
    <3>3. sp[ca + p] = moved(B[p])
      BY <1>11
    <3> HIDE DEF s, e, sp, moved
    <3> QED
      BY <1>1, <3>1, <3>2, <3>3
  <2>2. Text(w, sp[ca + p]) = x /\ Text(v, B[p]) = y
    <3>1. sp[ca + p].start = n + s /\ sp[ca + p].end = n + e
      <4>1. sp[ca + p] = [start |-> n + s, end |-> n + e]
        BY <2>1
      <4> HIDE DEF s, e
      <4> QED
        BY <4>1
    <3> QED
      BY <3>1 DEF Text
  <2> HIDE DEF s, e
  <2>3. /\ s \in Int /\ e \in Int /\ s >= 1 /\ e <= Len(v)
        /\ n + s \in Int /\ n + e \in Int /\ n + s >= 1 /\ n + e <= Len(w)
        /\ n + e - (n + s) + 1 = e - s + 1
    BY <1>1, <2>1 DEF m
  <2>4. y \in Seq(E) /\ Len(y) = e - s + 1 /\ \A k \in 1..(e - s + 1) : y[k] = v[s + k - 1]
    <3>1. s \in Int /\ e \in Int /\ s >= 1 /\ e <= Len(v) /\ s <= e
      BY <2>1, <2>3
    <3> QED
      BY <3>1, PartOfText
  <2>5. x \in Seq(E) /\ Len(x) = e - s + 1 /\ \A k \in 1..(e - s + 1) : x[k] = w[n + s + k - 1]
    <3> DEFINE g == n + s
               h == n + e
    <3>1. g \in Int /\ h \in Int /\ g >= 1 /\ h <= Len(w) /\ g <= h /\ h - g + 1 = e - s + 1
      BY <1>1, <2>1, <2>3
    <3> HIDE DEF g, h
    <3>2. /\ SubSeq(w, g, h) \in Seq(E)
          /\ Len(SubSeq(w, g, h)) = IF g <= h THEN h - g + 1 ELSE 0
          /\ \A k \in 1..(h - g + 1) : SubSeq(w, g, h)[k] = w[g + k - 1]
      <4>1. w \in Seq(E)
        BY <1>1
      <4> QED
        BY <3>1, <4>1, PartOfText
    <3>3. /\ SubSeq(w, g, h) \in Seq(E) /\ Len(SubSeq(w, g, h)) = e - s + 1
          /\ \A k \in 1..(e - s + 1) : SubSeq(w, g, h)[k] = w[g + k - 1]
      BY <3>1, <3>2
    <3> QED
      BY <3>3 DEF g, h
  <2> HIDE DEF x, y
  <2>6. \A k \in 1..(e - s + 1) : x[k] = y[k]
    <3>1. ASSUME NEW k \in 1..(e - s + 1) PROVE x[k] = y[k]
      <4>1. s + k - 1 \in 1..m /\ n + s + k - 1 = n + (s + k - 1)
        BY <1>1, <2>1
      <4> QED
        BY <1>1, <2>4, <2>5, <4>1
    <3> QED
      BY <3>1
  <2>7. x = y
    BY <2>4, <2>5, <2>6, SeqEqual
  <2> QED
    BY <2>2, <2>7
<1> DEFINE t == Texts(w, sp)
           tu == Texts(u, A)
           tv == Texts(v, B)
           X == Seq(E)
<1>23. /\ tu \in Seq(X) /\ Len(tu) = ca /\ \A p \in 1..ca : tu[p] = Text(u, A[p])
       /\ tv \in Seq(X) /\ Len(tv) = cb /\ \A p \in 1..cb : tv[p] = Text(v, B[p])
  <2> DEFINE P(line, spans) == /\ Texts(line, spans) \in Seq(X)
                               /\ Len(Texts(line, spans)) = Len(spans)
                               /\ \A p \in 1..Len(spans) : Texts(line, spans)[p] = Text(line, spans[p])
  <2>1. P(u, Spans(u, Su))
    BY <1>0, TextsType
  <2>2. P(v, Spans(v, Sv))
    BY <1>0, TextsType
  <2>3. P(u, A) /\ P(v, B)
    BY <2>1, <2>2 DEF A, B
  <2> QED
    BY <1>4, <1>5, <2>3
<1>24. t \in Seq(X) /\ Len(t) = ca + cb /\ \A p \in 1..(ca + cb) : t[p] = Text(w, sp[p])
  <2>1. S \in SUBSET (DOMAIN w)
    BY <1>1, <1>6
  <2> DEFINE ss == Spans(w, S)
  <2>2. /\ Texts(w, ss) \in Seq(X) /\ Len(Texts(w, ss)) = Len(ss)
        /\ \A p \in 1..Len(ss) : Texts(w, ss)[p] = Text(w, ss[p])
    BY <1>1, <2>1, TextsType
  <2>3. ss = sp
    BY <1>20
  <2> HIDE DEF ss
  <2> QED
    BY <1>17, <2>2, <2>3
<1> HIDE DEF t, tu, tv, X
<1>25. tu \o tv \in Seq(X) /\ Joined(tu \o tv, tu, tv)
  BY <1>23, JoinedAt
<1>26. \A p \in 1..(ca + cb) : t[p] = (tu \o tv)[p]
  <2>1. ASSUME NEW p \in 1..ca PROVE t[p] = (tu \o tv)[p]
    <3>1. (tu \o tv)[p] = tu[p]
      BY <1>23, <1>25 DEF Joined
    <3> QED
      BY <1>11, <1>21, <1>23, <1>24, <3>1
  <2>2. ASSUME NEW p \in 1..cb PROVE t[ca + p] = (tu \o tv)[ca + p]
    <3>1. (tu \o tv)[ca + p] = tv[p]
      BY <1>23, <1>25 DEF Joined
    <3>2. ca + p \in 1..(ca + cb)
      BY <1>11
    <3>3. t[ca + p] = Text(w, sp[ca + p]) /\ Text(w, sp[ca + p]) = Text(v, B[p])
      BY <1>22, <1>24, <3>2
    <3>4. tv[p] = Text(v, B[p])
      BY <1>23
    <3> QED
      BY <3>1, <3>3, <3>4
  <2> QED
    BY <1>12, <2>1, <2>2
<1>27. t = tu \o tv
  <2>1. Len(tu \o tv) = ca + cb
    BY <1>23, <1>25 DEF Joined
  <2> QED
    BY <1>24, <1>25, <1>26, <2>1, SeqEqual
<1> QED
  BY <1>20, <1>27 DEF t, tu, tv, w, S, A, B, n

-----------------------------------------------------------------------------
(* Where the characters of two texts stand in the whole.                   *)
LEMMA WholeAt ==
  ASSUME NEW E, NEW u \in Seq(E), NEW v \in Seq(E)
  PROVE  /\ u \o v \in Seq(E) /\ Len(u) \in Nat /\ Len(v) \in Nat
         /\ Len(u \o v) = Len(u) + Len(v)
         /\ \A i \in 1..Len(u) : (u \o v)[i] = u[i] /\ Inked(u \o v, i) = Inked(u, i)
         /\ \A i \in 1..Len(v) : /\ (u \o v)[Len(u) + i] = v[i]
                                 /\ Inked(u \o v, Len(u) + i) = Inked(v, i)
  BY JoinedAt DEF Joined, Inked

(* Every place is in the one or in the other.                              *)
LEMMA PlaceIn ==
  ASSUME NEW n \in Nat, NEW m \in Nat, NEW i \in 1..(n + m)
  PROVE  i \in 1..n \/ \E j \in 1..m : i = n + j
<1>1. i \notin 1..n => i - n \in 1..m /\ i = n + (i - n)
  OBVIOUS
<1> QED
  BY <1>1

(* The words of two texts apart start where those of the one and of the    *)
(* other start.                                                            *)
LEMMA WordStartsAppend ==
  ASSUME NEW E, NEW u \in Seq(E), NEW v \in Seq(E), Apart(u, v)
  PROVE  WordStarts(u \o v) = WordStarts(u) \cup Shifted(WordStarts(v), Len(u))
<1> DEFINE n == Len(u)
           m == Len(v)
           w == u \o v
           first(line, i) == i > 1 => ~Inked(line, i - 1)
<1>1. /\ w \in Seq(E) /\ n \in Nat /\ m \in Nat /\ Len(w) = n + m
      /\ \A i \in 1..n : Inked(w, i) = Inked(u, i)
      /\ \A i \in 1..m : Inked(w, n + i) = Inked(v, i)
  BY WholeAt
<1>2. n > 0 /\ m > 0 => ~Inked(u, n) \/ ~Inked(v, 1)
  BY DEF Apart
<1>3. /\ WordStarts(w) = {i \in 1..(n + m) : Inked(w, i) /\ first(w, i)}
      /\ WordStarts(u) = {i \in 1..n : Inked(u, i) /\ first(u, i)}
      /\ WordStarts(v) = {i \in 1..m : Inked(v, i) /\ first(v, i)}
  BY <1>1 DEF WordStarts
<1> DEFINE Sw == WordStarts(w)
           Su == WordStarts(u)
           Sv == WordStarts(v)
<1> HIDE DEF n, m, w, Sw, Su, Sv
<1>4. ASSUME NEW i \in 1..n PROVE first(w, i) <=> first(u, i)
  <2>1. i > 1 => i - 1 \in 1..n
    BY <1>1
  <2> QED
    BY <1>1, <2>1
<1>5. ASSUME NEW i \in 1..m, Inked(v, i) PROVE first(w, n + i) <=> first(v, i)
  <2>1. CASE i > 1
    <3>1. i - 1 \in 1..m /\ n + i - 1 = n + (i - 1) /\ n + i > 1
      BY <1>1, <2>1
    <3> QED
      BY <1>1, <2>1, <3>1
  <2>2. CASE i = 1
    <3>1. n > 0 => n \in 1..n /\ ~Inked(u, n)
      BY <1>1, <1>2, <1>5, <2>2
    <3>2. n + i > 1 => n > 0 /\ n + i - 1 = n
      BY <1>1, <2>2
    <3> QED
      BY <1>1, <2>2, <3>1, <3>2
  <2>3. i > 1 \/ i = 1
    OBVIOUS
  <2> QED
    BY <2>1, <2>2, <2>3
<1> HIDE DEF first
<1>6. ASSUME NEW i \in Sw PROVE i \in Su \cup Shifted(Sv, n)
  <2>1. i \in 1..(n + m) /\ Inked(w, i) /\ first(w, i)
    BY <1>3 DEF Sw
  <2>2. CASE i \in 1..n
    BY <1>1, <1>3, <1>4, <2>1, <2>2 DEF Su
  <2>3. CASE i \notin 1..n
    <3>1. PICK j \in 1..m : i = n + j
      BY <1>1, <2>1, <2>3, PlaceIn
    <3>2. Inked(v, j) /\ first(v, j)
      BY <1>1, <1>5, <2>1, <3>1
    <3> QED
      BY <1>3, <3>1, <3>2 DEF Sv, Shifted
  <2> QED
    BY <2>2, <2>3
<1>7. ASSUME NEW i \in Su PROVE i \in Sw
  <2>1. i \in 1..n /\ Inked(u, i) /\ first(u, i)
    BY <1>3 DEF Su
  <2>2. i \in 1..(n + m)
    BY <1>1, <2>1
  <2> QED
    BY <1>1, <1>3, <1>4, <2>1, <2>2 DEF Sw
<1>8. ASSUME NEW j \in Sv PROVE n + j \in Sw
  <2>1. j \in 1..m /\ Inked(v, j) /\ first(v, j)
    BY <1>3 DEF Sv
  <2>2. n + j \in 1..(n + m)
    BY <1>1, <2>1
  <2> QED
    BY <1>1, <1>3, <1>5, <2>1, <2>2 DEF Sw
<1>9. Sw = Su \cup Shifted(Sv, n)
  BY <1>6, <1>7, <1>8 DEF Shifted
<1> QED
  BY <1>9 DEF Sw, Su, Sv, w, n

(* So do the tokens of the lexer.                                          *)
LEMMA LexStartsAppend ==
  ASSUME NEW E, NEW u \in Seq(E), NEW v \in Seq(E), Apart(u, v)
  PROVE  LexStarts(u \o v) = LexStarts(u) \cup Shifted(LexStarts(v), Len(u))
<1> DEFINE n == Len(u)
           m == Len(v)
           w == u \o v
           first(line, i) == i > 1 /\ Kind[line[i]] # "punct" => Kind[line[i]] # Kind[line[i - 1]]
<1>1. /\ w \in Seq(E) /\ n \in Nat /\ m \in Nat /\ Len(w) = n + m
      /\ \A i \in 1..n : w[i] = u[i] /\ Inked(w, i) = Inked(u, i)
      /\ \A i \in 1..m : w[n + i] = v[i] /\ Inked(w, n + i) = Inked(v, i)
  BY WholeAt
<1>2. n > 0 /\ m > 0 => ~Inked(u, n) \/ ~Inked(v, 1)
  BY DEF Apart
<1>3. /\ LexStarts(w) = {i \in 1..(n + m) : Inked(w, i) /\ first(w, i)}
      /\ LexStarts(u) = {i \in 1..n : Inked(u, i) /\ first(u, i)}
      /\ LexStarts(v) = {i \in 1..m : Inked(v, i) /\ first(v, i)}
  <2>1. DOMAIN w = 1..(n + m) /\ DOMAIN u = 1..n /\ DOMAIN v = 1..m
    BY <1>1
  <2>2. \A line : LexStarts(line) = {i \in DOMAIN line : Inked(line, i) /\ first(line, i)}
    BY DEF LexStarts
  <2> HIDE DEF w, n, m, first
  <2> QED
    BY <2>1, <2>2
<1> DEFINE Sw == LexStarts(w)
           Su == LexStarts(u)
           Sv == LexStarts(v)
<1> HIDE DEF n, m, w, Sw, Su, Sv
<1>4. ASSUME NEW i \in 1..n PROVE first(w, i) <=> first(u, i)
  <2>1. i > 1 => i - 1 \in 1..n
    BY <1>1
  <2> QED
    BY <1>1, <2>1
<1>5. ASSUME NEW i \in 1..m, Inked(v, i) PROVE first(w, n + i) <=> first(v, i)
  <2>1. CASE i > 1
    <3>1. i - 1 \in 1..m /\ n + i - 1 = n + (i - 1) /\ n + i > 1
      BY <1>1, <2>1
    <3>2. w[n + i] = v[i] /\ w[n + i - 1] = v[i - 1]
      BY <1>1, <3>1
    <3> QED
      BY <1>1, <2>1, <3>1, <3>2, SMTT(30)
  <2>2. CASE i = 1
    <3>1. n > 0 => n \in 1..n /\ ~Inked(u, n)
      BY <1>1, <1>2, <1>5, <2>2
    <3>2. n + i > 1 => n > 0 /\ n + i - 1 = n
      BY <1>1, <2>2
    <3>3. n > 0 => Kind[w[n]] = "blank" /\ Kind[v[1]] # "blank"
      BY <1>1, <1>5, <2>2, <3>1 DEF Inked
    <3> QED
      BY <1>1, <2>2, <3>2, <3>3
  <2>3. i > 1 \/ i = 1
    OBVIOUS
  <2> QED
    BY <2>1, <2>2, <2>3
<1> HIDE DEF first
<1>6. ASSUME NEW i \in Sw PROVE i \in Su \cup Shifted(Sv, n)
  <2>1. i \in 1..(n + m) /\ Inked(w, i) /\ first(w, i)
    BY <1>3 DEF Sw
  <2>2. CASE i \in 1..n
    BY <1>1, <1>3, <1>4, <2>1, <2>2 DEF Su
  <2>3. CASE i \notin 1..n
    <3>1. PICK j \in 1..m : i = n + j
      BY <1>1, <2>1, <2>3, PlaceIn
    <3>2. Inked(v, j) /\ first(v, j)
      BY <1>1, <1>5, <2>1, <3>1
    <3> QED
      BY <1>3, <3>1, <3>2 DEF Sv, Shifted
  <2> QED
    BY <2>2, <2>3
<1>7. ASSUME NEW i \in Su PROVE i \in Sw
  <2>1. i \in 1..n /\ Inked(u, i) /\ first(u, i)
    BY <1>3 DEF Su
  <2>2. i \in 1..(n + m)
    BY <1>1, <2>1
  <2> QED
    BY <1>1, <1>3, <1>4, <2>1, <2>2 DEF Sw
<1>8. ASSUME NEW j \in Sv PROVE n + j \in Sw
  <2>1. j \in 1..m /\ Inked(v, j) /\ first(v, j)
    BY <1>3 DEF Sv
  <2>2. n + j \in 1..(n + m)
    BY <1>1, <2>1
  <2> QED
    BY <1>1, <1>3, <1>5, <2>1, <2>2 DEF Sw
<1>9. Sw = Su \cup Shifted(Sv, n)
  BY <1>6, <1>7, <1>8 DEF Shifted
<1> QED
  BY <1>9 DEF Sw, Su, Sv, w, n

(* The tokens of two texts apart are those of the one and then those of    *)
(* the other.                                                              *)
LEMMA TokensAppend ==
  ASSUME NEW E, NEW u \in Seq(E), NEW v \in Seq(E), Apart(u, v)
  PROVE  /\ WhitespaceTokens(u \o v) = WhitespaceTokens(u) \o WhitespaceTokens(v)
         /\ Texts(u \o v, Lex(u \o v)) = Texts(u, Lex(u)) \o Texts(v, Lex(v))
<1>1. /\ PlacesOf(WordStarts(u), u) /\ PlacesOf(WordStarts(v), v)
      /\ PlacesOf(LexStarts(u), u) /\ PlacesOf(LexStarts(v), v)
  BY DEF WordStarts, LexStarts, PlacesOf
<1>2. \A line : /\ WhitespaceTokens(line) = Texts(line, Spans(line, WordStarts(line)))
                /\ Lex(line) = Spans(line, LexStarts(line))
  BY DEF WhitespaceTokens, Lex, WordStarts, LexStarts
<1>3. WhitespaceTokens(u \o v) = WhitespaceTokens(u) \o WhitespaceTokens(v)
  <2>1. Texts(u \o v, Spans(u \o v, WordStarts(u) \cup Shifted(WordStarts(v), Len(u))))
          = Texts(u, Spans(u, WordStarts(u))) \o Texts(v, Spans(v, WordStarts(v)))
    BY <1>1, SpansAppend
  <2> QED
    BY <1>2, <2>1, WordStartsAppend
<1>4. Texts(u \o v, Lex(u \o v)) = Texts(u, Lex(u)) \o Texts(v, Lex(v))
  <2>1. Texts(u \o v, Spans(u \o v, LexStarts(u) \cup Shifted(LexStarts(v), Len(u))))
          = Texts(u, Spans(u, LexStarts(u))) \o Texts(v, Spans(v, LexStarts(v)))
    BY <1>1, SpansAppend, SMTT(30)
  <2> QED
    BY <1>2, <2>1, LexStartsAppend
<1> QED
  BY <1>3, <1>4

-----------------------------------------------------------------------------
(* A word: characters, none of them blank.                                 *)
Solid(w) == w # <<>> /\ \A i \in 1..Len(w) : Inked(w, i)

(* It is its only token.                                                   *)
LEMMA SolidWord ==
  ASSUME NEW E, NEW w \in Seq(E), Solid(w)
  PROVE  WhitespaceTokens(w) = << w >>
<1> DEFINE n == Len(w)
           at == << 1 >>
           r == [start |-> 1, end |-> n]
           sp == << r >>
           R == [start : 1..n, end : 1..n]
<1>1. n \in Nat /\ n >= 1 /\ DOMAIN w = 1..n /\ \A i \in 1..n : Inked(w, i)
  BY DEF Solid
<1>2. WordStarts(w) = {1}
  <2>1. \A i \in 1..n : i # 1 => i > 1 /\ i - 1 \in 1..n
    BY <1>1
  <2> HIDE DEF n
  <2>2. 1 \in WordStarts(w)
    BY <1>1 DEF WordStarts
  <2>3. \A i \in WordStarts(w) : i = 1
    BY <1>1, <2>1 DEF WordStarts
  <2> QED
    BY <2>2, <2>3
<1>3. Upwards(at, 1, {1})
  BY DEF Upwards
<1>4. Lists(at, 1, {1}) /\ Cardinality({1}) = 1
  BY <1>3, UpwardsLists, FS_Singleton
<1>5. r \in R /\ r.start = 1 /\ r.end = n
  BY <1>1
<1> HIDE DEF n, R, r
<1>6. sp \in Seq(R) /\ Len(sp) = 1 /\ sp[1] = r
  BY <1>5
<1>7. \A j \in 2..n : Inked(w, j) /\ j \notin {1}
  BY <1>1
<1>8. SpansAt(w, {1}, at, sp)
  <2>1. sp \in Seq([start : 1..Len(w), end : 1..Len(w)])
    BY <1>6 DEF n, R
  <2>2. ASSUME NEW p \in 1..Len(sp)
        PROVE  /\ sp[p].start = at[p] /\ sp[p].start <= sp[p].end
               /\ \A j \in (sp[p].start + 1)..sp[p].end : Inked(w, j) /\ j \notin {1}
               /\ sp[p].end < Len(w) => ~Inked(w, sp[p].end + 1) \/ sp[p].end + 1 \in {1}
    <3>1. p = 1 /\ sp[p] = r
      BY <1>6
    <3>2. sp[p].start = 1 /\ sp[p].end = n /\ at[p] = 1 /\ 1 + 1 = 2
      BY <1>5, <3>1
    <3>3. ~(n < Len(w))
      BY <1>1 DEF n
    <3> HIDE DEF sp, at
    <3> QED
      BY <1>1, <1>7, <3>2, <3>3
  <2> QED
    BY <1>4, <1>6, <2>1, <2>2 DEF SpansAt
<1>9. Spans(w, {1}) = sp
  <2>1. {1} \in SUBSET (DOMAIN w)
    BY <1>1
  <2> QED
    BY <1>8, <2>1, SpansUnique
<1>10. Text(w, r) = w
  <2>1. Text(w, r) = SubSeq(w, 1, Len(w))
    BY <1>5 DEF Text, n
  <2> QED
    BY <2>1
<1>11. Texts(w, sp) = << w >>
  <2>1. DOMAIN sp = {1}
    BY <1>6
  <2>2. Texts(w, sp) = [p \in {1} |-> Text(w, sp[p])]
    BY <2>1 DEF Texts
  <2>3. [p \in {1} |-> Text(w, sp[p])] = [p \in {1} |-> w]
    BY <1>6, <1>10
  <2>4. [p \in {1} |-> w] = << w >>
    OBVIOUS
  <2> QED
    BY <2>2, <2>3, <2>4
<1> QED
  BY <1>2, <1>9, <1>11 DEF WhitespaceTokens, WordStarts

(* Nothing, and a blank, has no tokens.                                    *)
LEMMA NoTokens ==
  ASSUME NEW E, NEW line \in Seq(E), \A i \in 1..Len(line) : ~Inked(line, i)
  PROVE  WhitespaceTokens(line) = <<>> /\ Texts(line, Lex(line)) = <<>>
<1>1. WordStarts(line) = {} /\ LexStarts(line) = {}
  BY DEF WordStarts, LexStarts
<1>2. Texts(line, Spans(line, {})) = <<>>
  <2> DEFINE sp == Spans(line, {})
             t == Texts(line, sp)
  <2>1. {} \in SUBSET (DOMAIN line)
    OBVIOUS
  <2>2. PICK at : SpansAt(line, {}, at, sp)
    BY <2>1, SpansHold
  <2>3. Len(sp) = 0
    BY <2>2, FS_EmptySet DEF SpansAt
  <2>4. t \in Seq(Seq(E)) /\ Len(t) = Len(sp)
    BY <2>1, TextsType
  <2> HIDE DEF t, sp
  <2> DEFINE X == Seq(E)
  <2>5. t \in Seq(X) /\ Len(t) = 0
    BY <2>3, <2>4
  <2> HIDE DEF X
  <2>6. t = <<>>
    BY <2>5
  <2> QED
    BY <2>6 DEF t, sp
<1>3. WhitespaceTokens(line) = Texts(line, Spans(line, WordStarts(line)))
  BY DEF WhitespaceTokens, WordStarts
<1>4. Lex(line) = Spans(line, LexStarts(line))
  BY DEF Lex, LexStarts
<1> QED
  BY <1>1, <1>2, <1>3, <1>4

(* Tokens are words.                                                       *)
LEMMA TokensAreSolid ==
  ASSUME NEW E, NEW line \in Seq(E), NEW p \in DOMAIN WhitespaceTokens(line)
  PROVE  WhitespaceTokens(line)[p] \in Seq(E) /\ Solid(WhitespaceTokens(line)[p])
<1> DEFINE S == WordStarts(line)
           sp == Spans(line, S)
           t == Texts(line, sp)
           s == sp[p].start
           e == sp[p].end
           R == [start : 1..Len(line), end : 1..Len(line)]
<1>1. WhitespaceTokens(line) = t /\ S \in SUBSET (DOMAIN line) /\ \A i \in S : Inked(line, i)
  BY DEF WhitespaceTokens, WordStarts
<1>2. PICK at : SpansAt(line, S, at, sp)
  BY <1>1, SpansHold
<1>3. t \in Seq(Seq(E)) /\ Len(t) = Len(sp) /\ \A q \in 1..Len(sp) : t[q] = Text(line, sp[q])
  BY <1>1, TextsType
<1>4. Lists(at, Len(sp), S) /\ sp \in Seq(R)
  BY <1>2 DEF SpansAt
<1>5. p \in DOMAIN t
  BY <1>1
<1> HIDE DEF S, sp, t
<1>6. p \in 1..Len(sp) /\ Len(sp) \in Nat
  <2> DEFINE X == Seq(E)
  <2>1. t \in Seq(X)
    BY <1>3
  <2> HIDE DEF X
  <2>2. DOMAIN t = 1..Len(t)
    BY <2>1
  <2> HIDE DEF R
  <2> QED
    BY <1>3, <1>4, <1>5, <2>2
<1>7. sp[p] \in R
  <2> HIDE DEF R
  <2> QED
    BY <1>4, <1>6
<1>8. /\ s \in 1..Len(line) /\ e \in 1..Len(line) /\ s <= e /\ Inked(line, s)
      /\ \A j \in (s + 1)..e : Inked(line, j)
  <2>1. s \in 1..Len(line) /\ e \in 1..Len(line)
    BY <1>7
  <2>2. s = at[p] /\ at[p] \in S
    BY <1>2, <1>4, <1>6 DEF SpansAt, Lists
  <2> QED
    BY <1>1, <1>2, <1>6, <2>1, <2>2 DEF SpansAt
<1>9. t[p] = SubSeq(line, s, e)
  BY <1>3, <1>6 DEF Text
<1> HIDE DEF s, e
<1>10. /\ t[p] \in Seq(E) /\ Len(t[p]) = e - s + 1 /\ Len(t[p]) >= 1
       /\ \A k \in 1..(e - s + 1) : t[p][k] = line[s + k - 1]
  <2>1. s \in Int /\ e \in Int /\ s >= 1 /\ e <= Len(line) /\ s <= e
    BY <1>8
  <2>2. /\ SubSeq(line, s, e) \in Seq(E) /\ Len(SubSeq(line, s, e)) = e - s + 1
        /\ \A k \in 1..(e - s + 1) : SubSeq(line, s, e)[k] = line[s + k - 1]
    BY <2>1, PartOfText
  <2> QED
    BY <1>9, <2>1, <2>2
<1>11. ASSUME NEW k \in 1..Len(t[p]) PROVE Inked(t[p], k)
  <2>1. k = 1 \/ s + k - 1 \in (s + 1)..e
    BY <1>8, <1>10
  <2>2. k = 1 => s + k - 1 = s
    BY <1>8
  <2>3. Inked(line, s + k - 1)
    BY <1>8, <2>1, <2>2
  <2> QED
    BY <1>10, <2>3 DEF Inked
<1>12. t[p] # <<>>
  BY <1>10
<1> QED
  BY <1>1, <1>10, <1>11, <1>12 DEF Solid

-----------------------------------------------------------------------------
(* Induction over the words of a line, from the left; what is blank and    *)
(* what is a word that follows.                                            *)
WordByWord(T, E) ==
  /\ <<>> \in T
  /\ \A u \in Seq(E), c \in E : u \in T /\ Kind[c] = "blank" => u \o << c >> \in T
  /\ \A u \in Seq(E), w \in Seq(E) : u \in T /\ Solid(w) /\ Apart(u, w) => u \o w \in T

(* A set of texts closed under blanks and words holds every text.          *)
LEMMA ByWords ==
  ASSUME NEW E, NEW T, WordByWord(T, E)
  PROVE  Seq(E) \subseteq T
<1> DEFINE U == {n \in Nat : \A line \in Seq(E) : Len(line) <= n => line \in T}
<1>1. 0 \in U
  <2>1. \A line \in Seq(E) : Len(line) <= 0 => line = <<>>
    OBVIOUS
  <2> QED
    BY <2>1 DEF WordByWord
<1>2. ASSUME NEW n \in Nat, n \in U PROVE n + 1 \in U
  <2> SUFFICES ASSUME NEW line \in Seq(E), Len(line) = n + 1 PROVE line \in T
    <3>1. \A line \in Seq(E) : Len(line) <= n + 1 => Len(line) <= n \/ Len(line) = n + 1
      OBVIOUS
    <3> QED
      BY <1>2, <3>1
  <2> DEFINE m == n + 1
             L == Len(line)
  <2>1. L = m /\ m \in Nat /\ m >= 1
    OBVIOUS
  <2>2. \A k \in 0..n : SubSeq(line, 1, k) \in Seq(E) /\ Len(SubSeq(line, 1, k)) = k
    <3>1. ASSUME NEW k \in 0..n
          PROVE  SubSeq(line, 1, k) \in Seq(E) /\ Len(SubSeq(line, 1, k)) = k
      <4>1. k \in Int /\ 1 \in Int /\ k <= Len(line) /\ k >= 0
        OBVIOUS
      <4>2. /\ SubSeq(line, 1, k) \in Seq(E)
            /\ Len(SubSeq(line, 1, k)) = IF 1 <= k THEN k - 1 + 1 ELSE 0
        BY <4>1, PartOfText
      <4> QED
        BY <4>1, <4>2
    <3> QED
      BY <3>1
  <2>3. ASSUME NEW k \in 0..n PROVE SubSeq(line, 1, k) \in T
    <3> DEFINE u == SubSeq(line, 1, k)
    <3>1. u \in Seq(E) /\ Len(u) <= n
      BY <2>2
    <3> HIDE DEF u
    <3>2. u \in T
      BY <1>2, <3>1
    <3> QED
      BY <3>2 DEF u
  <2>4. CASE ~Inked(line, m)
    <3> DEFINE u == SubSeq(line, 1, n)
               c == line[m]
    <3>1. n \in 0..n /\ m \in 1..L
      BY <2>1
    <3>2. u \in Seq(E) /\ u \in T /\ c \in E
      BY <2>2, <2>3, <3>1
    <3>3. u \o << c >> = line
      OBVIOUS
    <3>4. Kind[c] = "blank"
      BY <2>4 DEF Inked
    <3> HIDE DEF u, c
    <3> QED
      BY <3>2, <3>3, <3>4 DEF WordByWord
  <2>5. CASE Inked(line, m)
    <3> DEFINE Q == {k \in 0..n : \A i \in (k + 1)..m : Inked(line, i)}
    <3>1. Q \subseteq Nat /\ Q # {}
      <4>1. \A i \in (n + 1)..m : i = m
        OBVIOUS
      <4>2. n \in Q
        BY <2>5, <4>1
      <4>3. Q \subseteq 0..n
        OBVIOUS
      <4> HIDE DEF Q
      <4> QED
        BY <4>2, <4>3
    <3>2. PICK k \in Q : \A y \in Q : k <= y
      BY <3>1, LeastNatural
    <3> DEFINE u == SubSeq(line, 1, k)
               w == SubSeq(line, k + 1, m)
    <3>3. k \in 0..n /\ \A i \in (k + 1)..m : Inked(line, i)
      BY <3>2
    <3>4. u \in Seq(E) /\ Len(u) = k /\ u \in T
      BY <2>2, <2>3, <3>3
    <3>5. /\ w \in Seq(E) /\ Len(w) = m - k
          /\ \A i \in 1..(m - k) : w[i] = line[k + i]
      <4> DEFINE g == k + 1
      <4>1. g \in Int /\ m \in Int /\ g >= 1 /\ m <= Len(line) /\ g <= m /\ m - g + 1 = m - k
        BY <2>1, <3>3
      <4> HIDE DEF g, m
      <4>2. /\ SubSeq(line, g, m) \in Seq(E) /\ Len(SubSeq(line, g, m)) = m - g + 1
            /\ \A i \in 1..(m - g + 1) : SubSeq(line, g, m)[i] = line[g + i - 1]
        BY <4>1, PartOfText
      <4>3. \A i \in 1..(m - k) : g + i - 1 = k + i
        BY <3>3 DEF g
      <4> QED
        BY <4>1, <4>2, <4>3 DEF g
    <3>6. u \o w = line
      <4>1. u \o w \in Seq(E) /\ Joined(u \o w, u, w)
        BY <3>4, <3>5, JoinedAt
      <4>2. \A i \in 1..k : u[i] = line[i]
        <5>1. 1 \in Int /\ k \in Int /\ k <= Len(line)
          BY <2>1, <3>3
        <5>2. \A i \in 1..(k - 1 + 1) : u[i] = line[1 + i - 1]
          BY <5>1, PartOfText
        <5> HIDE DEF u
        <5> QED
          BY <3>3, <5>2
      <4> HIDE DEF u, w, m
      <4>3. Len(u \o w) = m
        BY <2>1, <3>3, <3>4, <3>5, <4>1 DEF Joined
      <4>4. ASSUME NEW i \in 1..m PROVE (u \o w)[i] = line[i]
        <5>1. CASE i <= k
          <6>1. i \in 1..k
            BY <3>3, <5>1
          <6> QED
            BY <3>4, <4>1, <4>2, <6>1 DEF Joined
        <5>2. CASE ~(i <= k)
          <6>1. i - k \in 1..(m - k) /\ k + (i - k) = i
            BY <2>1, <3>3, <5>2
          <6>2. (u \o w)[k + (i - k)] = w[i - k] /\ w[i - k] = line[k + (i - k)]
            BY <3>4, <3>5, <4>1, <6>1 DEF Joined
          <6> QED
            BY <6>1, <6>2
        <5> QED
          BY <5>1, <5>2
      <4> QED
        BY <2>1, <4>1, <4>3, <4>4, SeqEqual
    <3>7. Solid(w)
      <4>1. Len(w) >= 1
        BY <2>1, <3>3, <3>5
      <4>2. ASSUME NEW i \in 1..(m - k) PROVE Inked(w, i)
        <5>1. k + i \in (k + 1)..m
          BY <2>1, <3>3
        <5>2. Inked(line, k + i)
          BY <3>3, <5>1
        <5> HIDE DEF w
        <5> QED
          BY <3>5, <5>2 DEF Inked
      <4> HIDE DEF w
      <4> QED
        BY <3>5, <4>1, <4>2 DEF Solid
    <3>8. Apart(u, w)
      <4>1. CASE k = 0
        <5> HIDE DEF u
        <5>1. u = <<>>
          BY <3>4, <4>1
        <5> QED
          BY <5>1 DEF Apart
      <4>2. CASE k # 0
        <5>1. k - 1 \in 0..n /\ (k - 1) + 1 = k /\ k \in 1..k
          BY <3>3, <4>2
        <5>2. k - 1 \notin Q
          BY <3>2, <3>3
        <5>3. ~Inked(line, k)
          <6>1. \A i \in ((k - 1) + 1)..m : i = k \/ i \in (k + 1)..m
            BY <3>3
          <6> QED
            BY <3>3, <5>1, <5>2, <6>1
        <5>4. u[k] = line[k]
          <6>1. 1 \in Int /\ k \in Int /\ k <= Len(line) /\ k \in 1..(k - 1 + 1) /\ 1 + k - 1 = k
            BY <2>1, <3>3, <4>2
          <6>2. \A i \in 1..(k - 1 + 1) : u[i] = line[1 + i - 1]
            BY <6>1, PartOfText
          <6> HIDE DEF u
          <6> QED
            BY <6>1, <6>2
        <5> HIDE DEF u
        <5> QED
          BY <3>4, <5>3, <5>4 DEF Apart, Inked
      <4> QED
        BY <4>1, <4>2
    <3> HIDE DEF u, w
    <3> QED
      BY <3>4, <3>5, <3>6, <3>7, <3>8 DEF WordByWord
  <2> QED
    BY <2>4, <2>5
<1>3. Nat \subseteq U
  <2> HIDE DEF U
  <2> QED
    BY <1>1, <1>2, StepByStep
<1> QED
  <2>1. \A line \in Seq(E) : Len(line) \in Nat /\ Len(line) <= Len(line)
    OBVIOUS
  <2> QED
    BY <1>3, <2>1

(* A function of lines that takes nothing of blanks, and texts apart one   *)
(* after the other.                                                        *)
Additive(F, E, X) ==
  /\ F \in [Seq(E) -> Seq(X)]
  /\ \A u \in Seq(E) : (\A i \in 1..Len(u) : ~Inked(u, i)) => F[u] = <<>>
  /\ \A u, v \in Seq(E) : Apart(u, v) => F[u \o v] = F[u] \o F[v]

OfWords(F, line) ==
  [p \in DOMAIN WhitespaceTokens(line) |-> F[WhitespaceTokens(line)[p]]]

(* What such a function makes of a line is what it makes of its words.     *)
LEMMA FromWords ==
  ASSUME NEW E, NEW X, NEW F, Additive(F, E, X), NEW line \in Seq(E)
  PROVE  F[line] = FlattenSeq(OfWords(F, line))
<1> DEFINE T == {x \in Seq(E) : F[x] = FlattenSeq(OfWords(F, x))}
           Y == Seq(X)
           tok(x) == WhitespaceTokens(x)
<1>1. \A x \in Seq(E) : F[x] \in Y
  BY DEF Additive
<1>2. \A x \in Seq(E) : /\ Len(tok(x)) \in Nat /\ DOMAIN tok(x) = 1..Len(tok(x))
                        /\ tok(x) \in Seq(Seq(E))
                        /\ \A p \in 1..Len(tok(x)) : tok(x)[p] \in Seq(E)
  <2>1. ASSUME NEW x \in Seq(E)
        PROVE  /\ Len(tok(x)) \in Nat /\ DOMAIN tok(x) = 1..Len(tok(x))
               /\ tok(x) \in Seq(Seq(E))
               /\ \A p \in 1..Len(tok(x)) : tok(x)[p] \in Seq(E)
    <3> DEFINE Z == Seq(E)
    <3>1. tok(x) \in Seq(Z)
      BY WordsType
    <3> HIDE DEF tok, Z
    <3>2. /\ Len(tok(x)) \in Nat /\ DOMAIN tok(x) = 1..Len(tok(x))
          /\ \A p \in 1..Len(tok(x)) : tok(x)[p] \in Z
      BY <3>1
    <3> QED
      BY <3>1, <3>2 DEF Z
  <2> QED
    BY <2>1
<1>3. \A x \in Seq(E) : /\ OfWords(F, x) \in Seq(Y) /\ Len(OfWords(F, x)) = Len(tok(x))
                        /\ \A p \in 1..Len(tok(x)) : OfWords(F, x)[p] = F[tok(x)[p]]
  <2>1. ASSUME NEW x \in Seq(E)
        PROVE  /\ OfWords(F, x) \in Seq(Y) /\ Len(OfWords(F, x)) = Len(tok(x))
               /\ \A p \in 1..Len(tok(x)) : OfWords(F, x)[p] = F[tok(x)[p]]
    <3> DEFINE n == Len(tok(x))
    <3>1. OfWords(F, x) = [p \in 1..n |-> F[tok(x)[p]]] /\ n \in Nat
      BY <1>2 DEF OfWords
    <3>2. \A p \in 1..n : F[tok(x)[p]] \in Y
      BY <1>1, <1>2
    <3> HIDE DEF n, Y, tok
    <3>3. /\ OfWords(F, x) \in Seq(Y) /\ Len(OfWords(F, x)) = n
          /\ \A p \in 1..n : OfWords(F, x)[p] = F[tok(x)[p]]
      BY <3>1, <3>2
    <3> QED
      BY <3>3 DEF n
  <2> QED
    BY <2>1
<1>4. <<>> \in T
  <2> DEFINE e == <<>>
  <2>1. e \in Seq(E) /\ \A i \in 1..Len(e) : ~Inked(e, i)
    OBVIOUS
  <2> HIDE DEF e
  <2>2. tok(e) = <<>>
    BY <2>1, NoTokens
  <2>3. F[e] = <<>>
    BY <2>1 DEF Additive
  <2>4. DOMAIN tok(e) = {}
    BY <2>2
  <2>5. OfWords(F, e) = [p \in {} |-> F[tok(e)[p]]]
    BY <2>4 DEF OfWords
  <2>6. [p \in {} |-> F[tok(e)[p]]] = <<>>
    OBVIOUS
  <2>7. FlattenSeq(<<>>) = <<>>
    BY DEF FlattenSeq
  <2> QED
    BY <2>1, <2>3, <2>5, <2>6, <2>7 DEF e
<1>5. ASSUME NEW u \in Seq(E), NEW c \in E, u \in T, Kind[c] = "blank"
      PROVE  u \o << c >> \in T
  <2> DEFINE b == << c >>
  <2>1. b \in Seq(E) /\ Len(b) = 1 /\ b[1] = c
    OBVIOUS
  <2> HIDE DEF b
  <2>2. \A i \in 1..Len(b) : ~Inked(b, i)
    BY <1>5, <2>1 DEF Inked
  <2>3. Apart(u, b)
    BY <2>1, <2>2 DEF Apart
  <2>4. tok(b) = <<>> /\ F[b] = <<>>
    BY <2>1, <2>2, NoTokens DEF Additive
  <2>5. tok(u \o b) = tok(u)
    <3>1. tok(u \o b) = tok(u) \o <<>>
      BY <2>1, <2>3, <2>4, TokensAppend
    <3>2. \A s \in Seq(Seq(E)) : s \o <<>> = s
      OBVIOUS
    <3> QED
      BY <1>2, <3>1, <3>2
  <2>6. F[u \o b] = F[u]
    <3>1. F[u \o b] = F[u] \o <<>>
      BY <2>1, <2>3, <2>4 DEF Additive
    <3>2. \A s \in Seq(X) : s \o <<>> = s
      OBVIOUS
    <3> QED
      BY <1>1, <3>1, <3>2
  <2>7. OfWords(F, u \o b) = OfWords(F, u)
    BY <2>5 DEF OfWords
  <2>8. u \o b \in Seq(E)
    BY <2>1
  <2> QED
    BY <1>5, <2>6, <2>7, <2>8 DEF b
<1>6. ASSUME NEW u \in Seq(E), NEW w \in Seq(E), u \in T, Solid(w), Apart(u, w)
      PROVE  u \o w \in T
  <2> DEFINE n == Len(tok(u))
             uw == u \o w
             a == OfWords(F, u)
             b == OfWords(F, uw)
  <2>1. uw \in Seq(E)
    OBVIOUS
  <2>2. tok(uw) = tok(u) \o << w >>
    BY <1>6, TokensAppend, SolidWord
  <2>3. /\ n \in Nat /\ Len(tok(uw)) = n + 1 /\ tok(uw)[n + 1] = w
        /\ \A p \in 1..n : tok(uw)[p] = tok(u)[p]
    <3> DEFINE Z == Seq(E)
    <3>1. tok(u) \in Seq(Z) /\ << w >> \in Seq(Z) /\ n \in Nat /\ Len(<< w >>) = 1 /\ << w >>[1] = w
      BY <1>2
    <3> HIDE DEF Z
    <3>2. Joined(tok(u) \o << w >>, tok(u), << w >>)
      BY <3>1, JoinedAt
    <3> HIDE DEF tok
    <3> QED
      BY <2>2, <3>1, <3>2 DEF Joined
  <2>4. F[uw] = F[u] \o F[w]
    BY <1>6 DEF Additive
  <2>5. F[u] = FlattenSeq(a)
    BY <1>6
  <2>6. /\ a \in Seq(Y) /\ Len(a) = n /\ \A p \in 1..n : a[p] = F[tok(u)[p]]
    BY <1>3
  <2>7. /\ b \in Seq(Y) /\ Len(b) = n + 1 /\ \A p \in 1..(n + 1) : b[p] = F[tok(uw)[p]]
    BY <1>3, <2>1, <2>3
  <2>8. F[w] \in Y
    BY <1>1
  <2> HIDE DEF a, b, uw, n, tok, Y
  <2>9. b = Append(a, F[w])
    <3>1. /\ Append(a, F[w]) \in Seq(Y) /\ Len(Append(a, F[w])) = n + 1
          /\ Append(a, F[w])[n + 1] = F[w] /\ \A p \in 1..n : Append(a, F[w])[p] = a[p]
      BY <2>6, <2>8, AppendProperties
    <3>2. ASSUME NEW p \in 1..(n + 1) PROVE b[p] = Append(a, F[w])[p]
      <4>1. p = n + 1 \/ p \in 1..n
        BY <2>3
      <4> QED
        BY <2>3, <2>6, <2>7, <3>1, <4>1, SMTT(30)
    <3> QED
      BY <2>7, <3>1, <3>2, SeqEqual
  <2>10. FlattenSeq(Append(a, F[w])) = FlattenSeq(a) \o F[w]
    BY <2>6, <2>8, FlattenAppends DEF Y
  <2>11. F[uw] = FlattenSeq(b)
    BY <2>4, <2>5, <2>9, <2>10
  <2> QED
    BY <2>1, <2>11 DEF b, uw
<1> HIDE DEF T
<1>7. WordByWord(T, E)
  BY <1>4, <1>5, <1>6 DEF WordByWord
<1>8. line \in T
  BY <1>7, ByWords
<1> QED
  BY <1>8 DEF T

(* So it makes the same of lines of whose words it makes the same.         *)
LEMMA WordsDecide ==
  ASSUME NEW E, NEW X, NEW F, Additive(F, E, X), NEW x \in Seq(E), NEW y \in Seq(E),
         OfWords(F, x) = OfWords(F, y)
  PROVE  F[x] = F[y]
BY FromWords

(* The tokens of the lexer are made of the words.                          *)
LexTexts(E) == [line \in Seq(E) |-> Texts(line, Lex(line))]

(* The lexer takes texts apart one after the other.                        *)
LEMMA LexIsAdditive ==
  ASSUME NEW E
  PROVE  Additive(LexTexts(E), E, Seq(E))
<1>1. LexTexts(E) \in [Seq(E) -> Seq(Seq(E))]
  <2>1. \A line \in Seq(E) : Texts(line, Lex(line)) \in Seq(Seq(E))
    BY LexSpans
  <2> QED
    BY <2>1 DEF LexTexts
<1>2. ASSUME NEW u \in Seq(E), \A i \in 1..Len(u) : ~Inked(u, i)
      PROVE  LexTexts(E)[u] = <<>>
  BY <1>2, NoTokens DEF LexTexts
<1>3. ASSUME NEW u \in Seq(E), NEW v \in Seq(E), Apart(u, v)
      PROVE  LexTexts(E)[u \o v] = LexTexts(E)[u] \o LexTexts(E)[v]
  <2>1. u \o v \in Seq(E)
    OBVIOUS
  <2> QED
    BY <1>3, <2>1, TokensAppend DEF LexTexts
<1> QED
  BY <1>1, <1>2, <1>3 DEF Additive

(* The tokens between blanks of what is made of a line, place by place of  *)
(* texts apart.                                                            *)
Distributes(G, E) ==
  /\ G \in [Seq(E) -> Seq(E)]
  /\ \A u \in Seq(E) : (\A i \in 1..Len(u) : ~Inked(u, i)) =>
       \A i \in 1..Len(G[u]) : ~Inked(G[u], i)
  /\ \A u, v \in Seq(E) : Apart(u, v) => G[u \o v] = G[u] \o G[v] /\ Apart(G[u], G[v])

Worded(G, E) == [line \in Seq(E) |-> WhitespaceTokens(G[line])]

(* The words are then those of the one and those of the other.             *)
LEMMA WordedIsAdditive ==
  ASSUME NEW E, NEW G, Distributes(G, E)
  PROVE  Additive(Worded(G, E), E, Seq(E))
<1>0. \A u \in Seq(E) : G[u] \in Seq(E)
  BY DEF Distributes
<1>1. Worded(G, E) \in [Seq(E) -> Seq(Seq(E))]
  <2>1. \A line \in Seq(E) : WhitespaceTokens(G[line]) \in Seq(Seq(E))
    BY <1>0, WordsType
  <2> QED
    BY <2>1 DEF Worded
<1>2. ASSUME NEW u \in Seq(E), \A i \in 1..Len(u) : ~Inked(u, i)
      PROVE  Worded(G, E)[u] = <<>>
  <2>1. \A i \in 1..Len(G[u]) : ~Inked(G[u], i)
    BY <1>2 DEF Distributes
  <2> QED
    BY <1>0, <2>1, NoTokens DEF Worded
<1>3. ASSUME NEW u \in Seq(E), NEW v \in Seq(E), Apart(u, v)
      PROVE  Worded(G, E)[u \o v] = Worded(G, E)[u] \o Worded(G, E)[v]
  <2>1. u \o v \in Seq(E)
    OBVIOUS
  <2>2. G[u \o v] = G[u] \o G[v] /\ Apart(G[u], G[v])
    BY <1>3 DEF Distributes
  <2>3. WhitespaceTokens(G[u] \o G[v]) = WhitespaceTokens(G[u]) \o WhitespaceTokens(G[v])
    BY <1>0, <2>2, TokensAppend
  <2> QED
    BY <2>1, <2>2, <2>3 DEF Worded
<1> QED
  BY <1>1, <1>2, <1>3 DEF Additive

(* One after the other.                                                    *)
Composed(G, H, E) == [line \in Seq(E) |-> H[G[line]]]

(* One such step after the other is such a step.                           *)
LEMMA DistributesComposed ==
  ASSUME NEW E, NEW G, NEW H, Distributes(G, E), Distributes(H, E)
  PROVE  Distributes(Composed(G, H, E), E)
<1> DEFINE C == Composed(G, H, E)
<1>0. /\ \A u \in Seq(E) : G[u] \in Seq(E) /\ H[u] \in Seq(E)
      /\ \A u \in Seq(E) : C[u] = H[G[u]]
  BY DEF Distributes, Composed
<1>1. C \in [Seq(E) -> Seq(E)]
  BY <1>0 DEF Composed
<1> HIDE DEF C
<1>2. ASSUME NEW u \in Seq(E), \A i \in 1..Len(u) : ~Inked(u, i)
      PROVE  \A i \in 1..Len(C[u]) : ~Inked(C[u], i)
  <2>1. \A i \in 1..Len(G[u]) : ~Inked(G[u], i)
    BY <1>2 DEF Distributes
  <2>2. \A i \in 1..Len(H[G[u]]) : ~Inked(H[G[u]], i)
    BY <1>0, <2>1 DEF Distributes
  <2> QED
    BY <1>0, <2>2
<1>3. ASSUME NEW u \in Seq(E), NEW v \in Seq(E), Apart(u, v)
      PROVE  C[u \o v] = C[u] \o C[v] /\ Apart(C[u], C[v])
  <2>1. u \o v \in Seq(E)
    OBVIOUS
  <2>2. G[u \o v] = G[u] \o G[v] /\ Apart(G[u], G[v])
    BY <1>3 DEF Distributes
  <2>3. H[G[u] \o G[v]] = H[G[u]] \o H[G[v]] /\ Apart(H[G[u]], H[G[v]])
    BY <1>0, <2>2 DEF Distributes
  <2> QED
    BY <1>0, <2>1, <2>2, <2>3
<1> QED
  BY <1>1, <1>2, <1>3 DEF Distributes, C

-----------------------------------------------------------------------------
(* What is replaced.                                                       *)

(* The places where the matches that start at a place can end.             *)
EndsOf(ends, line) == \A i \in 1..Len(line) : ends[i] \subseteq i..Len(line)

(* The equations of replace_all.                                           *)
ReplaceStep(from, line, ends, mask, i) ==
  IF i > Len(line) THEN <<>>
  ELSE IF ends[i] = {} THEN << line[i] >> \o from[i + 1]
  ELSE << mask >> \o from[Max(ends[i]) + 1]

(* How much is left of a line.                                             *)
Ahead(n) == [i \in 1..(n + 1) |-> n + 1 - i]

(* It ranks the places.                                                    *)
LEMMA AheadRanks ==
  ASSUME NEW n \in Nat
  PROVE  Ranked(1..(n + 1), Ahead(n), n) /\ \A i \in 1..(n + 1) : Ahead(n)[i] = n + 1 - i
<1>1. \A i \in 1..(n + 1) : n + 1 - i \in 0..n
  OBVIOUS
<1> QED
  BY <1>1 DEF Ahead, Ranked

(* The longest match.                                                      *)
LEMMA LongestEnd ==
  ASSUME NEW E, NEW line \in Seq(E), NEW ends, EndsOf(ends, line),
         NEW i \in 1..Len(line), ends[i] # {}
  PROVE  /\ Max(ends[i]) \in ends[i] /\ Max(ends[i]) \in i..Len(line)
         /\ \A e \in ends[i] : e <= Max(ends[i])
<1> DEFINE S == ends[i]
           m == Len(line)
<1>1. m \in Int /\ i \in Int /\ S \in SUBSET (i..m) /\ S # {}
  BY DEF EndsOf
<1> HIDE DEF S, m
<1>2. IsFiniteSet(i..m)
  BY <1>1, FS_Interval
<1>3. IsFiniteSet(S) /\ S \subseteq Int
  <2>1. S \in SUBSET (i..m) /\ S \subseteq Int
    BY <1>1
  <2>2. IsFiniteSet(S)
    BY <1>2, <2>1, FS_Subset
  <2> QED
    BY <2>1, <2>2
<1>4. Max(S) \in S /\ \A e \in S : e <= Max(S)
  BY <1>1, <1>3, FiniteSetsAreBounded
<1> QED
  BY <1>1, <1>4 DEF S, m

Replacing(from, line, ends, mask, E) ==
  /\ from \in [1..(Len(line) + 1) -> Seq(E)]
  /\ from[1] = ReplaceMatches(line, ends, mask)
  /\ \A i \in 1..(Len(line) + 1) : from[i] = ReplaceStep(from, line, ends, mask, i)

(* ReplaceMatches follows its equations.                                   *)
LEMMA ReplacesFollow ==
  ASSUME NEW E, NEW line \in Seq(E), NEW mask \in E, NEW ends, EndsOf(ends, line)
  PROVE  \E from : Replacing(from, line, ends, mask, E)
<1> DEFINE n == Len(line)
           D == 1..(n + 1)
           rank == Ahead(n)
           V == Seq(E)
           Step(f, i) == ReplaceStep(f, line, ends, mask, i)
           Body(f, i) ==
             IF i > Len(line) THEN <<>>
             ELSE IF ends[i] = {} THEN << line[i] >> \o f[i + 1]
             ELSE << mask >> \o f[Max(ends[i]) + 1]
           From(f) == [i \in D |-> Body(f, i)]
           step == [q \in D \X [D -> V] |-> Step(q[2], q[1])]
<1>1. ReplaceMatches(line, ends, mask) = (CHOOSE f : f = From(f))[1]
  BY DEF ReplaceMatches
<1>2. n \in Nat /\ Ranked(D, rank, n) /\ \A i \in D : rank[i] = n + 1 - i
  BY AheadRanks
<1>3. \A f, i : Body(f, i) = Step(f, i)
  BY DEF ReplaceStep
<1> HIDE DEF Body
<1>4. ASSUME NEW i \in D, i <= n, ends[i] # {}
      PROVE  Max(ends[i]) + 1 \in D /\ rank[Max(ends[i]) + 1] < rank[i]
  <2>1. i \in 1..Len(line)
    BY <1>4
  <2>2. Max(ends[i]) \in i..n
    BY <1>4, <2>1, LongestEnd
  <2> HIDE DEF rank, n
  <2>3. Max(ends[i]) + 1 \in D
    BY <1>2, <2>2
  <2> QED
    BY <1>2, <2>2, <2>3
<1>5. ASSUME NEW i \in D, i <= n PROVE i + 1 \in D /\ rank[i + 1] < rank[i] /\ line[i] \in E
  <2>1. i + 1 \in D /\ line[i] \in E
    BY <1>5
  <2> HIDE DEF rank, n
  <2> QED
    BY <1>2, <2>1
<1>6. ASSUME NEW i \in D, NEW f, \A y \in D : rank[y] < rank[i] => f[y] \in V
      PROVE  Step(f, i) \in V
  <2>1. CASE i > n
    BY <2>1 DEF ReplaceStep
  <2>2. CASE i <= n /\ ends[i] = {}
    <3>1. f[i + 1] \in V /\ line[i] \in E
      BY <1>5, <1>6, <2>2
    <3>2. << line[i] >> \o f[i + 1] \in V
      BY <3>1
    <3> QED
      BY <2>2, <3>2 DEF ReplaceStep
  <2>3. CASE i <= n /\ ends[i] # {}
    <3>1. f[Max(ends[i]) + 1] \in V
      BY <1>4, <1>6, <2>3
    <3>2. << mask >> \o f[Max(ends[i]) + 1] \in V
      BY <3>1
    <3> QED
      BY <2>3, <3>2 DEF ReplaceStep
  <2> QED
    BY <2>1, <2>2, <2>3
<1>7. ASSUME NEW i \in D, NEW f, NEW g, \A y \in D : rank[y] < rank[i] => f[y] = g[y]
      PROVE  Step(f, i) = Step(g, i)
  <2>1. CASE i > n
    BY <2>1 DEF ReplaceStep
  <2>2. CASE i <= n /\ ends[i] = {}
    <3>1. f[i + 1] = g[i + 1]
      BY <1>5, <1>7, <2>2
    <3> QED
      BY <2>2, <3>1 DEF ReplaceStep
  <2>3. CASE i <= n /\ ends[i] # {}
    <3>1. f[Max(ends[i]) + 1] = g[Max(ends[i]) + 1]
      BY <1>4, <1>7, <2>3
    <3> QED
      BY <2>3, <3>1 DEF ReplaceStep
  <2> QED
    BY <2>1, <2>2, <2>3
<1> HIDE DEF V, Step, D, rank
<1>8. \A f \in [D -> V], i \in D : step[<<i, f>>] = Step(f, i)
  OBVIOUS
<1>9. step \in [D \X [D -> V] -> V]
  BY <1>6
<1>10. \A f : /\ From(f) = [i \in D |-> From(f)[i]]
              /\ \A i \in D : From(f)[i] = Step(f, i)
  BY <1>3
<1> HIDE DEF step, From
<1>11. PICK h \in [D -> V] : \A i \in D : h[i] = step[<<i, h>>]
  <2>1. \A x \in D : \A f, g \in [D -> V] :
          (\A y \in D : rank[y] < rank[x] => f[y] = g[y]) => step[<<x, f>>] = step[<<x, g>>]
    <3>1. SUFFICES ASSUME NEW x \in D, NEW f \in [D -> V], NEW g \in [D -> V],
                          \A y \in D : rank[y] < rank[x] => f[y] = g[y]
                   PROVE  step[<<x, f>>] = step[<<x, g>>]
      OBVIOUS
    <3>2. Step(f, x) = Step(g, x)
      BY <1>7, <3>1
    <3> QED
      BY <1>8, <3>2
  <2>2. V # {}
    BY DEF V
  <2>3. Recursion(step, D, rank, V)
    BY <1>9, <2>1, <2>2 DEF Recursion
  <2> QED
    BY <1>2, <2>3, RecursionExists
<1>12. h = From(h)
  <2>1. h = [i \in D |-> h[i]] /\ \A i \in D : h[i] = From(h)[i]
    BY <1>8, <1>10, <1>11
  <2> QED
    BY <1>10, <2>1
<1> DEFINE from == CHOOSE f : f = From(f)
<1>13. from = From(from)
  BY <1>12
<1>14. from[1] = ReplaceMatches(line, ends, mask)
  BY <1>1
<1> HIDE DEF from
<1>15. \A i \in D : from[i] = Step(from, i)
  BY <1>10, <1>13
<1> DEFINE T == {i \in D : from[i] \in V}
<1>16. ASSUME NEW i \in D, \A y \in D : rank[y] < rank[i] => y \in T PROVE i \in T
  BY <1>6, <1>15, <1>16
<1>17. D \subseteq T
  <2> HIDE DEF T
  <2>1. Inherited(T, D, rank)
    BY <1>16 DEF Inherited
  <2> QED
    BY <1>2, <2>1, ByRank
<1>18. from \in [D -> V]
  <2>1. from = [i \in D |-> from[i]]
    BY <1>10, <1>13
  <2> QED
    BY <1>17, <2>1
<1> QED
  BY <1>14, <1>15, <1>18 DEF D, V, Step, n, Replacing

(* Where nothing matches, nothing is replaced.                             *)
LEMMA NothingReplaced ==
  ASSUME NEW E, NEW line \in Seq(E), NEW mask \in E, NEW ends, EndsOf(ends, line),
         \A i \in 1..Len(line) : ends[i] = {}
  PROVE  ReplaceMatches(line, ends, mask) = line
<1> DEFINE n == Len(line)
           D == 1..(n + 1)
           rank == Ahead(n)
<1>1. n \in Nat /\ Ranked(D, rank, n) /\ \A i \in D : rank[i] = n + 1 - i
  BY AheadRanks, SMTT(30)
<1>2. PICK from \in [D -> Seq(E)] :
        /\ from[1] = ReplaceMatches(line, ends, mask)
        /\ \A i \in D : from[i] = ReplaceStep(from, line, ends, mask, i)
  BY ReplacesFollow DEF Replacing
<1> DEFINE T == {i \in D : from[i] = SubSeq(line, i, n)}
<1> HIDE DEF rank
<1>3. ASSUME NEW i \in D, \A y \in D : rank[y] < rank[i] => y \in T PROVE i \in T
  <2>1. CASE i > n
    <3>1. from[i] = <<>>
      BY <1>2, <2>1 DEF ReplaceStep
    <3>2. SubSeq(line, i, n) = <<>>
      <4>1. i \in Int /\ n \in Int /\ i >= 1 /\ n <= Len(line) /\ ~(i <= n)
        BY <1>1, <2>1
      <4>2. SubSeq(line, i, n) \in Seq(E) /\ Len(SubSeq(line, i, n)) = 0
        BY <4>1, PartOfText
      <4> DEFINE s == SubSeq(line, i, n)
      <4> HIDE DEF s
      <4>3. s \in Seq(E) /\ Len(s) = 0
        BY <4>2 DEF s
      <4>4. s = <<>>
        BY <4>3
      <4> QED
        BY <4>4 DEF s
    <3> QED
      BY <3>1, <3>2
  <2>2. CASE i <= n
    <3>1. i + 1 \in D /\ i \in 1..n /\ i + 1 > i
      BY <1>1, <2>2
    <3>2. rank[i + 1] < rank[i]
      BY <1>1, <3>1
    <3>3. from[i + 1] = SubSeq(line, i + 1, n)
      BY <1>3, <3>1, <3>2
    <3>4. from[i] = << line[i] >> \o from[i + 1]
      BY <1>2, <2>2, <3>1 DEF ReplaceStep
    <3>5. SubSeq(line, i, n) = << line[i] >> \o SubSeq(line, i + 1, n)
      BY <3>1
    <3> QED
      BY <3>3, <3>4, <3>5
  <2> QED
    BY <1>1, <2>1, <2>2
<1>4. D \subseteq T
  <2> HIDE DEF T, D
  <2>1. Inherited(T, D, rank)
    BY <1>3 DEF Inherited
  <2> QED
    BY <1>1, <2>1, ByRank
<1>5. 1 \in D /\ SubSeq(line, 1, n) = line
  BY <1>1
<1> QED
  BY <1>2, <1>4, <1>5

(* A greatest number, shifted.                                             *)
LEMMA MaxShifted ==
  ASSUME NEW S, S \subseteq Int, IsFiniteSet(S), S # {}, NEW n \in Int
  PROVE  Max(Shifted(S, n)) = n + Max(S)
<1> DEFINE T == Shifted(S, n)
<1>1. Max(S) \in S /\ \A x \in S : x <= Max(S)
  BY FiniteSetsAreBounded
<1> DEFINE m == Max(S)
<1>2. m \in S /\ m \in Int /\ \A x \in S : x \in Int /\ x <= m
  BY <1>1
<1> HIDE DEF m
<1>3. /\ n + m \in T /\ T \subseteq Int
      /\ \A y \in T : y <= n + m
  <2>1. n + m \in T
    BY <1>2 DEF Shifted
  <2>2. ASSUME NEW y \in T PROVE y \in Int /\ y <= n + m
    <3>1. PICK x \in S : y = n + x
      BY DEF Shifted
    <3>2. x \in Int /\ x <= m
      BY <1>2
    <3> QED
      BY <1>2, <3>1, <3>2
  <2> QED
    BY <2>1, <2>2
<1> HIDE DEF T
<1>4. n + m \in Int
  BY <1>2
<1>5. \E x \in T : \A y \in T : x >= y
  BY <1>3, <1>4
<1>6. Max(T) \in T /\ \A y \in T : Max(T) >= y
  BY <1>5 DEF Max
<1>7. Max(T) = n + m
  <2>1. Max(T) \in Int /\ Max(T) <= n + m /\ Max(T) >= n + m
    BY <1>3, <1>6
  <2> QED
    BY <1>4, <2>1
<1> QED
  BY <1>7 DEF T, m

-----------------------------------------------------------------------------
(* A pattern: for every line, the ends of its matches by where they start. *)
(* It is local if its matches have no blanks and depend on nothing beyond. *)
MatchesAppend(ew, eu, ev, n, m) ==
  /\ \A i, j \in 1..n : j \in ew[i] <=> j \in eu[i]
  /\ \A i, j \in 1..m : n + j \in ew[n + i] <=> j \in ev[i]

InkedMatches(ends, line) ==
  \A i \in 1..Len(line) : \A j \in ends[i] : \A k \in i..j : Inked(line, k)

Local(G, E) ==
  /\ \A line \in Seq(E) : EndsOf(G[line], line) /\ InkedMatches(G[line], line)
  /\ \A u, v \in Seq(E) :
       Apart(u, v) => MatchesAppend(G[u \o v], G[u], G[v], Len(u), Len(v))

(* Its matches in two texts apart are those in the one and those in the    *)
(* other.                                                                  *)
EndsAppend(ew, eu, ev, n, m) ==
  /\ \A i \in 1..n : ew[i] = eu[i]
  /\ \A i \in 1..m : ew[n + i] = Shifted(ev[i], n)

(* For the ends of the matches that is the same.                           *)
LEMMA LocalEnds ==
  ASSUME NEW E, NEW G, Local(G, E), NEW u \in Seq(E), NEW v \in Seq(E), Apart(u, v)
  PROVE  EndsAppend(G[u \o v], G[u], G[v], Len(u), Len(v))
<1> DEFINE n == Len(u)
           m == Len(v)
           w == u \o v
<1>1. /\ w \in Seq(E) /\ n \in Nat /\ m \in Nat /\ Len(w) = n + m
      /\ \A i \in 1..n : Inked(w, i) = Inked(u, i)
      /\ \A i \in 1..m : Inked(w, n + i) = Inked(v, i)
  BY WholeAt
<1>2. n > 0 /\ m > 0 => ~Inked(u, n) \/ ~Inked(v, 1)
  BY DEF Apart
<1>3. /\ EndsOf(G[w], w) /\ InkedMatches(G[w], w)
      /\ EndsOf(G[u], u) /\ EndsOf(G[v], v)
      /\ MatchesAppend(G[w], G[u], G[v], n, m)
  BY <1>1 DEF Local
<1> HIDE DEF n, m, w
<1>4. ASSUME NEW i \in 1..n, NEW j \in G[w][i] PROVE j \in 1..n
  <2>1. i \in 1..(n + m)
    BY <1>1
  <2>2. j \in i..(n + m) /\ \A k \in i..j : Inked(w, k)
    BY <1>1, <1>3, <2>1 DEF EndsOf, InkedMatches
  <2>3. CASE j > n
    <3>1. n \in i..j /\ n + 1 \in i..j /\ n > 0 /\ m > 0 /\ n \in 1..n /\ 1 \in 1..m
      BY <1>1, <2>2, <2>3
    <3>2. Inked(w, n) /\ Inked(w, n + 1)
      BY <2>2, <3>1
    <3>3. Inked(u, n) /\ Inked(v, 1)
      BY <1>1, <3>1, <3>2
    <3> QED
      BY <1>2, <3>1, <3>3
  <2>4. ~(j > n) => j \in 1..n
    BY <1>1, <2>2
  <2> QED
    BY <2>3, <2>4
<1>5. ASSUME NEW i \in 1..n PROVE G[w][i] = G[u][i]
  <2>1. \A j \in G[w][i] : j \in 1..n
    BY <1>4
  <2>2. \A j \in G[u][i] : j \in 1..n
    <3>1. G[u][i] \subseteq i..n
      BY <1>3 DEF EndsOf, n
    <3> QED
      BY <1>1, <3>1
  <2> QED
    BY <1>3, <2>1, <2>2 DEF MatchesAppend
<1>6. ASSUME NEW i \in 1..m PROVE G[w][n + i] = Shifted(G[v][i], n)
  <2>1. n + i \in 1..(n + m)
    BY <1>1
  <2>2. G[w][n + i] \subseteq (n + i)..(n + m)
    BY <1>1, <1>3, <2>1 DEF EndsOf
  <2>3. G[v][i] \subseteq i..m
    BY <1>3 DEF EndsOf, m
  <2>4. ASSUME NEW j \in G[w][n + i] PROVE j \in Shifted(G[v][i], n)
    <3>1. j - n \in 1..m /\ n + (j - n) = j
      <4>1. j \in (n + i)..(n + m)
        BY <2>2
      <4> QED
        BY <1>1, <4>1
    <3>2. j - n \in G[v][i]
      BY <1>3, <3>1 DEF MatchesAppend
    <3> QED
      BY <3>1, <3>2 DEF Shifted
  <2>5. ASSUME NEW j \in Shifted(G[v][i], n) PROVE j \in G[w][n + i]
    <3>1. PICK k \in G[v][i] : j = n + k
      BY DEF Shifted
    <3>2. k \in 1..m
      BY <1>1, <2>3
    <3> QED
      BY <1>3, <3>1, <3>2 DEF MatchesAppend
  <2> QED
    BY <2>4, <2>5
<1> QED
  BY <1>5, <1>6 DEF EndsAppend, n, m, w

(* Two texts apart are replaced one after the other.                       *)
LEMMA ReplaceAppends ==
  ASSUME NEW E, NEW mask \in E, NEW u \in Seq(E), NEW v \in Seq(E),
         NEW eu, NEW ev, NEW ew, EndsOf(eu, u), EndsOf(ev, v), EndsOf(ew, u \o v),
         EndsAppend(ew, eu, ev, Len(u), Len(v))
  PROVE  ReplaceMatches(u \o v, ew, mask)
           = ReplaceMatches(u, eu, mask) \o ReplaceMatches(v, ev, mask)
<1> DEFINE n == Len(u)
           m == Len(v)
           w == u \o v
           ru == Ahead(n)
           rv == Ahead(m)
           V == Seq(E)
<1>1. /\ w \in V /\ n \in Nat /\ m \in Nat /\ Len(w) = n + m
      /\ \A i \in 1..n : w[i] = u[i]
      /\ \A i \in 1..m : w[n + i] = v[i]
  BY WholeAt
<1>2. /\ \A i \in 1..n : ew[i] = eu[i]
      /\ \A i \in 1..m : ew[n + i] = Shifted(ev[i], n)
  BY DEF EndsAppend
<1>3. PICK fu \in [1..(n + 1) -> V] :
        /\ fu[1] = ReplaceMatches(u, eu, mask)
        /\ \A i \in 1..(n + 1) : fu[i] = ReplaceStep(fu, u, eu, mask, i)
  BY ReplacesFollow DEF Replacing
<1>4. PICK fv \in [1..(m + 1) -> V] :
        /\ fv[1] = ReplaceMatches(v, ev, mask)
        /\ \A i \in 1..(m + 1) : fv[i] = ReplaceStep(fv, v, ev, mask, i)
  BY ReplacesFollow DEF Replacing
<1>5. PICK fw \in [1..(Len(w) + 1) -> V] :
        /\ fw[1] = ReplaceMatches(w, ew, mask)
        /\ \A i \in 1..(Len(w) + 1) : fw[i] = ReplaceStep(fw, w, ew, mask, i)
  <2>1. w \in Seq(E) /\ EndsOf(ew, w)
    BY <1>1
  <2>2. PICK fw : Replacing(fw, w, ew, mask, E)
    BY <2>1, ReplacesFollow
  <2> QED
    BY <2>2 DEF Replacing
<1>6. /\ Ranked(1..(n + 1), ru, n) /\ \A i \in 1..(n + 1) : ru[i] = n + 1 - i
      /\ Ranked(1..(m + 1), rv, m) /\ \A i \in 1..(m + 1) : rv[i] = m + 1 - i
  BY <1>1, AheadRanks
<1>7. /\ \A i \in 1..n : eu[i] # {} => /\ Max(eu[i]) \in i..n
      /\ \A i \in 1..m : ev[i] # {} => /\ Max(ev[i]) \in i..m
                                       /\ ev[i] \subseteq Int /\ IsFiniteSet(ev[i])
  <2>1. ASSUME NEW i \in 1..m
        PROVE  ev[i] \subseteq Int /\ IsFiniteSet(ev[i])
    <3>1. ev[i] \in SUBSET (i..m) /\ i \in Int /\ m \in Int
      BY <1>1 DEF EndsOf
    <3> HIDE DEF m
    <3>2. IsFiniteSet(i..m) /\ i..m \subseteq Int
      BY <3>1, FS_Interval
    <3>3. IsFiniteSet(ev[i])
      BY <3>1, <3>2, FS_Subset
    <3> QED
      BY <3>1, <3>2, <3>3
  <2>2. \A i \in 1..n : eu[i] # {} => Max(eu[i]) \in i..n
    BY LongestEnd
  <2>3. \A i \in 1..m : ev[i] # {} => Max(ev[i]) \in i..m
    BY LongestEnd
  <2> QED
    BY <2>1, <2>2, <2>3
<1> HIDE DEF n, m, w, ru, rv, V
<1> DEFINE T == {i \in 1..(m + 1) : fw[n + i] = fv[i]}
<1>8. ASSUME NEW i \in 1..(m + 1), \A y \in 1..(m + 1) : rv[y] < rv[i] => y \in T
      PROVE  i \in T
  <2>1. n + i \in 1..(Len(w) + 1) /\ (n + i > Len(w) <=> i > m)
    BY <1>1
  <2>2. CASE i > m
    <3>1. fw[n + i] = <<>> /\ fv[i] = <<>>
      BY <1>4, <1>5, <2>1, <2>2 DEF ReplaceStep, m
    <3> QED
      BY <3>1
  <2>3. CASE i <= m
    <3>1. i \in 1..m /\ i + 1 \in 1..(m + 1) /\ n + i + 1 = n + (i + 1) /\ ~(i > m)
      BY <1>1, <2>3
    <3>2. CASE ev[i] = {}
      <4>1. ew[n + i] = {}
        BY <1>2, <3>1, <3>2 DEF Shifted
      <4>2. fw[n + i] = << w[n + i] >> \o fw[n + i + 1] /\ fv[i] = << v[i] >> \o fv[i + 1]
        BY <1>4, <1>5, <2>1, <3>1, <3>2, <4>1 DEF ReplaceStep, m
      <4>3. rv[i + 1] < rv[i]
        BY <1>1, <1>6, <3>1
      <4>4. fw[n + (i + 1)] = fv[i + 1]
        BY <1>8, <3>1, <4>3
      <4> QED
        BY <1>1, <3>1, <4>2, <4>4
    <3>3. CASE ev[i] # {}
      <4> DEFINE e == Max(ev[i])
      <4>1. ew[n + i] # {} /\ Max(ew[n + i]) = n + e
        <5>1. ev[i] \subseteq Int /\ IsFiniteSet(ev[i]) /\ n \in Int /\ ew[n + i] = Shifted(ev[i], n)
          BY <1>1, <1>2, <1>7, <3>1, <3>3
        <5>2. Max(Shifted(ev[i], n)) = n + Max(ev[i])
          BY <3>3, <5>1, MaxShifted
        <5> QED
          BY <3>3, <5>1, <5>2 DEF Shifted
      <4>2. fw[n + i] = << mask >> \o fw[n + e + 1] /\ fv[i] = << mask >> \o fv[e + 1]
        BY <1>4, <1>5, <2>1, <3>1, <3>3, <4>1 DEF ReplaceStep, m
      <4>3. e \in i..m
        BY <1>7, <3>1, <3>3
      <4> HIDE DEF e
      <4>4. e + 1 \in 1..(m + 1) /\ n + e + 1 = n + (e + 1)
        BY <1>1, <4>3
      <4>5. rv[e + 1] < rv[i]
        BY <1>1, <1>6, <4>3, <4>4
      <4>6. fw[n + (e + 1)] = fv[e + 1]
        BY <1>8, <4>4, <4>5
      <4> QED
        BY <4>2, <4>4, <4>6
    <3> QED
      BY <3>2, <3>3
  <2> QED
    BY <1>1, <2>2, <2>3
<1>9. 1..(m + 1) \subseteq T
  <2> HIDE DEF T
  <2>1. Inherited(T, 1..(m + 1), rv)
    BY <1>8 DEF Inherited
  <2> QED
    BY <1>6, <2>1, ByRank
<1>10. fw[n + 1] = fv[1] /\ fv[1] \in V
  <2>1. 1 \in 1..(m + 1)
    BY <1>1
  <2> QED
    BY <1>9, <2>1
<1> DEFINE U == {i \in 1..(n + 1) : fw[i] = fu[i] \o fv[1]}
<1>11. \A s, t \in V : \A c : << c >> \o (s \o t) = (<< c >> \o s) \o t
  BY DEF V
<1>12. ASSUME NEW i \in 1..(n + 1), \A y \in 1..(n + 1) : ru[y] < ru[i] => y \in U
      PROVE  i \in U
  <2>1. i \in 1..(Len(w) + 1) /\ (i <= n => ~(i > Len(w)))
    BY <1>1
  <2>2. CASE i > n
    <3>1. fu[i] = <<>>
      BY <1>3, <2>2 DEF ReplaceStep, n
    <3>2. i = n + 1
      BY <1>1, <2>2
    <3>3. <<>> \o fv[1] = fv[1]
      BY <1>10 DEF V
    <3> QED
      BY <1>10, <3>1, <3>2, <3>3
  <2>3. CASE i <= n
    <3>1. i \in 1..n /\ i + 1 \in 1..(n + 1) /\ ~(i > n)
      BY <1>1, <2>3
    <3>2. CASE eu[i] = {}
      <4>1. ew[i] = {}
        BY <1>2, <3>1, <3>2
      <4>2. fw[i] = << w[i] >> \o fw[i + 1] /\ fu[i] = << u[i] >> \o fu[i + 1]
        BY <1>3, <1>5, <2>1, <2>3, <3>1, <3>2, <4>1 DEF ReplaceStep, n
      <4>3. ru[i + 1] < ru[i]
        BY <1>1, <1>6, <3>1
      <4>4. fw[i + 1] = fu[i + 1] \o fv[1] /\ fu[i + 1] \in V
        BY <1>12, <3>1, <4>3
      <4>5. << u[i] >> \o (fu[i + 1] \o fv[1]) = (<< u[i] >> \o fu[i + 1]) \o fv[1]
        BY <1>10, <1>11, <4>4
      <4> QED
        BY <1>1, <3>1, <4>2, <4>4, <4>5
    <3>3. CASE eu[i] # {}
      <4> DEFINE e == Max(eu[i])
      <4>1. ew[i] # {} /\ Max(ew[i]) = e
        BY <1>2, <3>1, <3>3
      <4>2. fw[i] = << mask >> \o fw[e + 1] /\ fu[i] = << mask >> \o fu[e + 1]
        BY <1>3, <1>5, <2>1, <2>3, <3>1, <3>3, <4>1 DEF ReplaceStep, n
      <4>3. e \in i..n
        BY <1>7, <3>1, <3>3
      <4> HIDE DEF e
      <4>4. e + 1 \in 1..(n + 1)
        BY <1>1, <4>3
      <4>5. ru[e + 1] < ru[i]
        BY <1>1, <1>6, <4>3, <4>4
      <4>6. fw[e + 1] = fu[e + 1] \o fv[1] /\ fu[e + 1] \in V
        BY <1>12, <4>4, <4>5
      <4>7. << mask >> \o (fu[e + 1] \o fv[1]) = (<< mask >> \o fu[e + 1]) \o fv[1]
        BY <1>10, <1>11, <4>6
      <4> QED
        BY <4>2, <4>6, <4>7
    <3> QED
      BY <3>2, <3>3
  <2> QED
    BY <1>1, <2>2, <2>3
<1>13. 1..(n + 1) \subseteq U
  <2> HIDE DEF U
  <2>1. Inherited(U, 1..(n + 1), ru)
    BY <1>12 DEF Inherited
  <2> QED
    BY <1>6, <2>1, ByRank
<1>14. fw[1] = fu[1] \o fv[1]
  <2>1. 1 \in 1..(n + 1)
    BY <1>1
  <2> QED
    BY <1>13, <2>1
<1> QED
  BY <1>3, <1>4, <1>5, <1>14 DEF w

(* What a local pattern leaves of a line when its matches are replaced.    *)
Replaced(G, mask, E) == [line \in Seq(E) |-> ReplaceMatches(line, G[line], mask)]

(* What a local pattern replaces, it replaces in texts apart one after the *)
(* other.                                                                  *)
LEMMA ReplacedDistributes ==
  ASSUME NEW E, NEW mask \in E, NEW G, Local(G, E)
  PROVE  Distributes(Replaced(G, mask, E), E)
<1> DEFINE R == Replaced(G, mask, E)
<1>1. ASSUME NEW u \in Seq(E) PROVE R[u] = ReplaceMatches(u, G[u], mask) /\ R[u] \in Seq(E)
  <2>1. EndsOf(G[u], u)
    BY DEF Local
  <2>2. PICK from \in [1..(Len(u) + 1) -> Seq(E)] : from[1] = ReplaceMatches(u, G[u], mask)
    BY <2>1, ReplacesFollow DEF Replacing
  <2>3. 1 \in 1..(Len(u) + 1)
    OBVIOUS
  <2>4. ReplaceMatches(u, G[u], mask) \in Seq(E)
    BY <2>2, <2>3
  <2> QED
    BY <2>4 DEF Replaced
<1>2. R \in [Seq(E) -> Seq(E)]
  BY <1>1 DEF Replaced
<1> HIDE DEF R
<1>3. ASSUME NEW u \in Seq(E), \A i \in 1..Len(u) : ~Inked(u, i)
      PROVE  R[u] = u
  <2>1. EndsOf(G[u], u) /\ InkedMatches(G[u], u)
    BY DEF Local
  <2>2. ASSUME NEW i \in 1..Len(u) PROVE G[u][i] = {}
    <3>1. ASSUME NEW j \in G[u][i] PROVE FALSE
      <4>1. j \in i..Len(u) /\ \A k \in i..j : Inked(u, k)
        BY <2>1 DEF EndsOf, InkedMatches
      <4>2. i \in i..j
        BY <4>1
      <4> QED
        BY <1>3, <4>1, <4>2
    <3> QED
      BY <3>1
  <2> QED
    BY <1>1, <2>1, <2>2, NothingReplaced
<1>4. ASSUME NEW u \in Seq(E), NEW v \in Seq(E), Apart(u, v) PROVE R[u \o v] = R[u] \o R[v]
  <2>1. u \o v \in Seq(E)
    OBVIOUS
  <2>2. EndsOf(G[u], u) /\ EndsOf(G[v], v) /\ EndsOf(G[u \o v], u \o v)
    BY <2>1 DEF Local
  <2>3. EndsAppend(G[u \o v], G[u], G[v], Len(u), Len(v))
    BY <1>4, LocalEnds
  <2>4. ReplaceMatches(u \o v, G[u \o v], mask)
          = ReplaceMatches(u, G[u], mask) \o ReplaceMatches(v, G[v], mask)
    BY <2>2, <2>3, ReplaceAppends
  <2> QED
    BY <1>1, <2>1, <2>4
<1>5. ASSUME NEW u \in Seq(E), u # <<>>, ~Inked(u, Len(u))
      PROVE  R[u] # <<>> /\ ~Inked(R[u], Len(R[u]))
  <2> DEFINE n == Len(u)
             s == SubSeq(u, 1, n - 1)
             b == << u[n] >>
  <2>1. u = s \o b /\ s \in Seq(E) /\ b \in Seq(E) /\ Len(b) = 1 /\ b[1] = u[n]
    BY <1>5
  <2> HIDE DEF s, b
  <2>2. \A i \in 1..Len(b) : ~Inked(b, i)
    BY <1>5, <2>1 DEF Inked
  <2>3. Apart(s, b)
    BY <2>1, <2>2 DEF Apart
  <2>4. R[u] = R[s] \o b
    BY <1>3, <1>4, <2>1, <2>2, <2>3
  <2>5. R[s] \in Seq(E)
    BY <1>1, <2>1
  <2>6. /\ Len(R[s] \o b) = Len(R[s]) + 1 /\ Len(R[s]) \in Nat
        /\ Inked(R[s] \o b, Len(R[s]) + 1) = Inked(b, 1)
    <3> DEFINE t == R[s]
    <3>1. t \in Seq(E) /\ b \in Seq(E)
      BY <2>1, <2>5
    <3> HIDE DEF t
    <3>2. /\ Len(t \o b) = Len(t) + Len(b) /\ Len(t) \in Nat
          /\ \A i \in 1..Len(b) : Inked(t \o b, Len(t) + i) = Inked(b, i)
      BY <3>1, WholeAt
    <3>3. Len(t \o b) = Len(t) + 1 /\ Len(t) \in Nat /\ Inked(t \o b, Len(t) + 1) = Inked(b, 1)
      BY <2>1, <3>2
    <3> QED
      BY <3>3 DEF t
  <2>7. ~Inked(b, 1)
    BY <2>1, <2>2
  <2>8. Len(R[u]) # 0
    BY <2>4, <2>6
  <2> QED
    BY <2>4, <2>6, <2>7, <2>8
<1>6. ASSUME NEW v \in Seq(E), v # <<>>, ~Inked(v, 1)
      PROVE  R[v] # <<>> /\ ~Inked(R[v], 1)
  <2> DEFINE n == Len(v)
             s == SubSeq(v, 2, n)
             b == << v[1] >>
  <2>1. v = b \o s /\ s \in Seq(E) /\ b \in Seq(E) /\ Len(b) = 1 /\ b[1] = v[1]
    BY <1>6
  <2> HIDE DEF s, b
  <2>2. \A i \in 1..Len(b) : ~Inked(b, i)
    BY <1>6, <2>1 DEF Inked
  <2>3. Apart(b, s)
    BY <2>1, <2>2 DEF Apart
  <2>4. R[v] = b \o R[s]
    BY <1>3, <1>4, <2>1, <2>2, <2>3
  <2>5. R[s] \in Seq(E)
    BY <1>1, <2>1
  <2>6. /\ Len(b \o R[s]) = 1 + Len(R[s]) /\ Len(R[s]) \in Nat
        /\ Inked(b \o R[s], 1) = Inked(b, 1)
    <3> DEFINE t == R[s]
    <3>1. t \in Seq(E)
      BY <2>5
    <3> HIDE DEF t
    <3>2. /\ Len(b \o t) = Len(b) + Len(t) /\ Len(t) \in Nat
          /\ \A i \in 1..Len(b) : Inked(b \o t, i) = Inked(b, i)
      <4>1. b \in Seq(E)
        BY <2>1
      <4> QED
        BY <3>1, <4>1, WholeAt
    <3>3. Len(b \o t) = 1 + Len(t) /\ Len(t) \in Nat /\ Inked(b \o t, 1) = Inked(b, 1)
      BY <2>1, <3>2
    <3> QED
      BY <3>3 DEF t
  <2>7. ~Inked(b, 1)
    BY <2>1, <2>2
  <2>8. Len(R[v]) # 0
    BY <2>4, <2>6
  <2> QED
    BY <2>4, <2>6, <2>7, <2>8
<1>7. ASSUME NEW u \in Seq(E), NEW v \in Seq(E), Apart(u, v) PROVE Apart(R[u], R[v])
  <2> DEFINE e == <<>>
  <2>1. e \in Seq(E) /\ \A i \in 1..Len(e) : ~Inked(e, i)
    OBVIOUS
  <2> HIDE DEF e
  <2>2. R[e] = e
    BY <1>3, <2>1
  <2>3. u = e \/ v = e \/ (u # e /\ ~Inked(u, Len(u))) \/ (v # e /\ ~Inked(v, 1))
    BY <1>7 DEF Apart, e
  <2> QED
    BY <1>5, <1>6, <2>2, <2>3 DEF Apart, e
<1>8. ASSUME NEW u \in Seq(E), \A i \in 1..Len(u) : ~Inked(u, i)
      PROVE  \A i \in 1..Len(R[u]) : ~Inked(R[u], i)
  BY <1>3, <1>8
<1> QED
  BY <1>2, <1>4, <1>7, <1>8 DEF Distributes, R

-----------------------------------------------------------------------------
(* The masker's patterns are local.                                        *)
IpMatches  == [line \in Seq(Characters) |-> [i \in DOMAIN line |-> IpEnds(line, i)]]
HexMatches == [line \in Seq(Characters) |-> [i \in DOMAIN line |-> HexEnds(line, i)]]
NumMatches == [line \in Seq(Characters) |-> [i \in DOMAIN line |-> NumEnds(line, i)]]

(* What they match is ink.                                                 *)
LEMMA MatchedIsInked ==
  ASSUME NEW line \in Seq(Characters), NEW k \in 1..Len(line),
         line[k] \in WordChars \cup Signs \cup {Dot}
  PROVE  Inked(line, k)
<1>1. line[k] \in DOMAIN Kind
  BY DEF Characters
<1> QED
  BY <1>1, InkAssumption DEF Inked

(* x reads from d + i to d + j as y does from i to j.                      *)
SameText(x, y, d, i, j) ==
  /\ d \in Nat /\ i \in Nat \ {0} /\ j \in Nat /\ Len(x) \in Nat /\ Len(y) \in Nat
  /\ j <= Len(y) /\ d + j <= Len(x)
  /\ \A k \in i..j : x[d + k] = y[k]

(* A run of characters ends at the same place in both.                     *)
LEMMA SameRuns ==
  ASSUME NEW x, NEW y, NEW d, NEW i, NEW j, SameText(x, y, d, i, j), NEW b \in Nat, i <= b, NEW S
  PROVE  d + j \in RunEnds(x, d + b, S) <=> j \in RunEnds(y, b, S)
<1>1. /\ d \in Nat /\ i \in Nat \ {0} /\ j \in Nat /\ Len(x) \in Nat /\ Len(y) \in Nat
      /\ j <= Len(y) /\ d + j <= Len(x)
      /\ \A k \in i..j : x[d + k] = y[k]
  BY DEF SameText
<1>2. ASSUME d + j \in RunEnds(x, d + b, S) PROVE j \in RunEnds(y, b, S)
  <2>1. d + j \in (d + b)..Len(x) /\ \A k \in (d + b)..(d + j) : x[k] \in S
    BY <1>2 DEF RunEnds
  <2>2. j \in b..Len(y)
    BY <1>1, <2>1
  <2>3. ASSUME NEW k \in b..j PROVE y[k] \in S
    <3>1. d + k \in (d + b)..(d + j) /\ k \in i..j
      BY <1>1, <2>2
    <3> QED
      BY <1>1, <2>1, <3>1
  <2> QED
    BY <2>2, <2>3 DEF RunEnds
<1>3. ASSUME j \in RunEnds(y, b, S) PROVE d + j \in RunEnds(x, d + b, S)
  <2>1. j \in b..Len(y) /\ \A k \in b..j : y[k] \in S
    BY <1>3 DEF RunEnds
  <2>2. d + j \in (d + b)..Len(x)
    BY <1>1, <2>1
  <2>3. ASSUME NEW k \in (d + b)..(d + j) PROVE x[k] \in S
    <3>1. k - d \in b..j /\ k - d \in i..j /\ d + (k - d) = k
      BY <1>1, <2>1
    <3>2. x[d + (k - d)] = y[k - d] /\ y[k - d] \in S
      BY <1>1, <2>1, <3>1
    <3> QED
      BY <3>1, <3>2
  <2> QED
    BY <2>2, <2>3 DEF RunEnds
<1> QED
  BY <1>2, <1>3

(* So does an address.                                                     *)
LEMMA SameIps ==
  ASSUME NEW x, NEW y, NEW d, NEW i, NEW j, SameText(x, y, d, i, j)
  PROVE  d + j \in IpEnds(x, d + i) <=> j \in IpEnds(y, i)
<1>1. /\ d \in Nat /\ i \in Nat /\ j \in Nat
      /\ \A k \in i..j : x[d + k] = y[k]
  BY DEF SameText
<1> DEFINE S == Digits \cup {Dot}
<1>2. d + j \in RunEnds(x, d + i, S) <=> j \in RunEnds(y, i, S)
  <2>1. i <= i
    BY <1>1
  <2> HIDE DEF S
  <2> QED
    BY <1>1, <2>1, SameRuns
<1> DEFINE Apart4(a, b, p, q, r) == p - a \in 1..3 /\ q - p \in 2..4 /\ r - q \in 2..4 /\ b - r \in 1..3
           Dx == {k \in (d + i)..(d + j) : x[k] = Dot}
           Dy == {k \in i..j : y[k] = Dot}
<1>3. \A k \in i..j : k \in Dy <=> d + k \in Dx
  <2>1. ASSUME NEW k \in i..j PROVE k \in Dy <=> d + k \in Dx
    <3>1. d + k \in (d + i)..(d + j) /\ x[d + k] = y[k]
      BY <1>1
    <3> QED
      BY <3>1
  <2> QED
    BY <2>1
<1>4. /\ Dy \subseteq i..j
      /\ \A k \in Dx : k - d \in i..j /\ k = d + (k - d)
  <2>1. \A k \in (d + i)..(d + j) : k - d \in i..j /\ k = d + (k - d)
    BY <1>1
  <2> QED
    BY <2>1
<1> HIDE DEF Dx, Dy
<1>5. ASSUME NEW p \in i..j, NEW q \in i..j, NEW r \in i..j
      PROVE  /\ d + p \in (d + i)..(d + j) /\ d + q \in (d + i)..(d + j) /\ d + r \in (d + i)..(d + j)
             /\ Apart4(d + i, d + j, d + p, d + q, d + r) <=> Apart4(i, j, p, q, r)
             /\ Dx = {d + p, d + q, d + r} <=> Dy = {p, q, r}
  <2>1. p \in Int /\ q \in Int /\ r \in Int
    BY <1>1
  <2>2. d + p \in (d + i)..(d + j) /\ d + q \in (d + i)..(d + j) /\ d + r \in (d + i)..(d + j)
    BY <1>1
  <2>3. /\ (d + p) - (d + i) = p - i /\ (d + q) - (d + p) = q - p
        /\ (d + r) - (d + q) = r - q /\ (d + j) - (d + r) = j - r
    BY <1>1, <2>1
  <2>4. ASSUME Dx = {d + p, d + q, d + r} PROVE Dy = {p, q, r}
    <3>1. p \in Dy /\ q \in Dy /\ r \in Dy
      BY <1>3, <2>4
    <3>2. ASSUME NEW k \in Dy PROVE k \in {p, q, r}
      <4>1. k \in i..j /\ d + k \in Dx
        BY <1>3, <1>4
      <4>2. d + k = d + p \/ d + k = d + q \/ d + k = d + r
        BY <2>4, <4>1
      <4> QED
        BY <1>1, <2>1, <4>1, <4>2
    <3> QED
      BY <3>1, <3>2
  <2>5. ASSUME Dy = {p, q, r} PROVE Dx = {d + p, d + q, d + r}
    <3>1. d + p \in Dx /\ d + q \in Dx /\ d + r \in Dx
      BY <1>3, <2>5
    <3>2. ASSUME NEW k \in Dx PROVE k \in {d + p, d + q, d + r}
      <4>1. k - d \in i..j /\ k = d + (k - d)
        BY <1>4
      <4>2. k - d \in Dy
        BY <1>3, <4>1
      <4> QED
        BY <2>5, <4>1, <4>2
    <3> QED
      BY <3>1, <3>2
  <2> QED
    BY <2>2, <2>3, <2>4, <2>5
<1> DEFINE Has(a, b, D, p, q, r) == D = {p, q, r} /\ Apart4(a, b, p, q, r)
<1>6. (\E p, q, r \in (d + i)..(d + j) : Has(d + i, d + j, Dx, p, q, r))
        <=> (\E p, q, r \in i..j : Has(i, j, Dy, p, q, r))
  <2>1. ASSUME NEW p \in (d + i)..(d + j), NEW q \in (d + i)..(d + j), NEW r \in (d + i)..(d + j),
               Has(d + i, d + j, Dx, p, q, r)
        PROVE  \E pp, qq, rr \in i..j : Has(i, j, Dy, pp, qq, rr)
    <3>1. /\ p - d \in i..j /\ q - d \in i..j /\ r - d \in i..j
          /\ d + (p - d) = p /\ d + (q - d) = q /\ d + (r - d) = r
      BY <1>1
    <3>2. Has(i, j, Dy, p - d, q - d, r - d)
      <4> DEFINE pp == p - d
                 qq == q - d
                 rr == r - d
      <4>1. /\ pp \in i..j /\ qq \in i..j /\ rr \in i..j
            /\ Has(d + i, d + j, Dx, d + pp, d + qq, d + rr)
        BY <2>1, <3>1
      <4> HIDE DEF pp, qq, rr, Apart4
      <4>2. Has(i, j, Dy, pp, qq, rr)
        BY <1>5, <4>1
      <4> QED
        BY <4>2 DEF pp, qq, rr
    <3> HIDE DEF Has
    <3> QED
      BY <3>1, <3>2
  <2>2. ASSUME NEW p \in i..j, NEW q \in i..j, NEW r \in i..j, Has(i, j, Dy, p, q, r)
        PROVE  \E pp, qq, rr \in (d + i)..(d + j) : Has(d + i, d + j, Dx, pp, qq, rr)
    <3> HIDE DEF Apart4
    <3>1. Has(d + i, d + j, Dx, d + p, d + q, d + r)
      BY <1>5, <2>2
    <3> HIDE DEF Has
    <3> QED
      BY <1>5, <3>1
  <2> HIDE DEF Has
  <2> QED
    BY <2>1, <2>2
<1>7. /\ d + j \in IpEnds(x, d + i) <=>
           /\ d + j \in RunEnds(x, d + i, S)
           /\ \E p, q, r \in (d + i)..(d + j) : Has(d + i, d + j, Dx, p, q, r)
      /\ j \in IpEnds(y, i) <=>
           /\ j \in RunEnds(y, i, S)
           /\ \E p, q, r \in i..j : Has(i, j, Dy, p, q, r)
  BY DEF IpEnds, Dx, Dy
<1> HIDE DEF Has, S
<1> QED
  BY <1>2, <1>6, <1>7

(* So does a hex literal.                                                  *)
LEMMA SameHexes ==
  ASSUME NEW x, NEW y, NEW d, NEW i, NEW j, SameText(x, y, d, i, j)
  PROVE  d + j \in HexEnds(x, d + i) <=> j \in HexEnds(y, i)
<1>1. /\ d \in Nat /\ i \in Nat \ {0} /\ j \in Nat /\ Len(x) \in Nat /\ Len(y) \in Nat
      /\ j <= Len(y) /\ d + j <= Len(x)
      /\ \A k \in i..j : x[d + k] = y[k]
  BY DEF SameText
<1> DEFINE b == i + 2
<1>2. d + j \in RunEnds(x, d + b, HexDigits) <=> j \in RunEnds(y, b, HexDigits)
  <2>1. b \in Nat /\ i <= b
    BY <1>1
  <2> HIDE DEF b
  <2> QED
    BY <2>1, SameRuns
<1>3. d + i + 2 = d + b /\ d + i + 1 = d + (i + 1)
  BY <1>1
<1>4. ASSUME b <= j
      PROVE  /\ x[d + i] = y[i] /\ x[d + i + 1] = y[i + 1]
             /\ i < Len(y) /\ d + i < Len(x)
  <2>1. i \in i..j /\ i + 1 \in i..j /\ i < Len(y) /\ d + i < Len(x)
    BY <1>1, <1>4
  <2> QED
    BY <1>1, <1>3, <2>1
<1>5. /\ d + j \in RunEnds(x, d + b, HexDigits) => b <= j
      /\ j \in RunEnds(y, b, HexDigits) => b <= j
  BY <1>1 DEF RunEnds
<1>6. /\ d + j \in HexEnds(x, d + i) <=>
           /\ x[d + i] = Zero /\ d + i < Len(x) /\ x[d + i + 1] = Ex
           /\ d + j \in RunEnds(x, d + b, HexDigits)
      /\ j \in HexEnds(y, i) <=>
           /\ y[i] = Zero /\ i < Len(y) /\ y[i + 1] = Ex
           /\ j \in RunEnds(y, b, HexDigits)
  BY <1>3 DEF HexEnds
<1> HIDE DEF b
<1> QED
  BY <1>2, <1>4, <1>5, <1>6

(* A word starts or ends between two characters.                           *)
LEMMA BoundaryIs ==
  ASSUME NEW line, NEW i, NEW h, h = i - 1
  PROVE  Boundary(line, i) <=> ~(WordAt(line, h) <=> WordAt(line, i))
BY DEF Boundary, WordAt

(* So does a number, if the characters around it are word characters in    *)
(* both or in none.                                                        *)
LEMMA SameNums ==
  ASSUME NEW x, NEW y, NEW d, NEW i, NEW j, SameText(x, y, d, i, j),
         i <= j => (WordAt(x, d + i - 1) <=> WordAt(y, i - 1)) /\ (WordAt(x, d + j + 1) <=> WordAt(y, j + 1)),
         DOMAIN x = 1..Len(x), DOMAIN y = 1..Len(y)
  PROVE  d + j \in NumEnds(x, d + i) <=> j \in NumEnds(y, i)
<1>1. /\ d \in Nat /\ i \in Nat \ {0} /\ j \in Nat /\ Len(x) \in Nat /\ Len(y) \in Nat
      /\ j <= Len(y) /\ d + j <= Len(x)
      /\ \A k \in i..j : x[d + k] = y[k]
  BY DEF SameText
<1> DEFINE bx == IF x[d + i] \in Signs THEN d + i + 1 ELSE d + i
           by == IF y[i] \in Signs THEN i + 1 ELSE i
<1>2. /\ d + j \in NumEnds(x, d + i) <=>
           d + j \in RunEnds(x, bx, Digits) /\ Boundary(x, d + i) /\ Boundary(x, d + j + 1)
      /\ j \in NumEnds(y, i) <=>
           j \in RunEnds(y, by, Digits) /\ Boundary(y, i) /\ Boundary(y, j + 1)
  BY DEF NumEnds
<1>3. ASSUME i <= j
      PROVE  /\ bx = d + by /\ by \in Nat /\ i <= by
             /\ (Boundary(x, d + i) <=> Boundary(y, i)) /\ (Boundary(x, d + j + 1) <=> Boundary(y, j + 1))
  <2>1. i \in i..j /\ j \in i..j
    BY <1>1, <1>3
  <2>2. x[d + i] = y[i] /\ x[d + j] = y[j]
    BY <1>1, <2>1
  <2>3. bx = d + by /\ by \in Nat /\ i <= by
    BY <1>1, <2>2
  <2>4. /\ d + i \in 1..Len(x) /\ d + j \in 1..Len(x) /\ i \in 1..Len(y) /\ j \in 1..Len(y)
    BY <1>1, <1>3
  <2>5. (WordAt(x, d + i) <=> WordAt(y, i)) /\ (WordAt(x, d + j) <=> WordAt(y, j))
    BY <2>2, <2>4 DEF WordAt
  <2>6. (WordAt(x, d + i - 1) <=> WordAt(y, i - 1)) /\ (WordAt(x, d + j + 1) <=> WordAt(y, j + 1))
    BY <1>3
  <2>7. (Boundary(x, d + i) <=> Boundary(y, i))
    <3> DEFINE k == d + i
               g == d + i - 1
               h == i - 1
    <3>1. g = k - 1 /\ h = i - 1
      BY <1>1
    <3>2. (WordAt(x, k) <=> WordAt(y, i)) /\ (WordAt(x, g) <=> WordAt(y, h))
      BY <2>5, <2>6
    <3> HIDE DEF k, g, h
    <3>3. Boundary(x, k) <=> ~(WordAt(x, g) <=> WordAt(x, k))
      BY <3>1, BoundaryIs
    <3>4. Boundary(y, i) <=> ~(WordAt(y, h) <=> WordAt(y, i))
      BY <3>1, BoundaryIs
    <3>5. Boundary(x, k) <=> Boundary(y, i)
      BY <3>2, <3>3, <3>4
    <3> QED
      BY <3>5 DEF k
  <2>8. Boundary(x, d + j + 1) <=> Boundary(y, j + 1)
    <3> DEFINE k == d + j + 1
               g == d + j
               h == j + 1
    <3>1. g = k - 1 /\ j = h - 1
      BY <1>1
    <3>2. (WordAt(x, g) <=> WordAt(y, j)) /\ (WordAt(x, k) <=> WordAt(y, h))
      BY <2>5, <2>6
    <3> HIDE DEF k, g, h
    <3>3. Boundary(x, k) <=> ~(WordAt(x, g) <=> WordAt(x, k))
      BY <3>1, BoundaryIs
    <3>4. Boundary(y, h) <=> ~(WordAt(y, j) <=> WordAt(y, h))
      BY <3>1, BoundaryIs
    <3>5. Boundary(x, k) <=> Boundary(y, h)
      BY <3>2, <3>3, <3>4
    <3> QED
      BY <3>5 DEF k, h
  <2> QED
    BY <2>3, <2>7, <2>8
<1>4. CASE i <= j
  <2>1. d + j \in RunEnds(x, d + by, Digits) <=> j \in RunEnds(y, by, Digits)
    <3>1. by \in Nat /\ i <= by
      BY <1>3, <1>4
    <3> HIDE DEF by
    <3> QED
      BY <3>1, SameRuns
  <2> HIDE DEF bx, by
  <2> QED
    BY <1>2, <1>3, <1>4, <2>1
<1>5. CASE ~(i <= j)
  <2>1. d + j \notin RunEnds(x, bx, Digits) /\ j \notin RunEnds(y, by, Digits)
    BY <1>1, <1>5 DEF RunEnds
  <2> HIDE DEF bx, by
  <2> QED
    BY <1>2, <2>1
<1> QED
  BY <1>4, <1>5

(* A text reads in one it is part of as it reads by itself.                *)
LEMMA SameInBoth ==
  ASSUME NEW E, NEW u \in Seq(E), NEW v \in Seq(E)
  PROVE  /\ \A i, j \in 1..Len(u) : SameText(u \o v, u, 0, i, j)
         /\ \A i, j \in 1..Len(v) : SameText(u \o v, v, Len(u), i, j)
<1> DEFINE n == Len(u)
           m == Len(v)
           w == u \o v
<1>1. /\ n \in Nat /\ m \in Nat /\ Len(w) = n + m
      /\ \A i \in 1..n : w[i] = u[i]
      /\ \A i \in 1..m : w[n + i] = v[i]
  BY WholeAt
<1> HIDE DEF n, m, w
<1>2. ASSUME NEW i \in 1..n, NEW j \in 1..n PROVE SameText(w, u, 0, i, j)
  <2>1. /\ i \in Nat \ {0} /\ j \in Nat /\ j <= n /\ 0 + j <= n + m /\ n + m \in Nat
    BY <1>1
  <2>2. ASSUME NEW k \in i..j PROVE w[0 + k] = u[k]
    <3>1. k \in 1..n /\ 0 + k = k
      BY <1>1
    <3> QED
      BY <1>1, <3>1
  <2> QED
    BY <1>1, <2>1, <2>2 DEF SameText, n
<1>3. ASSUME NEW i \in 1..m, NEW j \in 1..m PROVE SameText(w, v, n, i, j)
  <2>1. /\ i \in Nat \ {0} /\ j \in Nat /\ j <= m /\ n + j <= n + m /\ n + m \in Nat
    BY <1>1
  <2>2. ASSUME NEW k \in i..j PROVE w[n + k] = v[k]
    <3>1. k \in 1..m
      BY <1>1
    <3> QED
      BY <1>1, <3>1
  <2> QED
    BY <1>1, <2>1, <2>2 DEF SameText, m
<1> QED
  BY <1>2, <1>3 DEF n, m, w

(* Matches are in the line, and of ink.                                    *)
LEMMA IpsInked ==
  ASSUME NEW line \in Seq(Characters)
  PROVE  /\ EndsOf(IpMatches[line], line) /\ InkedMatches(IpMatches[line], line)
         /\ \A i \in 1..Len(line) : IpMatches[line][i] = IpEnds(line, i)
<1>1. \A i \in 1..Len(line) : IpMatches[line][i] = IpEnds(line, i)
  BY DEF IpMatches
<1>2. ASSUME NEW i \in 1..Len(line), NEW j \in IpEnds(line, i)
      PROVE  j \in i..Len(line) /\ \A k \in i..j : Inked(line, k)
  <2>1. j \in i..Len(line) /\ \A k \in i..j : line[k] \in Digits \cup {Dot}
    BY DEF IpEnds, RunEnds
  <2>2. ASSUME NEW k \in i..j PROVE Inked(line, k)
    <3>1. k \in 1..Len(line)
      BY <2>1
    <3>2. line[k] \in WordChars \cup Signs \cup {Dot}
      BY <2>1, MaskingAssumption
    <3> QED
      BY <3>1, <3>2, MatchedIsInked
  <2> QED
    BY <2>1, <2>2
<1> QED
  BY <1>1, <1>2 DEF EndsOf, InkedMatches

(* The matches of a hex literal are ink.                                   *)
LEMMA HexesInked ==
  ASSUME NEW line \in Seq(Characters)
  PROVE  /\ EndsOf(HexMatches[line], line) /\ InkedMatches(HexMatches[line], line)
         /\ \A i \in 1..Len(line) : HexMatches[line][i] = HexEnds(line, i)
<1>1. \A i \in 1..Len(line) : HexMatches[line][i] = HexEnds(line, i)
  BY DEF HexMatches
<1>2. ASSUME NEW i \in 1..Len(line), NEW j \in HexEnds(line, i)
      PROVE  j \in i..Len(line) /\ \A k \in i..j : Inked(line, k)
  <2>1. /\ line[i] = Zero /\ line[i + 1] = Ex
        /\ j \in (i + 2)..Len(line) /\ \A k \in (i + 2)..j : line[k] \in HexDigits
    BY DEF HexEnds, RunEnds
  <2>2. ASSUME NEW k \in i..j PROVE Inked(line, k)
    <3>1. k \in 1..Len(line) /\ (k = i \/ k = i + 1 \/ k \in (i + 2)..j)
      BY <2>1
    <3>2. line[k] \in WordChars \cup Signs \cup {Dot}
      BY <2>1, <3>1, MaskingAssumption
    <3> QED
      BY <3>1, <3>2, MatchedIsInked
  <2> QED
    BY <2>1, <2>2
<1> QED
  BY <1>1, <1>2 DEF EndsOf, InkedMatches

(* The matches of a number are ink.                                        *)
LEMMA NumsInked ==
  ASSUME NEW line \in Seq(Characters)
  PROVE  /\ EndsOf(NumMatches[line], line) /\ InkedMatches(NumMatches[line], line)
         /\ \A i \in 1..Len(line) : NumMatches[line][i] = NumEnds(line, i)
<1>1. \A i \in 1..Len(line) : NumMatches[line][i] = NumEnds(line, i)
  BY DEF NumMatches
<1>2. ASSUME NEW i \in 1..Len(line), NEW j \in NumEnds(line, i)
      PROVE  j \in i..Len(line) /\ \A k \in i..j : Inked(line, k)
  <2> DEFINE b == IF line[i] \in Signs THEN i + 1 ELSE i
  <2>1. j \in b..Len(line) /\ \A k \in b..j : line[k] \in Digits
    BY DEF NumEnds, RunEnds
  <2>2. ASSUME NEW k \in i..j PROVE Inked(line, k)
    <3>1. k \in 1..Len(line) /\ (line[k] \in Signs \/ k \in b..j)
      BY <2>1
    <3> HIDE DEF b
    <3>2. line[k] \in WordChars \cup Signs \cup {Dot}
      BY <2>1, <3>1, MaskingAssumption
    <3> QED
      BY <3>1, <3>2, MatchedIsInked
  <2>3. j \in i..Len(line)
    BY <2>1
  <2> QED
    BY <2>2, <2>3
<1> QED
  BY <1>1, <1>2 DEF EndsOf, InkedMatches

(* An address is found in one of two texts apart or in the other, never    *)
(* across.                                                                 *)
LEMMA IpsAreLocal == Local(IpMatches, Characters)
<1>1. ASSUME NEW u \in Seq(Characters), NEW v \in Seq(Characters)
      PROVE  MatchesAppend(IpMatches[u \o v], IpMatches[u], IpMatches[v], Len(u), Len(v))
  <2> DEFINE n == Len(u)
             m == Len(v)
             w == u \o v
  <2>1. /\ w \in Seq(Characters) /\ n \in Nat /\ m \in Nat /\ Len(w) = n + m
        /\ \A i, j \in 1..n : SameText(w, u, 0, i, j)
        /\ \A i, j \in 1..m : SameText(w, v, n, i, j)
    BY SameInBoth, WholeAt
  <2>2. /\ \A i \in 1..(n + m) : IpMatches[w][i] = IpEnds(w, i)
        /\ \A i \in 1..n : IpMatches[u][i] = IpEnds(u, i)
        /\ \A i \in 1..m : IpMatches[v][i] = IpEnds(v, i)
    BY <2>1, IpsInked
  <2> HIDE DEF n, m, w
  <2>3. ASSUME NEW i \in 1..n, NEW j \in 1..n
        PROVE  j \in IpMatches[w][i] <=> j \in IpMatches[u][i]
    <3>1. 0 + j \in IpEnds(w, 0 + i) <=> j \in IpEnds(u, i)
      BY <2>1, SameIps
    <3>2. 0 + j = j /\ 0 + i = i /\ i \in 1..(n + m)
      BY <2>1
    <3> QED
      BY <2>2, <3>1, <3>2
  <2>4. ASSUME NEW i \in 1..m, NEW j \in 1..m
        PROVE  n + j \in IpMatches[w][n + i] <=> j \in IpMatches[v][i]
    <3>1. n + j \in IpEnds(w, n + i) <=> j \in IpEnds(v, i)
      BY <2>1, SameIps
    <3>2. n + i \in 1..(n + m)
      BY <2>1
    <3> QED
      BY <2>2, <3>1, <3>2
  <2> QED
    BY <2>3, <2>4 DEF MatchesAppend, n, m, w
<1> QED
  BY <1>1, IpsInked DEF Local

(* So is a hex literal.                                                    *)
LEMMA HexesAreLocal == Local(HexMatches, Characters)
<1>1. ASSUME NEW u \in Seq(Characters), NEW v \in Seq(Characters)
      PROVE  MatchesAppend(HexMatches[u \o v], HexMatches[u], HexMatches[v], Len(u), Len(v))
  <2> DEFINE n == Len(u)
             m == Len(v)
             w == u \o v
  <2>1. /\ w \in Seq(Characters) /\ n \in Nat /\ m \in Nat /\ Len(w) = n + m
        /\ \A i, j \in 1..n : SameText(w, u, 0, i, j)
        /\ \A i, j \in 1..m : SameText(w, v, n, i, j)
    BY SameInBoth, WholeAt
  <2>2. /\ \A i \in 1..(n + m) : HexMatches[w][i] = HexEnds(w, i)
        /\ \A i \in 1..n : HexMatches[u][i] = HexEnds(u, i)
        /\ \A i \in 1..m : HexMatches[v][i] = HexEnds(v, i)
    BY <2>1, HexesInked
  <2> HIDE DEF n, m, w
  <2>3. ASSUME NEW i \in 1..n, NEW j \in 1..n
        PROVE  j \in HexMatches[w][i] <=> j \in HexMatches[u][i]
    <3>1. 0 + j \in HexEnds(w, 0 + i) <=> j \in HexEnds(u, i)
      BY <2>1, SameHexes
    <3>2. 0 + j = j /\ 0 + i = i /\ i \in 1..(n + m)
      BY <2>1
    <3> QED
      BY <2>2, <3>1, <3>2
  <2>4. ASSUME NEW i \in 1..m, NEW j \in 1..m
        PROVE  n + j \in HexMatches[w][n + i] <=> j \in HexMatches[v][i]
    <3>1. n + j \in HexEnds(w, n + i) <=> j \in HexEnds(v, i)
      BY <2>1, SameHexes
    <3>2. n + i \in 1..(n + m)
      BY <2>1
    <3> QED
      BY <2>2, <3>1, <3>2
  <2> QED
    BY <2>3, <2>4 DEF MatchesAppend, n, m, w
<1> QED
  BY <1>1, HexesInked DEF Local

(* So is a number: next to blanks, or to no text at all, there is a word   *)
(* boundary either way.                                                    *)
LEMMA NumsAreLocal == Local(NumMatches, Characters)
<1>1. ASSUME NEW u \in Seq(Characters), NEW v \in Seq(Characters), Apart(u, v)
      PROVE  MatchesAppend(NumMatches[u \o v], NumMatches[u], NumMatches[v], Len(u), Len(v))
  <2> DEFINE n == Len(u)
             m == Len(v)
             w == u \o v
  <2>1. /\ w \in Seq(Characters) /\ n \in Nat /\ m \in Nat /\ Len(w) = n + m
        /\ DOMAIN w = 1..(n + m) /\ DOMAIN u = 1..n /\ DOMAIN v = 1..m
        /\ \A i, j \in 1..n : SameText(w, u, 0, i, j)
        /\ \A i, j \in 1..m : SameText(w, v, n, i, j)
        /\ \A i \in 1..n : w[i] = u[i] /\ Inked(w, i) = Inked(u, i)
        /\ \A i \in 1..m : w[n + i] = v[i] /\ Inked(w, n + i) = Inked(v, i)
    BY SameInBoth, WholeAt
  <2>2. /\ \A i \in 1..(n + m) : NumMatches[w][i] = NumEnds(w, i)
        /\ \A i \in 1..n : NumMatches[u][i] = NumEnds(u, i)
        /\ \A i \in 1..m : NumMatches[v][i] = NumEnds(v, i)
        /\ InkedMatches(NumMatches[w], w) /\ InkedMatches(NumMatches[u], u)
        /\ InkedMatches(NumMatches[v], v)
        /\ EndsOf(NumMatches[w], w) /\ EndsOf(NumMatches[u], u) /\ EndsOf(NumMatches[v], v)
    BY <2>1, NumsInked
  <2>3. n > 0 /\ m > 0 => ~Inked(u, n) \/ ~Inked(v, 1)
    BY <1>1 DEF Apart
  <2>4. /\ \A i \in 1..n : u[i] \in WordChars => Inked(u, i)
        /\ \A i \in 1..m : v[i] \in WordChars => Inked(v, i)
    BY MatchedIsInked
  <2>5. Len(u) = n /\ Len(v) = m
    OBVIOUS
  <2> HIDE DEF n, m, w
  <2>6. ASSUME NEW i \in 1..n, NEW j \in 1..n
        PROVE  j \in NumMatches[w][i] <=> j \in NumMatches[u][i]
    <3>0. 0 + j = j /\ 0 + i = i /\ i \in 1..(n + m) /\ j \in 1..(n + m)
      BY <2>1
    <3>1. CASE ~Inked(u, j)
      <4>1. ASSUME j \in NumMatches[w][i] PROVE FALSE
        <5>1. j \in i..(n + m) /\ \A k \in i..j : Inked(w, k)
          BY <2>1, <2>2, <3>0, <4>1 DEF EndsOf, InkedMatches
        <5>2. j \in i..j
          BY <5>1
        <5> QED
          BY <2>1, <3>1, <5>1, <5>2
      <4>2. ASSUME j \in NumMatches[u][i] PROVE FALSE
        <5>1. j \in i..n /\ \A k \in i..j : Inked(u, k)
          BY <2>2, <2>5, <4>2 DEF EndsOf, InkedMatches
        <5>2. j \in i..j
          BY <5>1
        <5> QED
          BY <3>1, <5>1, <5>2
      <4> QED
        BY <4>1, <4>2
    <3>2. CASE Inked(u, j)
      <4>1. WordAt(w, 0 + i - 1) <=> WordAt(u, i - 1)
        <5>1. 0 + i - 1 = i - 1 /\ (i = 1 \/ (i - 1 \in 1..n /\ i - 1 \in 1..(n + m)))
          BY <2>1
        <5>2. i = 1 => i - 1 \notin 1..n /\ i - 1 \notin 1..(n + m)
          BY <2>1
        <5> HIDE DEF n
        <5> QED
          BY <2>1, <5>1, <5>2 DEF WordAt
      <4>2. WordAt(w, 0 + j + 1) <=> WordAt(u, j + 1)
        <5>1. CASE j < n
          <6>1. 0 + j + 1 = j + 1 /\ j + 1 \in 1..n /\ j + 1 \in 1..(n + m)
            BY <2>1, <5>1
          <6> QED
            BY <2>1, <6>1 DEF WordAt
        <5>2. CASE ~(j < n)
          <6>1. 0 + j + 1 = n + 1 /\ j = n /\ n + 1 \notin 1..n /\ n > 0
            BY <2>1, <5>2
          <6>2. n + 1 \in 1..(n + m) => m > 0 /\ 1 \in 1..m
            BY <2>1
          <6>3. ~WordAt(w, n + 1)
            BY <2>1, <2>3, <2>4, <3>2, <6>1, <6>2 DEF WordAt
          <6> QED
            BY <2>1, <6>1, <6>3 DEF WordAt
        <5> QED
          BY <5>1, <5>2
      <4>3. 0 + j \in NumEnds(w, 0 + i) <=> j \in NumEnds(u, i)
        BY <2>1, <2>5, <4>1, <4>2, SameNums
      <4> QED
        BY <2>2, <3>0, <4>3
    <3> QED
      BY <3>1, <3>2
  <2>7. ASSUME NEW i \in 1..m, NEW j \in 1..m
        PROVE  n + j \in NumMatches[w][n + i] <=> j \in NumMatches[v][i]
    <3>0. n + i \in 1..(n + m) /\ n + j \in 1..(n + m)
      BY <2>1
    <3>1. CASE ~Inked(v, i)
      <4>1. ASSUME n + j \in NumMatches[w][n + i] PROVE FALSE
        <5>1. n + j \in (n + i)..(n + m) /\ \A k \in (n + i)..(n + j) : Inked(w, k)
          BY <2>1, <2>2, <3>0, <4>1 DEF EndsOf, InkedMatches
        <5>2. n + i \in (n + i)..(n + j)
          <6>1. n + i \in Int /\ n + j \in Int /\ n + i <= n + j
            BY <2>1, <5>1
          <6> QED
            BY <6>1
        <5> QED
          BY <2>1, <3>1, <5>1, <5>2
      <4>2. ASSUME j \in NumMatches[v][i] PROVE FALSE
        <5>1. j \in i..m /\ \A k \in i..j : Inked(v, k)
          BY <2>2, <2>5, <4>2 DEF EndsOf, InkedMatches
        <5>2. i \in i..j
          BY <5>1
        <5> QED
          BY <3>1, <5>1, <5>2
      <4> QED
        BY <4>1, <4>2
    <3>2. CASE Inked(v, i)
      <4>1. WordAt(w, n + i - 1) <=> WordAt(v, i - 1)
        <5>1. CASE i > 1
          <6>1. n + i - 1 = n + (i - 1) /\ i - 1 \in 1..m /\ n + (i - 1) \in 1..(n + m)
            BY <2>1, <5>1
          <6> QED
            BY <2>1, <6>1 DEF WordAt
        <5>2. CASE ~(i > 1)
          <6>1. i = 1 /\ n + i - 1 = n /\ i - 1 = 0 /\ 0 \notin 1..m /\ m > 0
            BY <2>1, <5>2
          <6>2. n \in 1..(n + m) => n > 0 /\ n \in 1..n
            BY <2>1
          <6>3. ~WordAt(w, n)
            BY <2>1, <2>3, <2>4, <3>2, <6>1, <6>2 DEF WordAt
          <6> QED
            BY <2>1, <6>1, <6>3 DEF WordAt
        <5> QED
          BY <5>1, <5>2
      <4>2. WordAt(w, n + j + 1) <=> WordAt(v, j + 1)
        <5>1. CASE j < m
          <6>1. n + j + 1 = n + (j + 1) /\ j + 1 \in 1..m /\ n + (j + 1) \in 1..(n + m)
            BY <2>1, <5>1
          <6> QED
            BY <2>1, <6>1 DEF WordAt
        <5>2. CASE ~(j < m)
          <6>1. n + j + 1 \notin 1..(n + m) /\ j + 1 \notin 1..m
            BY <2>1, <5>2
          <6> QED
            BY <2>1, <6>1 DEF WordAt
        <5> QED
          BY <5>1, <5>2
      <4>3. n + j \in NumEnds(w, n + i) <=> j \in NumEnds(v, i)
        BY <2>1, <2>5, <4>1, <4>2, SameNums
      <4> QED
        BY <2>2, <3>0, <4>3
    <3> QED
      BY <3>1, <3>2
  <2> QED
    BY <2>6, <2>7 DEF MatchesAppend, n, m, w
<1> QED
  BY <1>1, NumsInked DEF Local

-----------------------------------------------------------------------------
(* Masking, and what it makes of numbers.                                  *)

IpsReplaced   == Replaced(IpMatches, IpMask, Characters)
HexesReplaced == Replaced(HexMatches, HexMask, Characters)
NumsReplaced  == Replaced(NumMatches, NumMask, Characters)

Masked == Composed(Composed(IpsReplaced, HexesReplaced, Characters), NumsReplaced, Characters)

(* The three steps of the masker take texts apart one after the other.     *)
LEMMA ReplacedAre ==
  /\ Distributes(IpsReplaced, Characters) /\ Distributes(HexesReplaced, Characters)
  /\ Distributes(NumsReplaced, Characters)
  /\ \A line \in Seq(Characters) : /\ IpsReplaced[line] = MaskIps(line)
                                   /\ HexesReplaced[line] = MaskHex(line)
                                   /\ NumsReplaced[line] = MaskNums(line)
<1>1. IpMask \in Characters /\ HexMask \in Characters /\ NumMask \in Characters
  BY InkAssumption DEF Characters
<1>2. /\ Distributes(IpsReplaced, Characters) /\ Distributes(HexesReplaced, Characters)
      /\ Distributes(NumsReplaced, Characters)
  BY <1>1, ReplacedDistributes, IpsAreLocal, HexesAreLocal, NumsAreLocal
     DEF IpsReplaced, HexesReplaced, NumsReplaced
<1>3. ASSUME NEW line \in Seq(Characters)
      PROVE  /\ IpsReplaced[line] = MaskIps(line)
             /\ HexesReplaced[line] = MaskHex(line)
             /\ NumsReplaced[line] = MaskNums(line)
  <2>1. /\ IpMatches[line] = [i \in DOMAIN line |-> IpEnds(line, i)]
        /\ HexMatches[line] = [i \in DOMAIN line |-> HexEnds(line, i)]
        /\ NumMatches[line] = [i \in DOMAIN line |-> NumEnds(line, i)]
    BY DEF IpMatches, HexMatches, NumMatches
  <2>2. /\ IpsReplaced[line] = ReplaceMatches(line, IpMatches[line], IpMask)
        /\ HexesReplaced[line] = ReplaceMatches(line, HexMatches[line], HexMask)
        /\ NumsReplaced[line] = ReplaceMatches(line, NumMatches[line], NumMask)
    BY DEF IpsReplaced, HexesReplaced, NumsReplaced, Replaced
  <2> QED
    BY <2>1, <2>2 DEF MaskIps, MaskHex, MaskNums
<1> QED
  BY <1>2, <1>3

(* The masker does.                                                        *)
LEMMA MaskedIs ==
  /\ Distributes(Masked, Characters)
  /\ \A line \in Seq(Characters) : Masked[line] = Mask(line) /\ Mask(line) \in Seq(Characters)
<1>1. /\ Distributes(IpsReplaced, Characters) /\ Distributes(HexesReplaced, Characters)
      /\ Distributes(NumsReplaced, Characters)
  BY ReplacedAre
<1>2. /\ Distributes(Composed(IpsReplaced, HexesReplaced, Characters), Characters)
      /\ Distributes(Masked, Characters)
  BY <1>1, DistributesComposed DEF Masked
<1>3. ASSUME NEW line \in Seq(Characters)
      PROVE  Masked[line] = Mask(line) /\ Mask(line) \in Seq(Characters)
  <2>1. IpsReplaced[line] \in Seq(Characters) /\ IpsReplaced[line] = MaskIps(line)
    BY <1>1, ReplacedAre DEF Distributes
  <2>2. /\ HexesReplaced[MaskIps(line)] \in Seq(Characters)
        /\ HexesReplaced[MaskIps(line)] = MaskHex(MaskIps(line))
    BY <1>1, <2>1, ReplacedAre DEF Distributes
  <2>3. /\ NumsReplaced[MaskHex(MaskIps(line))] \in Seq(Characters)
        /\ NumsReplaced[MaskHex(MaskIps(line))] = Mask(line)
    BY <1>1, <2>2, ReplacedAre DEF Distributes, Mask
  <2>4. Masked[line] = NumsReplaced[HexesReplaced[IpsReplaced[line]]]
    BY DEF Masked, Composed
  <2> QED
    BY <2>1, <2>2, <2>3, <2>4
<1> QED
  BY <1>2, <1>3

Delimiting == [line \in Seq(Characters) |-> Delimited(line)]

(* Delimiters become blanks, and blanks stay blank.                        *)
LEMMA DelimitedIs ==
  ASSUME NEW line \in Seq(Characters)
  PROVE  /\ Delimiting[line] = Delimited(line) /\ Delimited(line) \in Seq(Characters)
         /\ Len(Delimited(line)) = Len(line)
         /\ \A i \in 1..Len(line) :
              /\ Delimited(line)[i] = IF line[i] \in Delimiters THEN Blank ELSE line[i]
              /\ ~Inked(line, i) => ~Inked(Delimited(line), i)
<1> DEFINE n == Len(line)
           d == Delimited(line)
<1>1. /\ n \in Nat /\ DOMAIN line = 1..n /\ \A i \in 1..n : line[i] \in Characters
      /\ Blank \in Characters /\ Kind[Blank] = "blank"
  BY CharacterAssumption DEF Characters
<1>2. d = [i \in 1..n |-> IF line[i] \in Delimiters THEN Blank ELSE line[i]]
  BY <1>1 DEF Delimited
<1>3. Delimiting[line] = d
  BY DEF Delimiting
<1> HIDE DEF d, n
<1>4. d \in Seq(Characters) /\ Len(d) = n
  BY <1>1, <1>2
<1>5. \A i \in 1..n : d[i] = IF line[i] \in Delimiters THEN Blank ELSE line[i]
  BY <1>2
<1>6. \A i \in 1..n : ~Inked(line, i) => ~Inked(d, i)
  BY <1>1, <1>5 DEF Inked
<1> QED
  BY <1>3, <1>4, <1>5, <1>6 DEF d, n

(* That is done character by character.                                    *)
LEMMA DelimitingDistributes == Distributes(Delimiting, Characters)
<1>1. Delimiting \in [Seq(Characters) -> Seq(Characters)]
  <2>1. \A line \in Seq(Characters) : Delimiting[line] \in Seq(Characters)
    BY DelimitedIs
  <2> QED
    BY <2>1 DEF Delimiting
<1>2. ASSUME NEW u \in Seq(Characters), \A i \in 1..Len(u) : ~Inked(u, i)
      PROVE  \A i \in 1..Len(Delimiting[u]) : ~Inked(Delimiting[u], i)
  BY <1>2, DelimitedIs
<1>3. ASSUME NEW u \in Seq(Characters), NEW v \in Seq(Characters), Apart(u, v)
      PROVE  /\ Delimiting[u \o v] = Delimiting[u] \o Delimiting[v]
             /\ Apart(Delimiting[u], Delimiting[v])
  <2> DEFINE w == u \o v
             a == Delimiting[u]
             b == Delimiting[v]
             c == Delimiting[w]
             n == Len(u)
             m == Len(v)
  <2>1. /\ w \in Seq(Characters) /\ Len(w) = n + m /\ n \in Nat /\ m \in Nat
        /\ \A i \in 1..n : w[i] = u[i]
        /\ \A i \in 1..m : w[n + i] = v[i]
    OBVIOUS
  <2> HIDE DEF w
  <2>2. /\ a \in Seq(Characters) /\ Len(a) = n
        /\ \A i \in 1..n : a[i] = IF u[i] \in Delimiters THEN Blank ELSE u[i]
    BY DelimitedIs
  <2>3. /\ b \in Seq(Characters) /\ Len(b) = m
        /\ \A i \in 1..m : b[i] = IF v[i] \in Delimiters THEN Blank ELSE v[i]
    BY DelimitedIs
  <2>4. /\ c \in Seq(Characters) /\ Len(c) = n + m
        /\ \A i \in 1..(n + m) : c[i] = IF w[i] \in Delimiters THEN Blank ELSE w[i]
    <3>1. /\ c \in Seq(Characters) /\ Len(c) = Len(w)
          /\ \A i \in 1..Len(w) : c[i] = IF w[i] \in Delimiters THEN Blank ELSE w[i]
      <4>1. w \in Seq(Characters)
        BY <2>1
      <4> QED
        BY <4>1, DelimitedIs
    <3> HIDE DEF c, n, m
    <3> QED
      BY <2>1, <3>1
  <2>5. Apart(a, b)
    <3>1. CASE u = <<>> \/ v = <<>>
      <4>1. u = <<>> => a = <<>>
        BY <2>2
      <4>2. v = <<>> => b = <<>>
        BY <2>3
      <4> QED
        BY <3>1, <4>1, <4>2 DEF Apart
    <3>2. CASE u # <<>> /\ v # <<>>
      <4>1. n \in 1..n /\ 1 \in 1..m
        BY <3>2, <2>1
      <4>2. ~Inked(u, n) => ~Inked(a, n)
        BY <4>1, DelimitedIs
      <4>3. ~Inked(v, 1) => ~Inked(b, 1)
        BY <4>1, DelimitedIs
      <4> QED
        BY <1>3, <2>2, <3>2, <4>2, <4>3 DEF Apart
    <3> QED
      BY <3>1, <3>2
  <2> HIDE DEF a, b, c, n, m
  <2>6. c = a \o b
    <3>1. a \o b \in Seq(Characters) /\ Len(a \o b) = n + m
      BY <2>1, <2>2, <2>3
    <3>2. ASSUME NEW i \in 1..(n + m) PROVE c[i] = (a \o b)[i]
      <4>1. CASE i \in 1..n
        <5>1. (a \o b)[i] = a[i] /\ w[i] = u[i]
          BY <2>1, <2>2, <2>3, <4>1
        <5> QED
          BY <2>2, <2>4, <4>1, <5>1
      <4>2. CASE i \notin 1..n
        <5>1. i - n \in 1..m /\ n + (i - n) = i
          BY <2>1, <4>2
        <5>2. (a \o b)[i] = b[i - n]
          <6>1. i \in (n + 1)..(n + m) /\ n = Len(a) /\ m = Len(b)
            BY <2>1, <2>2, <2>3, <4>2
          <6>2. \A x, y \in Seq(Characters) : \A k \in (Len(x) + 1)..(Len(x) + Len(y)) :
                  (x \o y)[k] = y[k - Len(x)]
            OBVIOUS
          <6>3. i \in (Len(a) + 1)..(Len(a) + Len(b)) /\ a \in Seq(Characters) /\ b \in Seq(Characters)
            BY <2>2, <2>3, <6>1
          <6>4. (a \o b)[i] = b[i - Len(a)]
            <7> HIDE DEF n, m
            <7> QED
              BY <6>2, <6>3
          <6> QED
            BY <6>1, <6>4
        <5>3. w[i] = v[i - n]
          BY <2>1, <5>1
        <5>4. b[i - n] = IF v[i - n] \in Delimiters THEN Blank ELSE v[i - n]
          BY <2>3, <5>1
        <5> QED
          BY <2>4, <5>2, <5>3, <5>4
      <4> QED
        BY <4>1, <4>2
    <3> HIDE DEF w
    <3> QED
      BY <2>4, <3>1, <3>2, SeqEqual
  <2> QED
    BY <2>5, <2>6 DEF a, b, c, w
<1> QED
  BY <1>1, <1>2, <1>3 DEF Distributes

(* A token that is a number.                                               *)
Number(w) == w \in Seq(Characters) /\ Solid(w) /\ ToSet(w) \subseteq Digits

(* A number is digits, which no other pattern starts or goes on with.      *)
LEMMA NumberIs ==
  ASSUME NEW w, Number(w)
  PROVE  /\ Len(w) \in Nat /\ Len(w) >= 1 /\ DOMAIN w = 1..Len(w)
         /\ \A i \in 1..Len(w) : /\ w[i] \in Digits /\ w[i] \in WordChars /\ w[i] # Dot
                                 /\ w[i] # Ex /\ w[i] \notin Signs
<1>1. Len(w) \in Nat /\ Len(w) >= 1 /\ DOMAIN w = 1..Len(w)
  BY DEF Number, Solid
<1>2. \A i \in 1..Len(w) : w[i] \in Digits
  BY <1>1 DEF Number, ToSet
<1> QED
  BY <1>1, <1>2, MaskingAssumption

(* It is no address and no hex literal, and all of it is a number.         *)
LEMMA NumberEnds ==
  ASSUME NEW w, Number(w)
  PROVE  /\ \A i \in 1..Len(w) : IpEnds(w, i) = {} /\ HexEnds(w, i) = {}
         /\ NumEnds(w, 1) = {Len(w)}
<1>0. USE NumberIs
<1> DEFINE n == Len(w)
<1>1. ASSUME NEW i \in 1..n PROVE IpEnds(w, i) = {}
  <2>1. ASSUME NEW j \in IpEnds(w, i) PROVE FALSE
    <3>1. PICK p, q, r \in i..j : {k \in i..j : w[k] = Dot} = {p, q, r}
      BY <2>1 DEF IpEnds
    <3>2. j \in i..n
      BY <2>1 DEF IpEnds, RunEnds
    <3>3. w[p] = Dot /\ p \in 1..n
      BY <3>1, <3>2
    <3> QED
      BY <3>3
  <2> QED
    BY <2>1
<1>2. ASSUME NEW i \in 1..n PROVE HexEnds(w, i) = {}
  <2>1. i < n => i + 1 \in 1..n
    OBVIOUS
  <2> QED
    BY <2>1 DEF HexEnds
<1>3. NumEnds(w, 1) = {n}
  <2>1. NumEnds(w, 1) = {j \in RunEnds(w, 1, Digits) : Boundary(w, 1) /\ Boundary(w, j + 1)}
    <3>1. w[1] \notin Signs
      OBVIOUS
    <3> QED
      BY <3>1 DEF NumEnds
  <2>2. RunEnds(w, 1, Digits) = 1..n
    <3>1. \A j \in 1..n : \A k \in 1..j : w[k] \in Digits
      OBVIOUS
    <3> QED
      BY <3>1 DEF RunEnds
  <2>3. \A j \in 1..n : WordAt(w, j)
    BY DEF WordAt
  <2>4. ~WordAt(w, 0) /\ ~WordAt(w, n + 1)
    BY DEF WordAt
  <2>5. Boundary(w, 1)
    BY <2>3, <2>4, BoundaryIs
  <2>6. ASSUME NEW j \in 1..n PROVE Boundary(w, j + 1) <=> j = n
    <3>1. Boundary(w, j + 1) <=> ~(WordAt(w, j) <=> WordAt(w, j + 1))
      <4>1. j = (j + 1) - 1
        OBVIOUS
      <4> QED
        BY <4>1, BoundaryIs
    <3>2. CASE j = n
      BY <2>3, <2>4, <3>1, <3>2
    <3>3. CASE j # n
      <4>1. j + 1 \in 1..n
        BY <3>3
      <4> QED
        BY <2>3, <3>1, <3>3, <4>1
    <3> QED
      BY <3>2, <3>3
  <2>7. n \in 1..n
    OBVIOUS
  <2> QED
    BY <2>1, <2>2, <2>5, <2>6, <2>7
<1> QED
  BY <1>1, <1>2, <1>3

(* Numbers are masked alike.                                               *)
LEMMA NumberMasked ==
  ASSUME NEW w, Number(w)
  PROVE  Mask(w) = << NumMask >>
<1> DEFINE n == Len(w)
           ends == NumMatches[w]
<1>1. w \in Seq(Characters) /\ n \in Nat /\ n >= 1 /\ DOMAIN w = 1..n
  BY NumberIs DEF Number
<1>2. IpMask \in Characters /\ HexMask \in Characters /\ NumMask \in Characters
  BY InkAssumption DEF Characters
<1>3. MaskIps(w) = w
  <2>1. MaskIps(w) = ReplaceMatches(w, IpMatches[w], IpMask)
    BY <1>1 DEF MaskIps, IpMatches
  <2>2. EndsOf(IpMatches[w], w) /\ \A i \in 1..n : IpMatches[w][i] = {}
    BY <1>1, IpsInked, NumberEnds
  <2> QED
    BY <1>1, <1>2, <2>1, <2>2, NothingReplaced
<1>4. MaskHex(w) = w
  <2>1. MaskHex(w) = ReplaceMatches(w, HexMatches[w], HexMask)
    BY <1>1 DEF MaskHex, HexMatches
  <2>2. EndsOf(HexMatches[w], w) /\ \A i \in 1..n : HexMatches[w][i] = {}
    BY <1>1, HexesInked, NumberEnds
  <2> QED
    BY <1>1, <1>2, <2>1, <2>2, NothingReplaced
<1>5. MaskNums(w) = << NumMask >>
  <2>1. MaskNums(w) = ReplaceMatches(w, ends, NumMask)
    BY <1>1 DEF MaskNums, NumMatches
  <2>2. EndsOf(ends, w)
    BY <1>1, NumsInked
  <2>3. ends[1] = {n} /\ 1 \in 1..n
    BY <1>1, NumsInked, NumberEnds
  <2>4. PICK from : Replacing(from, w, ends, NumMask, Characters)
    BY <1>1, <1>2, <2>2, ReplacesFollow
  <2>5. Max(ends[1]) = n
    <3>1. Max(ends[1]) \in ends[1]
      BY <1>1, <2>2, <2>3, LongestEnd
    <3> QED
      BY <2>3, <3>1
  <2> HIDE DEF ends, n
  <2>6. /\ from[1] = ReplaceStep(from, w, ends, NumMask, 1)
        /\ from[n + 1] = ReplaceStep(from, w, ends, NumMask, n + 1)
        /\ from[1] = ReplaceMatches(w, ends, NumMask)
    BY <1>1, <2>4 DEF Replacing, n
  <2>7. from[n + 1] = <<>>
    BY <1>1, <2>6 DEF ReplaceStep, n
  <2>8. from[1] = << NumMask >> \o from[n + 1]
    BY <1>1, <2>3, <2>5, <2>6 DEF ReplaceStep, n
  <2>9. << NumMask >> \o <<>> = << NumMask >>
    OBVIOUS
  <2> QED
    BY <2>1, <2>6, <2>7, <2>8, <2>9
<1> QED
  BY <1>3, <1>4, <1>5 DEF Mask

-----------------------------------------------------------------------------
(* Lines that are alike but for numbers have the same tokens for the       *)
(* engine.                                                                 *)

AlikeButNumbers(x, y) ==
  /\ Len(WhitespaceTokens(x)) = Len(WhitespaceTokens(y))
  /\ \A p \in 1..Len(WhitespaceTokens(x)) :
       \/ WhitespaceTokens(x)[p] = WhitespaceTokens(y)[p]
       \/ Number(WhitespaceTokens(x)[p]) /\ Number(WhitespaceTokens(y)[p])

(* The words of a line are texts.                                          *)
LEMMA WordsAre ==
  ASSUME NEW line \in Seq(Characters)
  PROVE  /\ Len(WhitespaceTokens(line)) \in Nat
         /\ DOMAIN WhitespaceTokens(line) = 1..Len(WhitespaceTokens(line))
         /\ WhitespaceTokens(line) \in Seq(Seq(Characters))
<1> DEFINE X == Seq(Characters)
<1>1. WhitespaceTokens(line) \in Seq(X)
  BY WordsType
<1> HIDE DEF X
<1>2. /\ Len(WhitespaceTokens(line)) \in Nat
      /\ DOMAIN WhitespaceTokens(line) = 1..Len(WhitespaceTokens(line))
  BY <1>1
<1> QED
  BY <1>1, <1>2 DEF X

(* What takes numbers alike, and a line word by word, takes them alike.    *)
LEMMA AlikeMake ==
  ASSUME NEW X, NEW F, Additive(F, Characters, X),
         \A w, v \in Seq(Characters) : Number(w) /\ Number(v) => F[w] = F[v],
         NEW x \in Seq(Characters), NEW y \in Seq(Characters), AlikeButNumbers(x, y)
  PROVE  F[x] = F[y]
<1> DEFINE a == WhitespaceTokens(x)
           b == WhitespaceTokens(y)
           n == Len(a)
<1>1. n \in Nat /\ DOMAIN a = 1..n /\ DOMAIN b = 1..n
  BY WordsAre DEF AlikeButNumbers
<1>2. \A p \in 1..n : F[a[p]] = F[b[p]]
  BY DEF AlikeButNumbers, Number
<1>3. OfWords(F, x) = [p \in 1..n |-> F[a[p]]] /\ OfWords(F, y) = [p \in 1..n |-> F[b[p]]]
  BY <1>1 DEF OfWords
<1> HIDE DEF a, b, n
<1>4. OfWords(F, x) = OfWords(F, y)
  BY <1>2, <1>3
<1> QED
  BY <1>4, WordsDecide

(* The words of the masked line, and of the masked line without            *)
(* delimiters, are taken so.                                               *)
LEMMA AlikeMasked ==
  ASSUME NEW x \in Seq(Characters), NEW y \in Seq(Characters), AlikeButNumbers(x, y)
  PROVE  /\ WhitespaceTokens(Mask(x)) = WhitespaceTokens(Mask(y))
         /\ WhitespaceTokens(Delimited(Mask(x))) = WhitespaceTokens(Delimited(Mask(y)))
<1> DEFINE C == Characters
           G == Composed(Masked, Delimiting, C)
           X == Seq(C)
<1>1. Distributes(Masked, C) /\ Distributes(G, C)
  BY MaskedIs, DelimitingDistributes, DistributesComposed
<1>2. Additive(Worded(Masked, C), C, X) /\ Additive(Worded(G, C), C, X)
  BY <1>1, WordedIsAdditive
<1>3. \A line \in X : /\ Worded(Masked, C)[line] = WhitespaceTokens(Mask(line))
                      /\ Worded(G, C)[line] = WhitespaceTokens(Delimited(Mask(line)))
  <2>1. ASSUME NEW line \in X
        PROVE  /\ Worded(Masked, C)[line] = WhitespaceTokens(Mask(line))
               /\ Worded(G, C)[line] = WhitespaceTokens(Delimited(Mask(line)))
    <3>1. Masked[line] = Mask(line) /\ Mask(line) \in X
      BY MaskedIs
    <3>2. G[line] = Delimiting[Masked[line]]
      BY DEF Composed
    <3>3. Delimiting[Mask(line)] = Delimited(Mask(line))
      BY <3>1, DelimitedIs
    <3> QED
      BY <3>1, <3>2, <3>3 DEF Worded
  <2> QED
    BY <2>1
<1>4. \A w, v \in X : Number(w) /\ Number(v) => Mask(w) = Mask(v)
  BY NumberMasked
<1> HIDE DEF G
<1>5. \A w, v \in X : Number(w) /\ Number(v) => Worded(Masked, C)[w] = Worded(Masked, C)[v]
  BY <1>3, <1>4
<1>6. \A w, v \in X : Number(w) /\ Number(v) => Worded(G, C)[w] = Worded(G, C)[v]
  BY <1>3, <1>4
<1>7. Worded(Masked, C)[x] = Worded(Masked, C)[y]
  BY <1>2, <1>5, AlikeMake
<1>8. Worded(G, C)[x] = Worded(G, C)[y]
  BY <1>2, <1>6, AlikeMake
<1> QED
  BY <1>3, <1>7, <1>8

-----------------------------------------------------------------------------
(* Compact lines.                                                          *)

Marks(texts) == {p \in DOMAIN texts : Kind[texts[p][1]] = "punct"}

(* Whether a line is compact shows in its tokens.                          *)
LEMMA CompactIs ==
  ASSUME NEW line \in Seq(Characters)
  PROVE  Compact(line) <=> /\ Len(WhitespaceTokens(line)) <= 1
                           /\ Len(Texts(line, Lex(line))) >= MinCompactTokens
                           /\ Cardinality(Marks(Texts(line, Lex(line)))) >= MinCompactMarks
<1> DEFINE sp == Lex(line)
           t == Texts(line, sp)
           n == Len(sp)
           marks == {p \in DOMAIN sp : Kind[line[sp[p].start]] = "punct"}
<1>1. n \in Nat /\ DOMAIN sp = 1..n
  BY LexParts
<1>2. \A p \in 1..n : /\ sp[p].start \in 1..Len(line) /\ sp[p].end \in sp[p].start..Len(line)
  BY LexParts
<1>3. t = [p \in 1..n |-> Text(line, sp[p])]
  BY <1>1 DEF Texts
<1>4. DOMAIN t = 1..n /\ Len(t) = n
  <2> HIDE DEF sp
  <2> QED
    BY <1>1, <1>3
<1>5. ASSUME NEW p \in 1..n PROVE t[p][1] = line[sp[p].start]
  <2>1. t[p] = SubSeq(line, sp[p].start, sp[p].end)
    BY <1>3 DEF Text
  <2>2. /\ sp[p].start \in 1..Len(line) /\ sp[p].end \in sp[p].start..Len(line)
        /\ Len(line) \in Nat
    BY <1>2
  <2> HIDE DEF sp
  <2>3. 1 \in 1..(sp[p].end - sp[p].start + 1) /\ sp[p].start + 1 - 1 = sp[p].start
    BY <2>2
  <2>4. sp[p].start \in Int /\ sp[p].end \in Int /\ sp[p].start >= 1 /\ sp[p].end <= Len(line)
    BY <2>2
  <2>5. SubSeq(line, sp[p].start, sp[p].end)[1] = line[sp[p].start + 1 - 1]
    BY <2>3, <2>4, PartOfText
  <2> QED
    BY <2>1, <2>3, <2>5
<1>6. marks = Marks(t)
  BY <1>1, <1>4, <1>5 DEF Marks
<1>7. Compact(line) <=> /\ Len(WhitespaceTokens(line)) <= 1
                        /\ n >= MinCompactTokens
                        /\ Cardinality(marks) >= MinCompactMarks
  BY DEF Compact
<1> HIDE DEF marks
<1> QED
  BY <1>4, <1>6, <1>7

(* A number is not.                                                        *)
LEMMA NumberIsNotCompact ==
  ASSUME NEW line \in Seq(Characters), Len(WhitespaceTokens(line)) = 1,
         Number(WhitespaceTokens(line)[1])
  PROVE  ~Compact(line)
<1> DEFINE w == WhitespaceTokens(line)[1]
           C == Characters
           X == Seq(C)
           F == LexTexts(C)
           t == Texts(w, Lex(w))
<1>1. w \in X /\ Solid(w)
  BY DEF Number
<1>2. WhitespaceTokens(line) = << w >> /\ WhitespaceTokens(w) = << w >>
  <2>1. WhitespaceTokens(line) \in Seq(X)
    BY WordsType
  <2>2. \A s \in Seq(X) : Len(s) = 1 => s = << s[1] >>
    <3> HIDE DEF X
    <3> QED
      OBVIOUS
  <2>3. WhitespaceTokens(line) = << w >>
    BY <2>1, <2>2
  <2> QED
    BY <1>1, <2>3, SolidWord
<1>3. OfWords(F, line) = OfWords(F, w)
  BY <1>2 DEF OfWords
<1>4. Additive(F, C, X)
  BY LexIsAdditive
<1>5. F[line] = F[w]
  BY <1>1, <1>3, <1>4, WordsDecide
<1>6. Texts(line, Lex(line)) = t
  BY <1>1, <1>5 DEF LexTexts
<1>7. ASSUME NEW p \in DOMAIN t PROVE Kind[t[p][1]] = "word"
  <2> DEFINE sp == Lex(w)
  <2>1. /\ p \in 1..Len(sp) /\ Len(sp) \in Nat /\ DOMAIN sp = 1..Len(sp)
        /\ sp[p].start \in 1..Len(w) /\ sp[p].end \in sp[p].start..Len(w) /\ Len(w) \in Nat
    <3>1. Len(sp) \in Nat /\ DOMAIN sp = 1..Len(sp)
      BY <1>1, LexParts
    <3>2. p \in 1..Len(sp)
      BY <1>7, <3>1 DEF Texts
    <3>3. sp[p].start \in 1..Len(w) /\ sp[p].end \in sp[p].start..Len(w)
      BY <1>1, <3>2, LexParts
    <3> QED
      BY <1>1, <3>1, <3>2, <3>3
  <2>2. t[p] = SubSeq(w, sp[p].start, sp[p].end)
    BY <2>1 DEF Texts, Text
  <2> HIDE DEF sp, w
  <2>3. 1 \in 1..(sp[p].end - sp[p].start + 1) /\ sp[p].start + 1 - 1 = sp[p].start
    BY <2>1
  <2>4. sp[p].start \in Int /\ sp[p].end \in Int /\ sp[p].start >= 1 /\ sp[p].end <= Len(w)
    BY <2>1
  <2>5. SubSeq(w, sp[p].start, sp[p].end)[1] = w[sp[p].start + 1 - 1]
    BY <1>1, <2>3, <2>4, PartOfText
  <2>6. t[p][1] = w[sp[p].start]
    BY <2>2, <2>3, <2>5
  <2>7. w[sp[p].start] \in Digits
    BY <2>1, NumberIs DEF w
  <2>8. w[sp[p].start] \in DOMAIN Kind
    BY <1>1, <2>1 DEF Characters
  <2> QED
    BY <2>6, <2>7, <2>8, InkAssumption
<1>8. Marks(t) = {}
  BY <1>7 DEF Marks
<1>9. Cardinality(Marks(t)) = 0
  BY <1>8, FS_EmptySet
<1> QED
  BY <1>6, <1>9, CompactIs, CompactAssumption

(* Of lines alike but for numbers both are compact or none is.             *)
LEMMA AlikeCompact ==
  ASSUME NEW x \in Seq(Characters), NEW y \in Seq(Characters), AlikeButNumbers(x, y)
  PROVE  \/ ~Compact(x) /\ ~Compact(y)
         \/ (Compact(x) <=> Compact(y)) /\ Texts(x, Lex(x)) = Texts(y, Lex(y))
<1> DEFINE a == WhitespaceTokens(x)
           b == WhitespaceTokens(y)
<1>1. Len(a) \in Nat /\ DOMAIN a = 1..Len(a) /\ DOMAIN b = 1..Len(a) /\ Len(b) = Len(a)
  BY WordsAre DEF AlikeButNumbers
<1>2. CASE a = b
  <2>1. OfWords(LexTexts(Characters), x) = OfWords(LexTexts(Characters), y)
    BY <1>2 DEF OfWords
  <2>2. LexTexts(Characters)[x] = LexTexts(Characters)[y]
    BY <2>1, LexIsAdditive, WordsDecide
  <2>3. Texts(x, Lex(x)) = Texts(y, Lex(y))
    BY <2>2 DEF LexTexts
  <2> QED
    BY <1>2, <2>3, CompactIs
<1>3. CASE Len(a) > 1
  <2>1. ~(Len(a) <= 1) /\ ~(Len(b) <= 1)
    BY <1>1, <1>3
  <2> QED
    BY <2>1, CompactIs
<1>4. CASE a # b /\ ~(Len(a) > 1)
  <2>1. \E p \in 1..Len(a) : a[p] # b[p]
    <3>1. a \in Seq(Seq(Characters)) /\ b \in Seq(Seq(Characters))
      BY WordsAre
    <3> HIDE DEF a, b
    <3> QED
      BY <1>1, <1>4, <3>1, SeqEqual
  <2>2. Len(a) = 1 /\ a[1] # b[1]
    BY <1>1, <1>4, <2>1
  <2>3. Number(a[1]) /\ Number(b[1])
    BY <1>1, <2>2 DEF AlikeButNumbers
  <2> QED
    BY <1>1, <2>2, <2>3, NumberIsNotCompact
<1> QED
  BY <1>2, <1>3, <1>4

(* So drain_tokens makes the same of both, in every mode.                  *)
LEMMA AlikeTokens ==
  ASSUME NEW x \in Seq(Characters), NEW y \in Seq(Characters), AlikeButNumbers(x, y), NEW mode
  PROVE  DrainTokens(mode, x) = DrainTokens(mode, y)
<1>1. CASE mode = "drain-delimited"
  BY <1>1, AlikeMasked DEF DrainTokens
<1>2. CASE mode = "drain"
  <2>1. DrainTokens(mode, x) = IF Compact(x) THEN Texts(x, Lex(x)) ELSE WhitespaceTokens(Mask(x))
    BY <1>2 DEF DrainTokens
  <2>2. DrainTokens(mode, y) = IF Compact(y) THEN Texts(y, Lex(y)) ELSE WhitespaceTokens(Mask(y))
    BY <1>2 DEF DrainTokens
  <2> QED
    BY <2>1, <2>2, AlikeMasked, AlikeCompact
<1>3. CASE mode # "drain-delimited" /\ mode # "drain"
  BY <1>3, AlikeMasked DEF DrainTokens
<1> QED
  BY <1>1, <1>2, <1>3

-----------------------------------------------------------------------------
(* The engine's invariant and lemmas are those of DrainProofs, about the   *)
(* engine with the grouper's tokens.                                       *)

EngineProofs == INSTANCE DrainProofs WITH
  Lines <- EngineLines,
  RawTokens <- TokensOf, MaskedTokens <- TokensOf,
  Tokens <- AllTokens,
  NumericTokens <- Numeric, ParamStr <- <<Placeholder>>,
  MaxClusters <- NoLimit, MaxCalls <- MaxLines

(* The engine sees texts.                                                  *)
LEMMA TokensAreTexts ==
  ASSUME NEW line \in Seq(Characters), NEW mode
  PROVE  DrainTokens(mode, line) \in Seq(Seq(Characters))
<1> DEFINE X == Seq(Characters)
<1>1. Mask(line) \in X
  BY MaskedIs
<1>2. Delimited(Mask(line)) \in X
  BY <1>1, DelimitedIs
<1>3. /\ WhitespaceTokens(Delimited(Mask(line))) \in Seq(X)
      /\ WhitespaceTokens(Mask(line)) \in Seq(X) /\ Texts(line, Lex(line)) \in Seq(X)
  BY <1>1, <1>2, WordsType, LexSpans
<1> HIDE DEF X
<1>4. DrainTokens(mode, line) \in Seq(X)
  BY <1>3 DEF DrainTokens
<1> QED
  BY <1>4 DEF X

(* They are never the wildcard string.                                     *)
LEMMA EngineTokens ==
  /\ TokensOf \in [EngineLines -> Seq(AllTokens)]
  /\ \A l \in EngineLines : \A i \in DOMAIN TokensOf[l] : TokensOf[l][i] # << Placeholder >>
<1> DEFINE X == Seq(Characters)
<1>1. ASSUME NEW l \in EngineLines
      PROVE  TokensOf[l] \in Seq(X) /\ TokensOf[l] \in Seq(ToSet(TokensOf[l]))
  <2>1. l[2] \in X
    BY TemplaterAssumption DEF EngineLines, Characters
  <2>2. TokensOf[l] = DrainTokens(l[1], l[2])
    BY DEF TokensOf
  <2>3. TokensOf[l] \in Seq(X)
    BY <2>1, <2>2, TokensAreTexts
  <2> DEFINE t == TokensOf[l]
  <2> HIDE DEF X, t
  <2>4. ASSUME t \in Seq(X) PROVE t \in Seq(ToSet(t))
    <3>1. \A i \in 1..Len(t) : t[i] \in ToSet(t)
      BY <2>4 DEF ToSet
    <3> QED
      BY <2>4, <3>1
  <2> QED
    BY <2>3, <2>4 DEF t
<1>2. ASSUME NEW l \in EngineLines PROVE TokensOf[l] \in Seq(AllTokens)
  <2>1. ToSet(TokensOf[l]) \subseteq AllTokens
    BY DEF AllTokens
  <2>2. TokensOf[l] \in Seq(ToSet(TokensOf[l]))
    BY <1>1
  <2>3. \A S, T : S \subseteq T => \A s \in Seq(S) : s \in Seq(T)
    OBVIOUS
  <2> QED
    BY <2>1, <2>2, <2>3
<1>3. << Placeholder >> \notin X
  <2>1. ASSUME << Placeholder >> \in X PROVE FALSE
    <3>1. << Placeholder >>[1] \in Characters
      BY <2>1
    <3> QED
      BY <3>1, CharacterAssumption DEF Characters
  <2> QED
    BY <2>1
<1>4. ASSUME NEW l \in EngineLines, NEW i \in DOMAIN TokensOf[l]
      PROVE  TokensOf[l][i] # << Placeholder >>
  <2>1. TokensOf[l] \in Seq(X)
    BY <1>1
  <2> HIDE DEF X
  <2>2. TokensOf[l][i] \in X
    BY <2>1
  <2> QED
    BY <1>3, <2>2
<1>5. TokensOf \in [EngineLines -> Seq(AllTokens)]
  BY <1>2 DEF TokensOf
<1> QED
  BY <1>4, <1>5

(* What Drain assumes of its constants.                                    *)
LEMMA EngineAssumptions ==
  /\ TokensOf \in [EngineLines -> Seq(AllTokens)]
  /\ SimNum \in Nat /\ SimDen \in Nat \ {0} /\ SimNum <= SimDen
  /\ MaxNodeDepth \in Nat \ {0} /\ MaxChildren \in Nat
  /\ NoLimit \notin Nat /\ NoLimit \in (Nat \ {0}) \cup {NoLimit} /\ MaxLines \in Nat
BY EngineTokens, EngineAssumption

(* The engine of the grouper and that of the proofs are the same.          *)
LEMMA SameEngine ==
  ASSUME NEW l
  PROVE  EngineProofs!AddLogMessage(l) <=> Engine!AddLogMessage(l)
BY DEF EngineProofs!SearchLeaves, Engine!SearchLeaves, EngineProofs!Children,
       Engine!Children, EngineProofs!Keys, Engine!Keys, EngineProofs!RouteLen,
       Engine!RouteLen, EngineProofs!Descends, Engine!Descends, EngineProofs!AddLogMessage,
       Engine!AddLogMessage, EngineProofs!UpdateCluster, Engine!UpdateCluster,
       EngineProofs!Chosen, Engine!Chosen, EngineProofs!TreeSearch, Engine!TreeSearch,
       EngineProofs!FastMatch, Engine!FastMatch, EngineProofs!Best, Engine!Best,
       EngineProofs!Better, Engine!Better, EngineProofs!Score, Engine!Score,
       EngineProofs!SimTokens, Engine!SimTokens, EngineProofs!Matches, Engine!Matches,
       EngineProofs!Params, Engine!Params, EngineProofs!ParamCount, Engine!ParamCount,
       EngineProofs!GoodEnough, Engine!GoodEnough, EngineProofs!Reaches, Engine!Reaches,
       EngineProofs!CreateTemplate, Engine!CreateTemplate, EngineProofs!Promote,
       Engine!Promote, EngineProofs!Record, Engine!Record, EngineProofs!CreateCluster,
       Engine!CreateCluster, EngineProofs!Live, Engine!Live, EngineProofs!StoreNew,
       Engine!StoreNew, EngineProofs!Evicted, Engine!Evicted,
       EngineProofs!AddSeqToPrefixTree, Engine!AddSeqToPrefixTree, EngineProofs!LeafIds,
       Engine!LeafIds, EngineProofs!InsertPath, Engine!InsertPath, EngineProofs!InsertKey,
       Engine!InsertKey, EngineProofs!HasRoom, Engine!HasRoom, EngineProofs!Paths,
       Engine!Paths, EngineProofs!InsertPanics, Engine!InsertPanics, EngineProofs!Stuck,
       Engine!Stuck, EngineProofs!Cardinality, Engine!Cardinality

EngineInv == EngineProofs!LastInv

(* A new engine has seen no line.                                          *)
LEMMA InitEngineInv == Init => EngineInv
BY EngineAssumptions, EngineProofs!InitLastInv
   DEF Init, EngineInv, Engine!Init, EngineProofs!Init

(* Each line of the batch is a call of the engine.                         *)
LEMMA NextEngineInv ==
  ASSUME EngineInv, LinesLogged, [Next]_vars
  PROVE  EngineInv'
<1>1. EngineProofs!LastInv
  BY DEF EngineInv
<1>2. CASE GroupLine
  <2>1. PICK line \in Lines : Engine!AddLogMessage(<<grouper, line>>)
    BY <1>2 DEF GroupLine
  <2>2. <<grouper, line>> \in EngineLines /\ EngineProofs!AddLogMessage(<<grouper, line>>)
    BY <2>1, SameEngine DEF EngineLines, LinesLogged
  <2>3. EngineProofs!Next
    BY <2>2 DEF EngineProofs!Next
  <2> QED
    BY <1>1, <2>3, EngineAssumptions, EngineProofs!NextLastInv DEF EngineInv
<1>3. CASE UNCHANGED engineVars
  <2>1. EngineProofs!vars' = EngineProofs!vars
    BY <1>3 DEF engineVars, EngineProofs!vars
  <2> QED
    BY <1>1, <2>1, EngineAssumptions, EngineProofs!NextLastInv DEF EngineInv
<1> QED
  BY <1>2, <1>3 DEF Next, vars, engineVars, TemplateGroups

(* Whatever the lines and the parameters of the engine, a line that reads  *)
(* like the one before it but for numbers joins its group                  *)
(* (NumbersShareAGroup): it has the same tokens for the engine, and a line *)
(* with the tokens of the line before it goes to the same cluster.         *)
THEOREM Numbers == Spec => []NumbersShareAGroup
<1>1. EngineInv /\ LinesLogged => NumbersShareAGroup
  <2> DEFINE i == Len(log)
             x == log[i - 1].line[2]
             y == log[i].line[2]
             a == WhitespaceTokens(x)
             b == WhitespaceTokens(y)
             number(token) == ToSet(token) \subseteq Digits
  <2> SUFFICES ASSUME EngineInv, LinesLogged, i > 1, Len(a) = Len(b),
                      \A p \in DOMAIN a : a[p] = b[p] \/ (number(a[p]) /\ number(b[p]))
               PROVE  log[i].id = log[i - 1].id
    BY DEF NumbersShareAGroup
  <2>1. i \in Nat /\ i - 1 \in DOMAIN log /\ i \in DOMAIN log
    <3>1. log \in Seq(ToSet(log))
      BY DEF LinesLogged
    <3> QED
      BY <3>1
  <2>2. x \in Seq(Characters) /\ y \in Seq(Characters)
    BY <2>1, LoggedLine DEF Characters
  <2> HIDE DEF i
  <2>3. AlikeButNumbers(x, y)
    <3> HIDE DEF x, y
    <3>1. Len(a) \in Nat /\ DOMAIN a = 1..Len(a) /\ DOMAIN b = 1..Len(a)
      BY <2>2, WordsAre
    <3>2. \A p \in 1..Len(a) : /\ a[p] \in Seq(Characters) /\ Solid(a[p])
                               /\ b[p] \in Seq(Characters) /\ Solid(b[p])
      BY <2>2, <3>1, TokensAreSolid
    <3>3. \A p \in 1..Len(a) : a[p] = b[p] \/ (Number(a[p]) /\ Number(b[p]))
      BY <3>1, <3>2 DEF Number
    <3> QED
      BY <3>3 DEF AlikeButNumbers
  <2>4. /\ log[i].line \in EngineLines /\ log[i].line[1] = grouper
        /\ log[i - 1].line \in EngineLines /\ log[i - 1].line[1] = grouper
    BY <2>1 DEF LinesLogged
  <2>5. TokensOf[log[i].line] = TokensOf[log[i - 1].line]
    <3>1. /\ TokensOf[log[i].line] = DrainTokens(grouper, y)
          /\ TokensOf[log[i - 1].line] = DrainTokens(grouper, x)
      BY <2>4 DEF TokensOf
    <3> QED
      BY <2>2, <2>3, <3>1, AlikeTokens
  <2>6. EngineProofs!LastJoins
    BY DEF EngineInv, EngineProofs!LastInv
  <2>7. EngineProofs!Literal(log[i - 1].line)
    BY <2>4, EngineTokens DEF EngineProofs!Literal
  <2> QED
    BY <2>5, <2>6, <2>7 DEF EngineProofs!LastJoins, i
<1>2. EngineInv /\ LinesLogged /\ [Next]_vars => EngineInv'
  BY NextEngineInv
<1> QED
  BY <1>1, <1>2, InitEngineInv, LinesAreLogged, PTL DEF Spec
================================================================================

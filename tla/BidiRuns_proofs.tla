-------------------------- MODULE BidiRuns_proofs --------------------------
(***************************************************************************)
(* Facts about Runs and ReorderRuns, for any levels: the runs tile what     *)
(* they are made of, and reordering them gives the visual order.  Before    *)
(* them, what they rest on: least and greatest elements, induction and      *)
(* recursion over an interval, and the ascending tuple of a set.            *)
(***************************************************************************)
EXTENDS BidiRuns, FiniteSetTheorems, SequenceTheorems, WellFoundedInduction, TLAPS

(***************************************************************************)
(* Least and greatest elements, induction and recursion.                   *)
(***************************************************************************)
\* A nonempty set of numbers has a least element.
LEMMA LeastNat ==
  ASSUME NEW T \in SUBSET Nat, T # {}
  PROVE  \E x \in T : \A y \in T : x <= y
<1>1. PICK x \in T : \A y \in T : ~(<<y, x>> \in OpToRel(<, Nat))
  BY WFMin, NatLessThanWellFounded, Zenon
<1>2. \A y \in T : ~(y < x)
  BY <1>1 DEF OpToRel
<1> QED BY <1>2

\* A set of integers that is bounded has a least or a greatest element.
LEMMA MinFacts ==
  ASSUME NEW a \in Int, NEW S \in SUBSET Int, S # {}, \A x \in S : a <= x
  PROVE  Min(S) \in S /\ \A x \in S : Min(S) <= x
<1> DEFINE T == {y \in Nat : y + a \in S}
<1>1. T \in SUBSET Nat /\ T # {}
  <2>1. PICK x \in S : TRUE
    OBVIOUS
  <2>2. x - a \in Nat /\ (x - a) + a = x
    OBVIOUS
  <2>3. x - a \in T
    BY <2>2
  <2> QED BY <2>3
<1>2. PICK t \in T : \A y \in T : t <= y
  <2> HIDE DEF T
  <2> QED BY <1>1, LeastNat
<1>3. PICK x \in S : t = x - a
  OBVIOUS
<1>4. \A y \in S : y - a \in T
  OBVIOUS
<1>5. \A y \in S : x =< y
  <2> HIDE DEF T
  <2> QED BY <1>2, <1>3, <1>4
<1> QED BY <1>5 DEF Min

LEMMA MaxFacts ==
  ASSUME NEW a \in Int, NEW S \in SUBSET Int, S # {}, \A x \in S : x <= a
  PROVE  Max(S) \in S /\ \A x \in S : x <= Max(S)
<1> DEFINE T == {y \in Nat : a - y \in S}
<1>1. T \in SUBSET Nat /\ T # {}
  <2>1. PICK x \in S : TRUE
    OBVIOUS
  <2>2. a - x \in Nat /\ a - (a - x) = x
    OBVIOUS
  <2>3. a - x \in T
    BY <2>2
  <2> QED BY <2>3
<1>2. PICK t \in T : \A y \in T : t <= y
  <2> HIDE DEF T
  <2> QED BY <1>1, LeastNat
<1>3. PICK x \in S : x = a - t
  OBVIOUS
<1>4. \A y \in S : a - y \in Nat /\ a - (a - y) = y
  OBVIOUS
<1>5. \A y \in S : a - y \in T
  BY <1>4
<1>6. t \in Nat
  OBVIOUS
<1>7. \A y \in S : x >= y
  <2> HIDE DEF T
  <2> QED BY <1>2, <1>3, <1>5, <1>6
<1> QED BY <1>7 DEF Max

\* Induction over an interval, from either of its ends.
LEMMA InductionDown ==
  ASSUME NEW a \in Int, NEW b \in Int, NEW P, a <= b,
         b \in P, \A j \in a..(b - 1) : j + 1 \in P => j \in P
  PROVE  \A j \in a..b : j \in P
<1> SUFFICES ASSUME NEW j \in a..b, j \notin P PROVE FALSE
  OBVIOUS
<1> DEFINE T == {x \in a..b : x \notin P}
<1>1. Max(T) \in T /\ \A x \in T : x <= Max(T)
  <2>1. T \in SUBSET Int /\ T # {} /\ \A x \in T : x <= b
    OBVIOUS
  <2> HIDE DEF T
  <2> QED BY <2>1, MaxFacts
<1> DEFINE x == Max(T)
<1>2. x \in a..b /\ x \notin P /\ x # b
  BY <1>1
<1>3. \A y \in a..b : y \notin P => y <= x
  BY <1>1
<1> HIDE DEF x, T
<1>4. x \in a..(b - 1) /\ x + 1 \in a..b
  BY <1>2
<1>5. x + 1 \in P
  BY <1>3, <1>4
<1> QED BY <1>2, <1>4, <1>5

LEMMA InductionUp ==
  ASSUME NEW a \in Int, NEW b \in Int, NEW P, a <= b,
         a \in P, \A j \in (a + 1)..b : j - 1 \in P => j \in P
  PROVE  \A j \in a..b : j \in P
<1> DEFINE Q == {x \in Int : -x \in P}
<1>1. \A j \in (-b)..(-a - 1) : j + 1 \in Q => j \in Q
  <2> SUFFICES ASSUME NEW j \in (-b)..(-a - 1), j + 1 \in Q PROVE j \in Q
    OBVIOUS
  <2>1. -j \in (a + 1)..b /\ -j - 1 = -(j + 1)
    OBVIOUS
  <2>2. -j - 1 \in P
    BY <2>1
  <2> QED BY <2>1, <2>2
<1>2. -a \in Q
  <2>1. -(-a) = a
    OBVIOUS
  <2> QED BY <2>1
<1>3. \A j \in (-b)..(-a) : j \in Q
  <2> HIDE DEF Q
  <2>1. -b <= -a /\ -b \in Int /\ -a \in Int
    OBVIOUS
  <2> QED BY <1>1, <1>2, <2>1, InductionDown
<1> SUFFICES ASSUME NEW j \in a..b PROVE j \in P
  OBVIOUS
<1>4. -j \in (-b)..(-a) /\ -(-j) = j
  OBVIOUS
<1> QED BY <1>3, <1>4

\* What takes a value at j + 1, or at j - 1, to the value at j.
Steps(a, b, V) == [a..b -> [V -> V]]

\* A function whose values are given from the last to the first, or from the
\* first to the last.
ComesDown(a, b, V, start, step, f) ==
    /\ f \in [a..b -> V]
    /\ \A j \in a..b : f[j] = IF j = b THEN start ELSE step[j][f[j + 1]]

LEMMA RecursionDown ==
  ASSUME NEW a \in Int, NEW b \in Int, a <= b, NEW V, NEW start \in V,
         NEW step \in Steps(a, b, V)
  PROVE  \E f : ComesDown(a, b, V, start, step, f)
<1> DEFINE Fits(f, i) == /\ f \in [i..b -> V]
                         /\ \A j \in i..b : f[j] = IF j = b THEN start ELSE step[j][f[j + 1]]
           P == {i \in a..b : \E f : Fits(f, i)}
<1>0. step \in [a..b -> [V -> V]]
  BY DEF Steps
<1>1. b \in P
  <2>1. Fits([j \in b..b |-> start], b)
    OBVIOUS
  <2> HIDE DEF Fits
  <2> QED BY <2>1
<1>2. ASSUME NEW i \in a..(b - 1), i + 1 \in P PROVE i \in P
  <2>1. PICK f : Fits(f, i + 1)
    BY <1>2
  <2> DEFINE g == [j \in i..b |-> IF j = i THEN step[i][f[i + 1]] ELSE f[j]]
  <2>2. i \in a..b /\ i + 1 \in (i + 1)..b /\ f[i + 1] \in V
    BY <2>1
  <2>3. step[i][f[i + 1]] \in V
    BY <1>0, <2>2
  <2>4. g \in [i..b -> V]
    BY <2>1, <2>3
  <2>5. ASSUME NEW j \in i..b PROVE g[j] = IF j = b THEN start ELSE step[j][g[j + 1]]
    <3>1. CASE j = i
      <4>1. i + 1 \in i..b /\ i + 1 # i /\ i # b
        OBVIOUS
      <4>2. g[i + 1] = f[i + 1] /\ g[i] = step[i][f[i + 1]]
        BY <4>1
      <4> HIDE DEF g
      <4> QED BY <3>1, <4>1, <4>2
    <3>2. CASE j # i
      <4>1. j \in (i + 1)..b
        BY <3>2
      <4>2. g[j] = f[j]
        BY <3>2
      <4>3. j # b => j + 1 \in i..b /\ j + 1 # i
        BY <4>1
      <4>4. j # b => g[j + 1] = f[j + 1]
        BY <4>3
      <4>5. f[j] = IF j = b THEN start ELSE step[j][f[j + 1]]
        BY <2>1, <4>1
      <4> HIDE DEF g
      <4> QED BY <4>2, <4>4, <4>5
    <3> QED BY <3>1, <3>2
  <2>6. Fits(g, i)
    <3> HIDE DEF g
    <3> QED BY <2>4, <2>5
  <2> HIDE DEF Fits, g
  <2>7. i \in a..b
    OBVIOUS
  <2> QED BY <2>6, <2>7
<1>3. a \in P
  <2> HIDE DEF P
  <2>1. a \in a..b
    OBVIOUS
  <2> QED BY <1>1, <1>2, <2>1, InductionDown
<1> QED BY <1>3 DEF ComesDown

LEMMA RecursionUp ==
  ASSUME NEW a \in Int, NEW b \in Int, a <= b, NEW V, NEW start \in V,
         NEW step \in Steps(a, b, V)
  PROVE  \E f \in [a..b -> V] :
            \A j \in a..b : f[j] = IF j = a THEN start ELSE step[j][f[j - 1]]
<1>1. PICK lo \in Int, hi \in Int : lo = -b /\ hi = -a /\ lo <= hi
  OBVIOUS
<1>2. PICK back \in Steps(lo, hi, V) : \A j \in lo..hi : back[j] = step[-j]
  <2>1. [j \in lo..hi |-> step[-j]] \in [lo..hi -> [V -> V]]
    BY <1>1 DEF Steps
  <2> QED BY <2>1 DEF Steps
<1>3. PICK f \in [lo..hi -> V] :
         \A j \in lo..hi : f[j] = IF j = hi THEN start ELSE back[j][f[j + 1]]
  <2>1. \E f : ComesDown(lo, hi, V, start, back, f)
    BY <1>1, RecursionDown
  <2> QED BY <2>1 DEF ComesDown
<1> DEFINE g == [j \in a..b |-> f[-j]]
<1>4. \A j \in a..b : -j \in lo..hi /\ -(-j) = j /\ (-j = hi <=> j = a)
  BY <1>1
<1>5. g \in [a..b -> V]
  BY <1>4
<1>6. ASSUME NEW j \in a..b PROVE g[j] = IF j = a THEN start ELSE step[j][g[j - 1]]
  <2>1. g[j] = f[-j] /\ back[-j] = step[j]
    BY <1>2, <1>4
  <2>2. f[-j] = IF -j = hi THEN start ELSE back[-j][f[-j + 1]]
    BY <1>3, <1>4
  <2>3. j # a => j - 1 \in a..b /\ -(j - 1) = -j + 1
    OBVIOUS
  <2>4. j # a => g[j - 1] = f[-j + 1]
    BY <2>3
  <2> HIDE DEF g
  <2> QED BY <1>4, <2>1, <2>2, <2>4
<1> HIDE DEF g
<1> QED BY <1>5, <1>6

\* Ascending lists the set, in order.
LEMMA AscendingFacts ==
  ASSUME NEW n \in Nat, NEW S \in SUBSET (1..n)
  PROVE  /\ Ascending(S, n) \in Seq(S)
         /\ \A j, k \in 1..Len(Ascending(S, n)) : j < k => Ascending(S, n)[j] < Ascending(S, n)[k]
         /\ \A i \in S : \E k \in 1..Len(Ascending(S, n)) : Ascending(S, n)[k] = i
<1> DEFINE Fits(f) == f = [k \in 0..n |->
                             IF k = 0 THEN <<>> ELSE IF k \in S THEN Append(f[k - 1], k) ELSE f[k - 1]]
           upTo == CHOOSE f : Fits(f)
           V == Seq(Int)
<1>1. \E f : Fits(f)
  <2> DEFINE step == [k \in 0..n |-> [s \in V |-> IF k \in S THEN Append(s, k) ELSE s]]
  <2>1. step \in Steps(0, n, V)
    <3>1. \A k \in 0..n, s \in V : Append(s, k) \in V
      OBVIOUS
    <3> HIDE DEF V
    <3> QED BY <3>1 DEF Steps
  <2>2. <<>> \in V
    OBVIOUS
  <2>3. PICK f \in [0..n -> V] : \A k \in 0..n : f[k] = IF k = 0 THEN <<>> ELSE step[k][f[k - 1]]
    <3> HIDE DEF V, step
    <3> QED BY <2>1, <2>2, RecursionUp
  <2>4. ASSUME NEW k \in 0..n
        PROVE  f[k] = IF k = 0 THEN <<>> ELSE IF k \in S THEN Append(f[k - 1], k) ELSE f[k - 1]
    <3>1. k # 0 => k - 1 \in 0..n
      OBVIOUS
    <3>2. k # 0 => f[k - 1] \in V
      BY <3>1
    <3> HIDE DEF V
    <3>3. k # 0 => step[k][f[k - 1]] = IF k \in S THEN Append(f[k - 1], k) ELSE f[k - 1]
      BY <3>2
    <3> QED BY <2>3, <3>3
  <2>5. Fits(f)
    <3> HIDE DEF V, step
    <3> QED BY <2>4
  <2> HIDE DEF Fits
  <2> QED BY <2>5
<1>2. \A k \in 0..n :
         upTo[k] = IF k = 0 THEN <<>> ELSE IF k \in S THEN Append(upTo[k - 1], k) ELSE upTo[k - 1]
  <2>1. Fits(upTo)
    <3> HIDE DEF Fits
    <3> QED BY <1>1
  <2> HIDE DEF upTo
  <2> QED BY <2>1
<1>3. Ascending(S, n) = upTo[n]
  BY DEF Ascending
<1> HIDE DEF upTo, Fits
<1> DEFINE Good(k, s) == /\ s \in Seq(S)
                         /\ \A j \in 1..Len(s) : s[j] <= k
                         /\ \A j, l \in 1..Len(s) : j < l => s[j] < s[l]
                         /\ \A i \in S : i <= k => \E l \in 1..Len(s) : s[l] = i
           P == {k \in 0..n : Good(k, upTo[k])}
<1>10. ASSUME NEW s \in Seq(S)
       PROVE  Len(s) \in Nat /\ \A j \in 1..Len(s) : s[j] \in S /\ s[j] \in Int
  <2>1. Len(s) \in Nat
    BY LenProperties
  <2>2. \A j \in 1..Len(s) : s[j] \in S
    BY ElementOfSeq
  <2>3. \A x \in S : x \in Int
    OBVIOUS
  <2> HIDE DEF Good, P
  <2> QED BY <2>1, <2>2, <2>3, Zenon
<1>4. ASSUME NEW k \in 1..n, NEW s, Good(k - 1, s), k \in S
      PROVE  Good(k, Append(s, k))
  <2> DEFINE t == Append(s, k)
  <2>1. s \in Seq(S) /\ Len(s) \in Nat /\ \A j \in 1..Len(s) : s[j] \in S /\ s[j] \in Int
    BY <1>4, <1>10
  <2>2. /\ t \in Seq(S) /\ Len(t) = Len(s) + 1 /\ t[Len(s) + 1] = k
        /\ \A j \in 1..Len(s) : t[j] = s[j]
    BY <1>4, <2>1, AppendProperties
  <2> HIDE DEF t
  <2>3. \A j \in 1..Len(t) : j = Len(s) + 1 \/ j \in 1..Len(s)
    BY <2>1, <2>2
  <2>4. \A j \in 1..Len(t) : t[j] <= k
    BY <1>4, <2>1, <2>2, <2>3
  <2>5. \A j, l \in 1..Len(t) : j < l => t[j] < t[l]
    <3> SUFFICES ASSUME NEW j \in 1..Len(t), NEW l \in 1..Len(t), j < l PROVE t[j] < t[l]
      OBVIOUS
    <3>1. j \in 1..Len(s)
      BY <2>1, <2>2
    <3>2. CASE l = Len(s) + 1
      BY <1>4, <2>1, <2>2, <3>1, <3>2
    <3>3. CASE l \in 1..Len(s)
      BY <1>4, <2>1, <2>2, <3>1, <3>3
    <3> QED BY <2>3, <3>2, <3>3
  <2>6. ASSUME NEW i \in S, i <= k PROVE \E l \in 1..Len(t) : t[l] = i
    <3>1. CASE i = k
      BY <2>1, <2>2, <3>1
    <3>2. CASE i # k
      <4>1. i <= k - 1
        BY <2>6, <3>2
      <4>2. PICK l \in 1..Len(s) : s[l] = i
        BY <1>4, <4>1
      <4> QED BY <2>1, <2>2, <4>2
    <3> QED BY <3>1, <3>2
  <2> QED BY <2>2, <2>4, <2>5, <2>6 DEF t
<1>5. ASSUME NEW k \in 1..n, NEW s, Good(k - 1, s), k \notin S
      PROVE  Good(k, s)
  <2>1. \A j \in 1..Len(s) : s[j] \in Int
    BY <1>5, <1>10
  <2>2. \A i \in S : i <= k => i <= k - 1
    BY <1>5
  <2> QED BY <1>5, <2>1, <2>2
<1>6. 0 \in P
  <2>1. upTo[0] = <<>>
    BY <1>2
  <2>2. Good(0, <<>>) /\ 0 \in 0..n
    OBVIOUS
  <2> HIDE DEF Good
  <2> QED BY <2>1, <2>2
<1>7. ASSUME NEW k \in 1..n, k - 1 \in P PROVE k \in P
  <2>1. upTo[k] = IF k \in S THEN Append(upTo[k - 1], k) ELSE upTo[k - 1]
    BY <1>2
  <2>2. Good(k - 1, upTo[k - 1])
    BY <1>7
  <2> HIDE DEF Good
  <2>3. Good(k, upTo[k])
    BY <1>4, <1>5, <2>1, <2>2
  <2>4. k \in 0..n
    OBVIOUS
  <2> QED BY <2>3, <2>4
<1>8. n \in P
  <2> HIDE DEF P
  <2>1. 0 <= n /\ 0 \in Int /\ n \in Int /\ n \in 0..n /\ (0 + 1)..n = 1..n
    OBVIOUS
  <2>2. \A k \in 0..n : k \in P
    BY <1>6, <1>7, <2>1, InductionUp
  <2> QED BY <2>1, <2>2
<1>9. PICK s : s = Ascending(S, n) /\ Good(n, s)
  <2> HIDE DEF Good
  <2> QED BY <1>3, <1>8
<1>11. /\ s \in Seq(S)
       /\ \A j, k \in 1..Len(s) : j < k => s[j] < s[k]
       /\ \A i \in S : \E k \in 1..Len(s) : s[k] = i
  BY <1>9
<1> QED BY <1>9, <1>11

(***************************************************************************)
(* Reversing stretches.                                                    *)
(***************************************************************************)

\* Where each of m runs stands.
Places(m) == [1..m -> 1..m]

\* Every position has a mirror image in its own stretch of high, and none but the
\* positions of one stretch are the other way round.
Mirrors(m, high, r) ==
    /\ \A j \in 1..m : r[r[j]] = j
    /\ \A j, k \in 1..m : j <= k /\ k <= r[j] => j = r[j] \/ k \in high
    /\ \A j, k \in 1..m : r[j] <= k /\ k <= j => j = r[j] \/ k \in high
    /\ \A j, k \in 1..m : j < k => IF j..k \subseteq high THEN r[k] < r[j] ELSE r[j] < r[k]

\* ReverseEach puts at every position what was at its mirror image.
LEMMA ReverseFacts ==
  ASSUME NEW m \in Nat, NEW high \in SUBSET (1..m), NEW order \in Places(m)
  PROVE  \E r \in Places(m) : /\ Mirrors(m, high, r)
                              /\ ReverseEach(order, high) = [j \in 1..m |-> order[r[j]]]
<1> DEFINE low == (1..m) \ high
           first(j) == Max({1} \cup {k + 1 : k \in {n \in low : n < j}})
           last(j)  == Min({m} \cup {k - 1 : k \in {n \in low : n > j}})
           Ends(j, f, l) == /\ f \in 1..j /\ l \in j..m
                            /\ \A k \in f..l : k \in high
                            /\ f = 1 \/ f - 1 \notin high
                            /\ l = m \/ l + 1 \notin high
<1>1. ASSUME NEW j \in high PROVE Ends(j, first(j), last(j))
  <2> DEFINE F == {1} \cup {k + 1 : k \in {n \in low : n < j}}
             L == {m} \cup {k - 1 : k \in {n \in low : n > j}}
  <2>1. j \in 1..m
    OBVIOUS
  <2>2. Max(F) \in F /\ \A x \in F : x <= Max(F)
    <3>1. F \in SUBSET Int /\ F # {} /\ \A x \in F : x <= j
      BY <2>1
    <3>2. j \in Int
      BY <2>1
    <3> HIDE DEF F, first, last, Ends
    <3> QED BY <3>1, <3>2, MaxFacts
  <2>3. Min(L) \in L /\ \A x \in L : Min(L) <= x
    <3>1. L \in SUBSET Int /\ L # {} /\ \A x \in L : j <= x
      BY <2>1
    <3>2. j \in Int
      BY <2>1
    <3> HIDE DEF L, first, last, Ends
    <3> QED BY <3>1, <3>2, MinFacts
  <2> DEFINE f == Max(F)
             l == Min(L)
  <2>4. f \in 1..j /\ (f = 1 \/ f - 1 \notin high)
    <3> HIDE DEF f
    <3>1. f \in F
      BY <2>2 DEF f
    <3> QED BY <2>1, <3>1
  <2>5. l \in j..m /\ (l = m \/ l + 1 \notin high)
    <3> HIDE DEF l
    <3>1. l \in L
      BY <2>3 DEF l
    <3> QED BY <2>1, <3>1
  <2>6. ASSUME NEW k \in f..l, k \notin high PROVE FALSE
    <3>1. k \in low /\ k # j
      BY <2>4, <2>5, <2>6
    <3>2. CASE k < j
      <4>1. k + 1 \in F
        BY <3>1, <3>2
      <4>2. k + 1 <= f
        BY <2>2, <4>1
      <4> QED BY <2>4, <2>6, <4>2
    <3>3. CASE k > j
      <4>1. k - 1 \in L
        BY <3>1, <3>3
      <4>2. l <= k - 1
        BY <2>3, <4>1
      <4> QED BY <2>5, <2>6, <4>2
    <3> QED BY <2>1, <2>4, <2>5, <3>1, <3>2, <3>3
  <2> HIDE DEF f, l, F, L
  <2>7. Ends(j, f, l)
    BY <2>4, <2>5, <2>6
  <2> QED BY <2>7 DEF f, l, F, L
<1> HIDE DEF first, last
<1>2. ASSUME NEW j \in high, NEW k \in first(j)..last(j)
      PROVE  k \in high /\ first(k) = first(j) /\ last(k) = last(j)
  <2> DEFINE f == first(j)
             l == last(j)
             g == first(k)
             h == last(k)
  <2>1. j \in 1..m /\ Ends(j, f, l)
    BY <1>1
  <2>2. k \in high /\ k \in f..l
    BY <1>2, <2>1
  <2>3. Ends(k, g, h)
    BY <1>1, <2>2
  <2> HIDE DEF f, l, g, h
  <2>4. f = g
    <3>1. ~(f < g)
      <4>1. f < g => g - 1 \in f..l /\ g # 1
        BY <2>1, <2>2, <2>3
      <4> QED BY <2>1, <2>3, <4>1
    <3>2. ~(g < f)
      <4>1. g < f => f - 1 \in g..h /\ f # 1
        BY <2>1, <2>2, <2>3
      <4> QED BY <2>1, <2>3, <4>1
    <3> QED BY <2>1, <2>3, <3>1, <3>2
  <2>5. l = h
    <3>1. ~(h < l)
      <4>1. h < l => h + 1 \in f..l /\ h # m
        BY <2>1, <2>2, <2>3
      <4> QED BY <2>1, <2>3, <4>1
    <3>2. ~(l < h)
      <4>1. l < h => l + 1 \in g..h /\ l # m
        BY <2>1, <2>2, <2>3
      <4> QED BY <2>1, <2>3, <4>1
    <3> QED BY <2>1, <2>3, <3>1, <3>2
  <2> QED BY <2>2, <2>4, <2>5 DEF f, l, g, h
<1> DEFINE mirror(j) == IF j \in high THEN first(j) + last(j) - j ELSE j
<1>3. ASSUME NEW j \in high
      PROVE  mirror(j) = first(j) + last(j) - j /\ mirror(j) \in first(j)..last(j)
             /\ mirror(j) \in high /\ mirror(mirror(j)) = j
  <2>0. PICK f, l : f = first(j) /\ l = last(j)
    OBVIOUS
  <2>1. Ends(j, f, l)
    BY <1>1, <2>0
  <2> DEFINE i == first(j) + last(j) - j
  <2>2. i \in first(j)..last(j) /\ first(j) + last(j) - i = j
    <3>1. f \in Int /\ l \in Int /\ f <= j /\ j <= l /\ j \in Int
      BY <2>1
    <3>2. f + l - j \in f..l /\ f + l - (f + l - j) = j
      BY <3>1
    <3> QED BY <2>0, <3>2
  <2> HIDE DEF i
  <2>3. i \in high /\ first(i) = first(j) /\ last(i) = last(j)
    BY <1>2, <2>2
  <2> HIDE DEF Ends
  <2>4. mirror(j) = i
    BY DEF i
  <2> QED BY <2>2, <2>3, <2>4 DEF i
<1>4. \A j \in 1..m : mirror(j) \in 1..m /\ mirror(mirror(j)) = j
  <2> TAKE j \in 1..m
  <2>1. CASE j \in high
    <3> HIDE DEF mirror
    <3>1. mirror(j) \in high /\ mirror(mirror(j)) = j
      BY <1>3, <2>1
    <3> QED BY <3>1
  <2>2. CASE j \notin high
    BY <2>2
  <2> QED BY <2>1, <2>2
<1> HIDE DEF mirror
<1>5. PICK r \in Places(m) : \A j \in 1..m : r[j] = mirror(j)
  <2>1. [j \in 1..m |-> mirror(j)] \in Places(m)
    BY <1>4 DEF Places
  <2>2. \A j \in 1..m : [n \in 1..m |-> mirror(n)][j] = mirror(j)
    OBVIOUS
  <2> QED BY <2>1, <2>2
<1>13. \A j \in 1..m : r[j] \in 1..m
  BY DEF Places
<1>6. ReverseEach(order, high) = [j \in 1..m |-> order[r[j]]]
  <2>1. DOMAIN order = 1..m /\ Len(order) = m
    BY DEF Places
  <2>2. ReverseEach(order, high) =
          [j \in 1..m |-> IF j \in high THEN order[first(j) + last(j) - j] ELSE order[j]]
    BY <2>1, Zenon DEF ReverseEach, first, last
  <2>3. \A j \in 1..m : order[r[j]] = IF j \in high THEN order[first(j) + last(j) - j] ELSE order[j]
    <3> QED BY <1>5 DEF mirror
  <2> QED BY <2>2, <2>3
<1>7. ASSUME NEW j \in 1..m, NEW k \in 1..m,
             (j <= k /\ k <= r[j]) \/ (r[j] <= k /\ k <= j), j # r[j]
      PROVE  k \in high
  <2>1. j \in high
    BY <1>5, <1>7 DEF mirror
  <2>2. PICK f, l : f = first(j) /\ l = last(j)
    OBVIOUS
  <2>3. Ends(j, f, l) /\ r[j] \in f..l
    BY <1>1, <1>3, <1>5, <2>1, <2>2
  <2>4. k \in f..l
    <3>1. f \in Int /\ l \in Int /\ f <= j /\ j <= l /\ f <= r[j] /\ r[j] <= l /\ r[j] \in Int
      BY <2>3
    <3>2. k \in Int /\ j \in Int
      OBVIOUS
    <3> HIDE DEF Ends, low
    <3> QED BY <1>7, <3>1, <3>2
  <2> QED BY <1>2, <2>1, <2>2, <2>4
<1>8. ASSUME NEW j \in 1..m, NEW k \in 1..m, j < k
      PROVE  IF j..k \subseteq high THEN r[k] < r[j] ELSE r[j] < r[k]
  <2>1. CASE j..k \subseteq high
    <3>1. PICK f, l : f = first(j) /\ l = last(j)
      OBVIOUS
    <3>2. j \in high /\ k \in high /\ Ends(j, f, l)
      BY <1>1, <1>8, <2>1, <3>1
    <3>3. k \in f..l
      <4>1. l < k => l + 1 \in j..k /\ l # m
        BY <1>8, <3>2
      <4> QED BY <1>8, <2>1, <3>2, <4>1
    <3>4. first(k) = f /\ last(k) = l
      BY <1>2, <3>1, <3>2, <3>3
    <3>5. r[j] = f + l - j /\ r[k] = f + l - k
      BY <1>3, <1>5, <3>1, <3>2, <3>4
    <3> QED BY <1>8, <2>1, <3>2, <3>5
  <2>2. CASE ~(j..k \subseteq high)
    <3>1. PICK q \in j..k : q \notin high
      BY <2>2
    <3>2. q \in 1..m /\ j <= q /\ q <= k /\ r[j] \in 1..m /\ r[k] \in 1..m
      BY <1>13
    <3>7. r[j] \in Int /\ r[k] \in Int /\ q \in Int /\ j \in Int /\ k \in Int
      BY <3>2
    <3> HIDE DEF Ends, low
    <3>3. r[j] <= q
      <4>1. q <= r[j] => j = r[j]
        BY <1>7, <3>1, <3>2
      <4> QED BY <3>2, <3>7, <4>1
    <3>4. q <= r[k]
      <4>1. r[k] <= q => k = r[k]
        BY <1>7, <3>1, <3>2
      <4> QED BY <3>2, <3>7, <4>1
    <3>5. r[j] # r[k]
      BY <1>4, <1>5, <1>8
    <3>6. r[j] < r[k]
      BY <3>3, <3>4, <3>5, <3>7
    <3> QED BY <2>2, <3>6
  <2> QED BY <2>1, <2>2
<1>9. \A j \in 1..m : r[r[j]] = j
  BY <1>4, <1>5
<1>10. \A j, k \in 1..m : j <= k /\ k <= r[j] => j = r[j] \/ k \in high
  BY <1>5, <1>7
<1>11. \A j, k \in 1..m : r[j] <= k /\ k <= j => j = r[j] \/ k \in high
  BY <1>5, <1>7
<1>12. \A j, k \in 1..m : j < k => IF j..k \subseteq high THEN r[k] < r[j] ELSE r[j] < r[k]
  BY <1>5, <1>8
<1>14. Mirrors(m, high, r)
  BY <1>9, <1>10, <1>11, <1>12 DEF Mirrors
<1> QED BY <1>6, <1>14

(***************************************************************************)
(* ReorderRuns.                                                            *)
(***************************************************************************)

\* The levels of m runs, and the lowest from one run to a later one.
LevelLists(m) == [1..m -> Nat \cup {-1}]
Lowest(lev, a, b) == Min({lev[k] : k \in a..b})

LEMMA LowestFacts ==
  ASSUME NEW m \in Nat, NEW lev \in LevelLists(m), NEW a \in 1..m, NEW b \in 1..m, a <= b
  PROVE  /\ Lowest(lev, a, b) \in Int
         /\ \E k \in 1..m : a <= k /\ k <= b /\ lev[k] = Lowest(lev, a, b)
         /\ \A k \in 1..m : a <= k /\ k <= b => Lowest(lev, a, b) <= lev[k]
<1>1. \A k \in 1..m : lev[k] \in Int /\ -1 <= lev[k]
  BY DEF LevelLists
<1> DEFINE S == {lev[k] : k \in a..b}
<1>2. \A k \in a..b : k \in 1..m
  OBVIOUS
<1>3. S \in SUBSET Int /\ S # {} /\ \A x \in S : -1 <= x
  <2>1. lev[a] \in S
    OBVIOUS
  <2>2. \A x \in S : x \in Int /\ -1 <= x
    BY <1>1, <1>2
  <2> QED BY <2>1, <2>2
<1>4. Min(S) \in S /\ \A x \in S : Min(S) <= x
  <2> HIDE DEF S
  <2> QED BY <1>3, MinFacts
<1>5. PICK l \in S : l = Lowest(lev, a, b) /\ \A x \in S : l <= x
  BY <1>4 DEF Lowest
<1>6. PICK c \in a..b : l = lev[c]
  BY <1>5
<1>7. \A k \in 1..m : a <= k /\ k <= b => lev[k] \in S
  OBVIOUS
<1> HIDE DEF S
<1> QED BY <1>1, <1>2, <1>5, <1>6, <1>7

\* Whether the levels from i on reverse run a and a later run b in all.
Turned(lev, a, b, i) == Lowest(lev, a, b) >= i /\ (Lowest(lev, a, b) - i) % 2 = 0

\* Once the levels from i on are done, every run is somewhere, none has left
\* the runs of its stretch, and two are the other way round if they are turned.
Ordered(m, lev, order, i) ==
    /\ \A a \in 1..m : \E p \in 1..m : order[p] = a
    /\ \A p, k \in 1..m : p <= k /\ k <= order[p] => p = order[p] \/ lev[k] >= i
    /\ \A p, k \in 1..m : order[p] <= k /\ k <= p => p = order[p] \/ lev[k] >= i
    /\ \A p, q \in 1..m : p < q =>
          /\ order[p] # order[q]
          /\ order[p] < order[q] => ~Turned(lev, order[p], order[q], i)
          /\ order[q] < order[p] => Turned(lev, order[q], order[p], i)

\* A reversal turns the runs between which no level is lower, and no others.
LEMMA TurnedStep ==
  ASSUME NEW m \in Nat, NEW lev \in LevelLists(m), NEW i \in Int,
         NEW a \in 1..m, NEW b \in 1..m, a < b
  PROVE  /\ (\A k \in 1..m : a <= k /\ k <= b => lev[k] >= i)
               => (Turned(lev, a, b, i) <=> ~Turned(lev, a, b, i + 1))
         /\ (\E k \in 1..m : a <= k /\ k <= b /\ lev[k] < i) => ~Turned(lev, a, b, i)
<1>0. /\ Lowest(lev, a, b) \in Int
      /\ \E k \in 1..m : a <= k /\ k <= b /\ lev[k] = Lowest(lev, a, b)
      /\ \A k \in 1..m : a <= k /\ k <= b => Lowest(lev, a, b) <= lev[k]
  <2>1. a <= b
    OBVIOUS
  <2> QED BY <2>1, LowestFacts
<1>1. PICK l \in Int : l = Lowest(lev, a, b)
  BY <1>0
<1>2. \E k \in 1..m : a <= k /\ k <= b /\ lev[k] = l
  BY <1>0, <1>1
<1>3. \A k \in 1..m : a <= k /\ k <= b => l <= lev[k]
  BY <1>0, <1>1
<1>4. \A k \in 1..m : lev[k] \in Int
  BY DEF LevelLists
<1>5. /\ Turned(lev, a, b, i) <=> l >= i /\ (l - i) % 2 = 0
      /\ Turned(lev, a, b, i + 1) <=> l >= i + 1 /\ (l - (i + 1)) % 2 = 0
  BY <1>1 DEF Turned
<1>6. ASSUME l >= i PROVE Turned(lev, a, b, i) <=> ~Turned(lev, a, b, i + 1)
  BY <1>5, <1>6
<1>7. (\A k \in 1..m : a <= k /\ k <= b => lev[k] >= i) => l >= i
  BY <1>2
<1>8. (\E k \in 1..m : a <= k /\ k <= b /\ lev[k] < i) => ~(l >= i)
  BY <1>3, <1>4
<1> QED BY <1>5, <1>6, <1>7, <1>8

\* One round of L2.
LEMMA OrderedStep ==
  ASSUME NEW m \in Nat, NEW lev \in LevelLists(m), NEW i \in Int,
         NEW order \in Places(m), Ordered(m, lev, order, i + 1),
         NEW high, high = {j \in 1..m : lev[j] >= i}
  PROVE  /\ ReverseEach(order, high) \in Places(m)
         /\ Ordered(m, lev, ReverseEach(order, high), i)
<1>1. high \in SUBSET (1..m)
  OBVIOUS
<1>2. PICK r \in Places(m) : Mirrors(m, high, r) /\ ReverseEach(order, high) = [j \in 1..m |-> order[r[j]]]
  BY <1>1, ReverseFacts
<1>3. PICK new : new = ReverseEach(order, high)
  OBVIOUS
<1>4. \A j \in 1..m : r[j] \in 1..m /\ order[j] \in 1..m
  BY DEF Places
<1>5. new \in Places(m) /\ \A j \in 1..m : new[j] = order[r[j]] /\ new[j] \in 1..m
  <2>1. new = [j \in 1..m |-> order[r[j]]]
    BY <1>2, <1>3
  <2>2. \A j \in 1..m : order[r[j]] \in 1..m
    BY <1>4
  <2> QED BY <2>1, <2>2 DEF Places
<1>6. \A k \in 1..m : lev[k] \in Int /\ (k \in high <=> lev[k] >= i)
  <2>1. \A k \in 1..m : lev[k] \in Int
    BY DEF LevelLists
  <2> QED BY <2>1
<1> DEFINE Joined(x, y) == \A k \in 1..m : (x <= k /\ k <= y) \/ (y <= k /\ k <= x) => k \in high
<1>7. ASSUME NEW j \in 1..m PROVE j = r[j] \/ Joined(j, r[j])
  BY <1>2 DEF Mirrors
<1>8. ASSUME NEW j \in 1..m PROVE j = order[j] \/ Joined(j, order[j])
  <2> SUFFICES ASSUME j # order[j], NEW k \in 1..m,
                      (j <= k /\ k <= order[j]) \/ (order[j] <= k /\ k <= j)
               PROVE  k \in high
    OBVIOUS
  <2>1. lev[k] >= i + 1
    BY <1>8 DEF Ordered
  <2>2. lev[k] \in Int
    BY <1>6
  <2>3. lev[k] >= i
    BY <2>1, <2>2
  <2> QED BY <1>6, <2>3
<1>9. ASSUME NEW x \in 1..m, NEW y \in 1..m, NEW z \in 1..m, Joined(x, y), Joined(y, z)
      PROVE  Joined(x, z)
  <2> SUFFICES ASSUME NEW k \in 1..m, (x <= k /\ k <= z) \/ (z <= k /\ k <= x) PROVE k \in high
    OBVIOUS
  <2>1. (x <= k /\ k <= y) \/ (y <= k /\ k <= x) \/ (y <= k /\ k <= z) \/ (z <= k /\ k <= y)
    OBVIOUS
  <2> QED BY <1>9, <2>1
<1>10. ASSUME NEW j \in 1..m PROVE j = new[j] \/ Joined(j, new[j])
  <2>1. r[j] \in 1..m /\ new[j] = order[r[j]] /\ new[j] \in 1..m
    BY <1>4, <1>5
  <2>2. j = r[j] \/ Joined(j, r[j])
    BY <1>7
  <2>3. r[j] = new[j] \/ Joined(r[j], new[j])
    BY <1>8, <2>1
  <2> HIDE DEF Joined
  <2>4. CASE j = r[j]
    BY <2>3, <2>4
  <2>5. CASE r[j] = new[j]
    BY <2>2, <2>5
  <2>6. CASE Joined(j, r[j]) /\ Joined(r[j], new[j])
    BY <1>9, <2>1, <2>6
  <2> QED BY <2>2, <2>3, <2>4, <2>5, <2>6
<1>11. \A a \in 1..m : \E p \in 1..m : new[p] = a
  <2> TAKE a \in 1..m
  <2>1. PICK p \in 1..m : order[p] = a
    BY DEF Ordered
  <2>2. r[p] \in 1..m /\ r[r[p]] = p
    BY <1>2, <1>4 DEF Mirrors
  <2> QED BY <1>5, <2>1, <2>2
<1>12. \A p, k \in 1..m : (p <= k /\ k <= new[p]) \/ (new[p] <= k /\ k <= p) => p = new[p] \/ lev[k] >= i
  <2> TAKE p \in 1..m, k \in 1..m
  <2> SUFFICES ASSUME (p <= k /\ k <= new[p]) \/ (new[p] <= k /\ k <= p), p # new[p] PROVE lev[k] >= i
    OBVIOUS
  <2>1. Joined(p, new[p])
    BY <1>10
  <2>2. k \in high
    BY <2>1
  <2> QED BY <1>6, <2>2
<1>13. ASSUME NEW p \in 1..m, NEW q \in 1..m, p < q
       PROVE  /\ new[p] # new[q]
              /\ new[p] < new[q] => ~Turned(lev, new[p], new[q], i)
              /\ new[q] < new[p] => Turned(lev, new[q], new[p], i)
  <2>1. PICK a \in 1..m, b \in 1..m, s \in 1..m, t \in 1..m :
           a = new[p] /\ b = new[q] /\ s = r[p] /\ t = r[q] /\ a = order[s] /\ b = order[t]
    <3>1. new[p] \in 1..m /\ new[q] \in 1..m /\ r[p] \in 1..m /\ r[q] \in 1..m
      BY <1>4, <1>5
    <3>2. new[p] = order[r[p]] /\ new[q] = order[r[q]]
      BY <1>5
    <3> HIDE DEF Joined
    <3> QED BY <3>1, <3>2, Zenon
  <2>2. s # t
    BY <1>2, <1>13, <2>1 DEF Mirrors
  <2>3. a # b
    <3>1. \A x, y \in 1..m : x < y => order[x] # order[y]
      BY DEF Ordered
    <3>2. s < t \/ t < s
      BY <2>2
    <3> QED BY <2>1, <3>1, <3>2
  <2>4. CASE p..q \subseteq high
    <3>1. t < s
      BY <1>2, <1>13, <2>1, <2>4 DEF Mirrors
    <3>2. /\ b < a => ~Turned(lev, b, a, i + 1)
          /\ a < b => Turned(lev, a, b, i + 1)
      BY <2>1, <3>1 DEF Ordered
    <3>3. Joined(p, q)
      <4>1. \A k \in 1..m : (p <= k /\ k <= q) \/ (q <= k /\ k <= p) => k \in p..q
        BY <1>13
      <4> QED BY <2>4, <4>1
    <3>4. Joined(p, b)
      <4>1. q = b \/ Joined(q, b)
        BY <1>10, <2>1
      <4> HIDE DEF Joined
      <4> QED BY <1>9, <3>3, <4>1
    <3>5. Joined(a, b)
      <4>1. p = a \/ Joined(p, a)
        BY <1>10, <2>1
      <4>2. Joined(p, a) => Joined(a, p)
        OBVIOUS
      <4> HIDE DEF Joined
      <4> QED BY <1>9, <3>4, <4>1, <4>2
    <3>6. \A k \in 1..m : (a <= k /\ k <= b) \/ (b <= k /\ k <= a) => lev[k] >= i
      BY <1>6, <3>5
    <3>7. a < b => ~Turned(lev, a, b, i)
      <4> SUFFICES ASSUME a < b PROVE ~Turned(lev, a, b, i)
        OBVIOUS
      <4>1. \A k \in 1..m : a <= k /\ k <= b => lev[k] >= i
        BY <3>6
      <4> QED BY <3>2, <4>1, TurnedStep
    <3>8. b < a => Turned(lev, b, a, i)
      <4> SUFFICES ASSUME b < a PROVE Turned(lev, b, a, i)
        OBVIOUS
      <4>1. \A k \in 1..m : b <= k /\ k <= a => lev[k] >= i
        BY <3>6
      <4> QED BY <3>2, <4>1, TurnedStep
    <3> QED BY <2>1, <2>3, <3>7, <3>8
  <2>5. CASE ~(p..q \subseteq high)
    <3>1. PICK u \in p..q : u \notin high
      BY <2>5
    <3>2. u \in 1..m /\ p <= u /\ u <= q
      OBVIOUS
    <3>3. a <= u
      <4>1. p = a \/ Joined(p, a)
        BY <1>10, <2>1
      <4> QED BY <3>1, <3>2, <4>1
    <3>4. u <= b
      <4>1. q = b \/ Joined(q, b)
        BY <1>10, <2>1
      <4> QED BY <3>1, <3>2, <4>1
    <3>5. a < b
      BY <2>3, <3>2, <3>3, <3>4
    <3>6. lev[u] < i
      BY <1>6, <3>1, <3>2
    <3>7. ~Turned(lev, a, b, i)
      BY <3>2, <3>3, <3>4, <3>5, <3>6, TurnedStep
    <3> QED BY <2>1, <2>3, <3>5, <3>7
  <2> QED BY <2>4, <2>5
<1> HIDE DEF Joined
<1>14. Ordered(m, lev, new, i)
  BY <1>11, <1>12, <1>13 DEF Ordered
<1> QED BY <1>3, <1>5, <1>14

\* Every run has one place, and is before a later one if the lowest level from
\* the one to the other is even.
VisualPlaces(m, lev, order) ==
    /\ \A a \in 1..m : \E p \in 1..m : order[p] = a
    /\ \A p, q \in 1..m : p # q => order[p] # order[q]
    /\ \A p, q \in 1..m :
          order[p] < order[q] => (p < q <=> Lowest(lev, order[p], order[q]) % 2 = 0)

\* The rounds down to the least odd level put the runs into visual order.
LEMMA OrderedIsVisual ==
  ASSUME NEW m \in Nat, NEW lev \in LevelLists(m), NEW i \in Int, i % 2 # 0,
         \A k \in 1..m : lev[k] % 2 # 0 => i <= lev[k],
         NEW order \in Places(m), Ordered(m, lev, order, i)
  PROVE  VisualPlaces(m, lev, order)
<1>1. \A p \in 1..m : order[p] \in 1..m
  BY DEF Places
<1>2. \A a \in 1..m : \E p \in 1..m : order[p] = a
  BY DEF Ordered
<1>3. \A p, q \in 1..m : p # q => order[p] # order[q]
  <2>1. \A p, q \in 1..m : p < q => order[p] # order[q]
    BY DEF Ordered
  <2>2. \A p, q \in 1..m : p # q => p < q \/ q < p
    OBVIOUS
  <2> QED BY <2>1, <2>2
<1>4. ASSUME NEW p \in 1..m, NEW q \in 1..m, order[p] < order[q]
      PROVE  p < q <=> Lowest(lev, order[p], order[q]) % 2 = 0
  <2>1. PICK a \in 1..m, b \in 1..m : a = order[p] /\ b = order[q]
    BY <1>1
  <2>2. a < b /\ a <= b
    BY <1>4, <2>1
  <2>3. /\ Lowest(lev, a, b) \in Int
        /\ \E k \in 1..m : a <= k /\ k <= b /\ lev[k] = Lowest(lev, a, b)
    BY <2>2, LowestFacts
  <2>4. PICK l \in Int : l = Lowest(lev, a, b)
    BY <2>3
  <2>5. l % 2 # 0 => i <= l
    BY <2>3, <2>4
  <2>6. Turned(lev, a, b, i) <=> l >= i /\ (l - i) % 2 = 0
    BY <2>4 DEF Turned
  <2>7. Turned(lev, a, b, i) <=> l % 2 # 0
    BY <2>5, <2>6
  <2>8. p < q => ~Turned(lev, a, b, i)
    BY <2>1, <2>2 DEF Ordered
  <2>9. q < p => Turned(lev, a, b, i)
    BY <2>1, <2>2 DEF Ordered
  <2>10. p < q \/ q < p
    <3>1. p # q
      BY <2>1, <2>2
    <3> QED BY <3>1
  <2> QED BY <2>1, <2>4, <2>7, <2>8, <2>9, <2>10
<1> QED BY <1>2, <1>3, <1>4 DEF VisualPlaces

\* Before the first round every run is in its own place.
LEMMA OrderedAtFirst ==
  ASSUME NEW m \in Nat, NEW lev \in LevelLists(m), NEW highest \in Int,
         \A k \in 1..m : lev[k] <= highest,
         NEW order, order = [n \in 1..m |-> n]
  PROVE  order \in Places(m) /\ Ordered(m, lev, order, highest + 1)
<1>1. order \in Places(m) /\ \A p \in 1..m : order[p] = p
  BY DEF Places
<1>2. ASSUME NEW p \in 1..m, NEW q \in 1..m, p < q
      PROVE  ~Turned(lev, p, q, highest + 1)
  <2>0. p <= q
    BY <1>2
  <2>1. Lowest(lev, p, q) \in Int /\ \A k \in 1..m : p <= k /\ k <= q => Lowest(lev, p, q) <= lev[k]
    BY <2>0, LowestFacts
  <2>2. PICK l \in Int : l = Lowest(lev, p, q)
    BY <2>1
  <2>3. l <= lev[p] /\ lev[p] <= highest
    BY <2>0, <2>1, <2>2
  <2>4. lev[p] \in Int
    BY DEF LevelLists
  <2> QED BY <2>2, <2>3, <2>4 DEF Turned
<1>3. \A p, k \in 1..m : p <= k /\ k <= order[p] => p = order[p] \/ lev[k] >= highest + 1
  BY <1>1
<1>4. \A p, k \in 1..m : order[p] <= k /\ k <= p => p = order[p] \/ lev[k] >= highest + 1
  BY <1>1
<1>5. \A a \in 1..m : \E p \in 1..m : order[p] = a
  BY <1>1
<1>6. \A p, q \in 1..m : p < q =>
          /\ order[p] # order[q]
          /\ order[p] < order[q] => ~Turned(lev, order[p], order[q], highest + 1)
          /\ order[q] < order[p] => Turned(lev, order[q], order[p], highest + 1)
  BY <1>1, <1>2
<1> QED BY <1>1, <1>3, <1>4, <1>5, <1>6 DEF Ordered

AtLeast(m, lev, i) == {j \in 1..m : lev[j] >= i}

\* The orders between the rounds of L2.
Rounds(m, lev, least, b, id, f) ==
    /\ f \in [least..b -> Places(m)]
    /\ \A j \in least..b :
          f[j] = IF j = b THEN id ELSE ReverseEach(f[j + 1], AtLeast(m, lev, j))

LEMMA RoundsExist ==
  ASSUME NEW m \in Nat, NEW lev \in LevelLists(m), NEW least \in Int, NEW b \in Int,
         least <= b, NEW id \in Places(m)
  PROVE  \E f : Rounds(m, lev, least, b, id, f)
<1>1. \A o \in Places(m), i \in Int : ReverseEach(o, AtLeast(m, lev, i)) \in Places(m)
  <2> TAKE o \in Places(m), i \in Int
  <2>1. AtLeast(m, lev, i) \in SUBSET (1..m)
    BY DEF AtLeast
  <2>2. PICK r \in Places(m) : ReverseEach(o, AtLeast(m, lev, i)) = [j \in 1..m |-> o[r[j]]]
    BY <2>1, ReverseFacts
  <2>3. \A j \in 1..m : r[j] \in 1..m /\ o[j] \in 1..m
    BY DEF Places
  <2> QED BY <2>2, <2>3 DEF Places
<1> DEFINE step == [j \in least..b |-> [o \in Places(m) |-> ReverseEach(o, AtLeast(m, lev, j))]]
<1>2. step \in Steps(least, b, Places(m))
  BY <1>1 DEF Steps
<1>3. PICK f \in [least..b -> Places(m)] :
         \A j \in least..b : f[j] = IF j = b THEN id ELSE step[j][f[j + 1]]
  <2> HIDE DEF step
  <2>1. \E f : ComesDown(least, b, Places(m), id, step, f)
    BY <1>2, RecursionDown
  <2> QED BY <2>1 DEF ComesDown
<1>4. ASSUME NEW j \in least..b, j # b
      PROVE  step[j][f[j + 1]] = ReverseEach(f[j + 1], AtLeast(m, lev, j))
  <2>1. j + 1 \in least..b
    BY <1>4
  <2>2. f[j + 1] \in Places(m)
    BY <2>1
  <2> QED BY <2>2
<1> HIDE DEF step
<1> QED BY <1>3, <1>4 DEF Rounds

\* ReorderRuns gives the visual order, whatever the levels.
LEMMA ReorderFacts ==
  ASSUME NEW m \in Nat, NEW runs, DOMAIN runs = 1..m, NEW lev \in LevelLists(m),
         \A k \in 1..m : runs[k].level = lev[k],
         NEW highest \in Int, \A k \in 1..m : lev[k] <= highest
  PROVE  ReorderRuns(runs, highest) \in Places(m) /\ VisualPlaces(m, lev, ReorderRuns(runs, highest))
<1> DEFINE odd == {runs[n].level : n \in {k \in DOMAIN runs : runs[k].level % 2 # 0}}
           id == [n \in DOMAIN runs |-> n]
           Fits(f) == f = [i \in Min(odd)..(highest + 1) |->
                             IF i = highest + 1 THEN id ELSE ReverseStretch(f[i + 1], runs, i)]
           from == CHOOSE f : Fits(f)
<1>1. ReorderRuns(runs, highest) = IF odd = {} THEN id ELSE from[Min(odd)]
  BY DEF ReorderRuns
<1>2. \A k \in 1..m : lev[k] \in Int /\ -1 <= lev[k]
  BY DEF LevelLists
<1>3. id \in Places(m) /\ Ordered(m, lev, id, highest + 1)
  <2>1. id = [n \in 1..m |-> n]
    OBVIOUS
  <2> HIDE DEF id
  <2> QED BY <2>1, OrderedAtFirst
<1>4. odd = {lev[k] : k \in {n \in 1..m : lev[n] % 2 # 0}}
  OBVIOUS
<1>5. \A o, i : ReverseStretch(o, runs, i) = ReverseEach(o, {j \in 1..m : lev[j] >= i})
  <2> TAKE o, i
  <2>1. {j \in DOMAIN runs : runs[j].level >= i} = {j \in 1..m : lev[j] >= i}
    OBVIOUS
  <2> QED BY <2>1 DEF ReverseStretch
<1> HIDE DEF id, odd, from
<1>6. CASE odd = {}
  <2>1. \A k \in 1..m : lev[k] % 2 = 0
    BY <1>4, <1>6
  <2> DEFINE i == 2 * highest + 3
  <2>2. i \in Int /\ i % 2 # 0
    OBVIOUS
  <2>3. \A p \in 1..m : id[p] = p
    BY DEF id
  <2>4. Ordered(m, lev, id, highest + 1)
    BY <1>3
  <2>5. ASSUME NEW p \in 1..m, NEW q \in 1..m, p < q
        PROVE  Lowest(lev, p, q) % 2 = 0
    <3>1. p <= q
      BY <2>5
    <3>2. \E k \in 1..m : p <= k /\ k <= q /\ lev[k] = Lowest(lev, p, q)
      BY <3>1, LowestFacts
    <3> QED BY <2>1, <3>2
  <2>6. VisualPlaces(m, lev, id)
    <3> HIDE DEF i
    <3> QED BY <2>3, <2>5 DEF VisualPlaces
  <2> QED BY <1>1, <1>3, <1>6, <2>6
<1>7. CASE odd # {}
  <2>1. Min(odd) \in odd /\ \A x \in odd : Min(odd) <= x
    <3>1. PICK S : S = odd
      OBVIOUS
    <3>2. S \in SUBSET Int /\ S # {} /\ \A x \in S : -1 <= x
      BY <1>2, <1>4, <1>7, <3>1
    <3>3. -1 \in Int
      OBVIOUS
    <3> HIDE DEF Fits
    <3>4. Min(S) \in S /\ \A x \in S : Min(S) <= x
      BY <3>2, <3>3, MinFacts
    <3> QED BY <3>1, <3>4
  <2>2. PICK least \in Int : least = Min(odd)
    BY <1>2, <1>4, <2>1
  <2>3. /\ least % 2 # 0 /\ least <= highest + 1
        /\ \A k \in 1..m : lev[k] % 2 # 0 => least <= lev[k]
    <3>1. PICK k \in 1..m : lev[k] = least /\ lev[k] % 2 # 0
      BY <1>4, <2>1, <2>2
    <3>2. lev[k] <= highest /\ lev[k] \in Int
      BY <1>2
    <3>3. \A n \in 1..m : lev[n] % 2 # 0 => least <= lev[n]
      BY <1>4, <2>1, <2>2
    <3>4. least <= highest + 1
      BY <3>1, <3>2
    <3> QED BY <3>1, <3>3, <3>4
  <2>15. \A o, i : ReverseStretch(o, runs, i) = ReverseEach(o, AtLeast(m, lev, i))
    BY <1>5 DEF AtLeast
  <2>5. PICK b \in Int : b = highest + 1
    OBVIOUS
  <2>6. PICK f : Rounds(m, lev, least, b, id, f)
    <3>1. least <= b /\ id \in Places(m)
      BY <1>3, <2>3, <2>5
    <3> HIDE DEF Fits
    <3> QED BY <3>1, RoundsExist
  <2>7. Fits(f)
    <3>1. f = [j \in least..b |-> f[j]]
      BY <2>6 DEF Rounds
    <3>2. \A j \in least..b : f[j] = IF j = b THEN id ELSE ReverseStretch(f[j + 1], runs, j)
      <4> HIDE DEF Fits
      <4> QED BY <2>6, <2>15 DEF Rounds
    <3>3. f = [j \in least..b |-> IF j = b THEN id ELSE ReverseStretch(f[j + 1], runs, j)]
      BY <3>1, <3>2, Zenon
    <3> QED BY <2>2, <2>5, <3>3
  <2>8. Fits(from)
    <3> HIDE DEF Fits
    <3> QED BY <2>7 DEF from
  <2>9. \A j \in least..b : from[j] = IF j = b THEN id ELSE ReverseEach(from[j + 1], AtLeast(m, lev, j))
    <3>1. \A j \in least..b : from[j] = IF j = b THEN id ELSE ReverseStretch(from[j + 1], runs, j)
      BY <2>2, <2>5, <2>8
    <3> HIDE DEF Fits
    <3> QED BY <2>15, <3>1
  <2> HIDE DEF Fits
  <2> DEFINE P == {j \in least..b : from[j] \in Places(m) /\ Ordered(m, lev, from[j], j)}
  <2>10. b \in P
    <3>1. b \in least..b
      BY <2>3, <2>5
    <3> QED BY <1>3, <2>5, <2>9, <3>1
  <2>11. ASSUME NEW j \in least..(b - 1), j + 1 \in P PROVE j \in P
    <3>1. j \in Int /\ j \in least..b /\ j # b
      BY <2>5
    <3>2. from[j + 1] \in Places(m) /\ Ordered(m, lev, from[j + 1], j + 1)
      BY <2>11
    <3>3. PICK o \in Places(m) : o = from[j + 1]
      BY <3>2
    <3>4. ReverseEach(o, AtLeast(m, lev, j)) \in Places(m) /\ Ordered(m, lev, ReverseEach(o, AtLeast(m, lev, j)), j)
      BY <3>1, <3>2, <3>3, OrderedStep DEF AtLeast
    <3>5. from[j] = ReverseEach(o, AtLeast(m, lev, j))
      BY <2>9, <3>1, <3>3
    <3> QED BY <3>1, <3>4, <3>5
  <2>12. least \in P
    <3> HIDE DEF P
    <3>1. least <= b /\ least \in least..b
      BY <2>3, <2>5
    <3>2. \A j \in least..b : j \in P
      BY <2>10, <2>11, <3>1, InductionDown
    <3> QED BY <3>1, <3>2
  <2>13. from[least] \in Places(m) /\ Ordered(m, lev, from[least], least)
    BY <2>12
  <2>14. VisualPlaces(m, lev, from[least])
    BY <2>3, <2>13, OrderedIsVisual
  <2> QED BY <1>1, <1>7, <2>2, <2>13, <2>14
<1> QED BY <1>6, <1>7

\* Where the runs of a line start.
Cuts(lv) == {1} \cup {i \in Kept(lv) : lv[i] # LevelBefore(lv, i)}

\* A rune that is kept has the level of the last cut before it.
LEMMA CutFacts ==
  ASSUME NEW n \in Nat \ {0}, NEW lv \in LevelLists(n), NEW s \in Cuts(lv), NEW k \in Kept(lv),
         s <= k, \A i \in Cuts(lv) : i <= s \/ k < i
  PROVE  lv[k] = lv[s]
<1>1. Kept(lv) \in SUBSET (1..n) /\ Cuts(lv) \in SUBSET (1..n)
  BY DEF LevelLists, Kept, Cuts
<1> DEFINE T == {x \in Kept(lv) : s <= x /\ x <= k /\ lv[x] # lv[s]}
<1> SUFFICES ASSUME T # {} PROVE FALSE
  BY <1>1
<1>2. PICK x \in T : \A y \in T : x <= y
  <2>1. T \in SUBSET Nat
    BY <1>1
  <2> HIDE DEF T
  <2> QED BY <2>1, LeastNat
<1>3. x \in Kept(lv) /\ x \in 1..n /\ s \in 1..n /\ k \in 1..n /\ s <= x /\ x <= k /\ lv[x] # lv[s]
  BY <1>1
<1>4. s < x
  BY <1>3
<1>5. lv[x] = LevelBefore(lv, x)
  <2>1. x \notin Cuts(lv)
    BY <1>3, <1>4
  <2> QED BY <1>3, <2>1 DEF Cuts
<1>6. s \in Kept(lv) \/ s = 1
  BY DEF Cuts
<1>7. CASE KeptBefore(lv, x) = {}
  <2>1. s \notin Kept(lv)
    BY <1>4, <1>7 DEF KeptBefore
  <2> QED BY <1>3, <1>5, <1>6, <1>7, <2>1 DEF LevelBefore
<1>8. CASE KeptBefore(lv, x) # {}
  <2>1. PICK B : B = KeptBefore(lv, x)
    OBVIOUS
  <2>2. B \in SUBSET Int /\ B # {} /\ (\A y \in B : y <= x) /\ x \in Int
    BY <1>1, <1>3, <1>8, <2>1 DEF KeptBefore
  <2>3. Max(B) \in B /\ \A y \in B : y <= Max(B)
    BY <2>2, MaxFacts
  <2>4. PICK p \in B : p = Max(B)
    BY <2>3
  <2>5. p \in Kept(lv) /\ p < x /\ lv[x] = lv[p] /\ p \in 1..n
    BY <1>1, <1>5, <1>8, <2>1, <2>4 DEF LevelBefore, KeptBefore
  <2>6. CASE s <= p
    <3>1. p \in T
      BY <1>3, <2>5, <2>6
    <3> QED BY <1>2, <1>3, <2>5, <3>1
  <2>7. CASE p < s
    <3>1. s \in B => s <= p
      BY <2>3, <2>4
    <3>2. s \notin Kept(lv)
      BY <1>4, <2>1, <2>7, <3>1, <1>3, <2>5 DEF KeptBefore
    <3> QED BY <1>6, <2>5, <2>7, <3>2
  <2> QED BY <1>3, <2>5, <2>6, <2>7
<1> QED BY <1>7, <1>8

\* The m runs of a line of n runes: one after the other they cover it, and
\* all but the first start with a rune that is kept.
SplitInto(n, lv, m, runs) ==
    /\ DOMAIN runs = 1..m /\ m >= 1
    /\ \A j \in 1..m : /\ runs[j].start \in 1..n /\ runs[j].end \in 1..n
                       /\ runs[j].start <= runs[j].end
                       /\ runs[j].level = lv[runs[j].start]
                       /\ j > 1 => runs[j].start \in Kept(lv)
    /\ \A j, k \in 1..m : j < k => runs[j].end < runs[k].start
    /\ \A i \in 1..n : \E j \in 1..m : runs[j].start <= i /\ i <= runs[j].end
    /\ \A j \in 1..m, k \in Kept(lv) :
          runs[j].start <= k /\ k <= runs[j].end => lv[k] = runs[j].level

LEMMA RunsFacts ==
  ASSUME NEW n \in Nat \ {0}, NEW lv \in LevelLists(n)
  PROVE  \E m \in Nat : SplitInto(n, lv, m, Runs(lv))
<1>1. Cuts(lv) \in SUBSET (1..n) /\ 1 \in Cuts(lv) /\ n \in Nat
  BY DEF LevelLists, Kept, Cuts
<1>2. PICK st : st = Ascending(Cuts(lv), n)
  OBVIOUS
<1>3. /\ st \in Seq(Cuts(lv))
      /\ \A j, k \in 1..Len(st) : j < k => st[j] < st[k]
      /\ \A i \in Cuts(lv) : \E k \in 1..Len(st) : st[k] = i
  BY <1>1, <1>2, AscendingFacts
<1>4. PICK m \in Nat : m = Len(st) /\ DOMAIN st = 1..m
  BY <1>3
<1>5. \A j \in 1..m : st[j] \in Cuts(lv) /\ st[j] \in 1..n
  BY <1>1, <1>3, <1>4
<1>6. m >= 1 /\ st[1] = 1
  <2>1. PICK k \in 1..m : st[k] = 1
    BY <1>1, <1>3, <1>4
  <2>2. 1 \in 1..m
    BY <2>1
  <2>3. k # 1 => st[1] < 1
    BY <1>3, <1>4, <2>1, <2>2
  <2>4. st[1] \in 1..n
    BY <1>5, <2>2
  <2> QED BY <2>1, <2>2, <2>3, <2>4
<1>7. Len(lv) = n
  BY DEF LevelLists
<1> DEFINE end(j) == IF j = m THEN n ELSE st[j + 1] - 1
<1>8. Runs(lv) = [j \in 1..m |-> [level |-> lv[st[j]], start |-> st[j], end |-> end(j)]]
  BY <1>2, <1>4, <1>7 DEF Runs, Cuts
<1>9. PICK runs : runs = Runs(lv)
  OBVIOUS
<1>10. /\ DOMAIN runs = 1..m
       /\ \A j \in 1..m : runs[j].level = lv[st[j]] /\ runs[j].start = st[j] /\ runs[j].end = end(j)
  BY <1>8, <1>9
<1>11. \A j \in 1..m : end(j) \in 1..n /\ st[j] <= end(j)
  <2> TAKE j \in 1..m
  <2>1. st[j] \in 1..n
    BY <1>5
  <2>2. j # m => j + 1 \in 1..m /\ j < j + 1
    BY <1>4
  <2>3. j # m => st[j + 1] \in 1..n /\ st[j] < st[j + 1]
    BY <1>3, <1>4, <1>5, <2>2
  <2> QED BY <2>1, <2>3
<1>12. \A j, k \in 1..m : j < k => end(j) < st[k]
  <2> SUFFICES ASSUME NEW j \in 1..m, NEW k \in 1..m, j < k PROVE end(j) < st[k]
    OBVIOUS
  <2>1. j # m /\ j + 1 \in 1..m /\ (j + 1 < k \/ j + 1 = k)
    BY <1>4
  <2>2. st[j + 1] \in 1..n /\ st[k] \in 1..n
    BY <1>5, <2>1
  <2>3. st[j + 1] <= st[k]
    <3>1. j + 1 < k => st[j + 1] < st[k]
      BY <1>3, <1>4, <2>1
    <3> QED BY <2>1, <2>2, <3>1
  <2> QED BY <2>1, <2>2, <2>3
<1>13. ASSUME NEW j \in 1..m, NEW i \in Cuts(lv)
       PROVE  i <= st[j] \/ end(j) < i
  <2>1. PICK k \in 1..m : st[k] = i
    BY <1>3, <1>4
  <2>2. j < k => end(j) < i
    BY <1>12, <2>1
  <2>3. k < j => i < st[j]
    BY <1>3, <1>4, <2>1
  <2>4. st[j] \in 1..n /\ i \in 1..n
    BY <1>1, <1>5
  <2>5. j < k \/ k < j \/ j = k
    BY <1>4
  <2> HIDE DEF end
  <2> QED BY <2>1, <2>2, <2>3, <2>4, <2>5
<1>14. ASSUME NEW j \in 1..m, NEW k \in Kept(lv), st[j] <= k, k <= end(j)
       PROVE  lv[k] = lv[st[j]]
  <2>1. PICK s, e : s = st[j] /\ e = end(j)
    OBVIOUS
  <2>2. s \in Cuts(lv) /\ s \in 1..n /\ e \in 1..n
    BY <1>5, <1>11, <2>1
  <2>3. k \in 1..n
    BY DEF LevelLists, Kept
  <2>4. \A i \in Cuts(lv) : i <= s \/ e < i
    BY <1>13, <2>1
  <2>5. \A i \in Cuts(lv) : i <= s \/ k < i
    BY <1>1, <1>14, <2>1, <2>2, <2>3, <2>4
  <2>6. s <= k
    BY <1>14, <2>1
  <2>7. lv[k] = lv[s]
    BY <2>2, <2>5, <2>6, CutFacts
  <2> QED BY <2>1, <2>7
<1>15. ASSUME NEW i \in 1..n PROVE \E j \in 1..m : st[j] <= i /\ i <= end(j)
  <2> DEFINE B == {j \in 1..m : st[j] <= i}
  <2>1. 1 \in B
    BY <1>6
  <2>2. B \in SUBSET Int /\ B # {} /\ (\A y \in B : y <= m) /\ m \in Int
    BY <2>1
  <2> HIDE DEF B
  <2>3. Max(B) \in B /\ \A y \in B : y <= Max(B)
    BY <2>2, MaxFacts
  <2>4. PICK j \in B : j = Max(B)
    BY <2>3
  <2>5. j \in 1..m /\ st[j] <= i
    BY DEF B
  <2>6. j # m => j + 1 \in 1..m /\ j + 1 \notin B
    BY <2>3, <2>4, <2>5
  <2>7. j # m => st[j + 1] \in 1..n /\ ~(st[j + 1] <= i)
    BY <1>5, <2>6 DEF B
  <2>8. i <= end(j)
    BY <2>7
  <2> QED BY <2>5, <2>8
<1>16. ASSUME NEW j \in 1..m, j > 1 PROVE st[j] \in Kept(lv)
  <2>1. 1 \in 1..m /\ st[1] < st[j]
    BY <1>3, <1>4, <1>6, <1>16
  <2>2. st[j] # 1
    BY <1>6, <2>1
  <2> QED BY <1>5, <2>2 DEF Cuts
<1> HIDE DEF end
<1>17. \A j \in 1..m : /\ runs[j].start \in 1..n /\ runs[j].end \in 1..n
                       /\ runs[j].start <= runs[j].end
                       /\ runs[j].level = lv[runs[j].start]
                       /\ j > 1 => runs[j].start \in Kept(lv)
  BY <1>5, <1>10, <1>11, <1>16
<1>18. \A j, k \in 1..m : j < k => runs[j].end < runs[k].start
  BY <1>10, <1>12
<1>19. \A i \in 1..n : \E j \in 1..m : runs[j].start <= i /\ i <= runs[j].end
  BY <1>10, <1>15
<1>20. \A j \in 1..m, k \in Kept(lv) :
          runs[j].start <= k /\ k <= runs[j].end => lv[k] = runs[j].level
  BY <1>10, <1>14
<1>21. SplitInto(n, lv, m, runs)
  BY <1>6, <1>10, <1>17, <1>18, <1>19, <1>20 DEF SplitInto
<1> QED BY <1>9, <1>21

\* The lowest level of the runes from a to b is that of the runs they are in.
LEMMA LowestBetween ==
  ASSUME NEW n \in Nat \ {0}, NEW lv \in LevelLists(n), NEW m \in Nat, NEW runs,
         SplitInto(n, lv, m, runs), NEW lev \in LevelLists(m),
         \A j \in 1..m : lev[j] = runs[j].level,
         NEW a \in Kept(lv), NEW b \in Kept(lv), a < b,
         NEW A \in 1..m, runs[A].start <= a, a <= runs[A].end,
         NEW B \in 1..m, runs[B].start <= b, b <= runs[B].end
  PROVE  /\ A <= B
         /\ Min({lv[k] : k \in Kept(lv) \cap a..b}) = Lowest(lev, A, B)
<1>1. /\ \A j \in 1..m : /\ runs[j].start \in 1..n /\ runs[j].end \in 1..n
                         /\ runs[j].start <= runs[j].end
                         /\ runs[j].level = lv[runs[j].start]
                         /\ j > 1 => runs[j].start \in Kept(lv)
      /\ \A j, k \in 1..m : j < k => runs[j].end < runs[k].start
  BY DEF SplitInto
<1>2. /\ \A i \in 1..n : \E j \in 1..m : runs[j].start <= i /\ i <= runs[j].end
      /\ \A j \in 1..m, k \in Kept(lv) :
            runs[j].start <= k /\ k <= runs[j].end => lv[k] = runs[j].level
  BY DEF SplitInto
<1>3. Kept(lv) \in SUBSET (1..n) /\ \A i \in 1..n : lv[i] \in Int /\ -1 <= lv[i]
  BY DEF Kept, LevelLists
<1>4. \A j \in 1..m : lev[j] = runs[j].level
  OBVIOUS
<1>5. ASSUME NEW j \in 1..m, NEW k \in 1..m, NEW c \in 1..n, NEW d \in 1..n, c <= d,
             runs[j].start <= c, c <= runs[j].end, runs[k].start <= d, d <= runs[k].end
      PROVE  j <= k
  <2> SUFFICES ASSUME k < j PROVE FALSE
    OBVIOUS
  <2>1. runs[k].end < runs[j].start
    BY <1>1
  <2>2. runs[k].end \in 1..n /\ runs[j].start \in 1..n
    BY <1>1
  <2> QED BY <1>5, <2>1, <2>2
<1>6. a \in 1..n /\ b \in 1..n /\ a <= b
  BY <1>3
<1>7. A <= B
  BY <1>5, <1>6
<1>8. PICK l \in Int : l = Lowest(lev, A, B)
  BY <1>7, LowestFacts
<1>9. /\ \E j \in 1..m : A <= j /\ j <= B /\ lev[j] = l
      /\ \A j \in 1..m : A <= j /\ j <= B => l <= lev[j]
  BY <1>7, <1>8, LowestFacts
<1>10. ASSUME NEW k \in Kept(lv) \cap a..b PROVE l <= lv[k]
  <2>1. k \in 1..n /\ a <= k /\ k <= b
    BY <1>3, <1>6
  <2>2. PICK j \in 1..m : runs[j].start <= k /\ k <= runs[j].end
    BY <1>2, <2>1
  <2>3. A <= j
    BY <1>5, <1>6, <2>1, <2>2
  <2>4. j <= B
    BY <1>5, <1>6, <2>1, <2>2
  <2>5. lv[k] = lev[j]
    BY <1>2, <1>4, <2>2
  <2> QED BY <1>9, <2>3, <2>4, <2>5
<1>11. \E k \in Kept(lv) \cap a..b : lv[k] = l
  <2>1. PICK j \in 1..m : A <= j /\ j <= B /\ lev[j] = l
    BY <1>9
  <2>2. CASE j = A
    <3>1. lv[a] = l
      BY <1>2, <1>4, <2>1, <2>2
    <3>2. a \in Kept(lv) \cap a..b
      BY <1>6
    <3> QED BY <3>1, <3>2
  <2>3. CASE j # A
    <3>1. A < j /\ j > 1
      BY <2>1, <2>3
    <3>2. PICK k \in 1..n : k = runs[j].start /\ k \in Kept(lv)
      BY <1>1, <3>1
    <3>3. lv[k] = l
      BY <1>1, <1>4, <2>1, <3>2
    <3>4. runs[A].end < k /\ runs[A].end \in 1..n
      BY <1>1, <3>1, <3>2
    <3>5. a <= k
      BY <1>6, <3>4
    <3>6. k <= b
      <4>1. j = B => k <= b
        BY <3>2
      <4>2. j < B => runs[j].end < runs[B].start
        BY <1>1
      <4>3. k <= runs[j].end /\ runs[j].end \in 1..n /\ runs[B].start \in 1..n
        BY <1>1, <3>2
      <4>4. j < B => k <= b
        BY <1>6, <4>2, <4>3
      <4>5. j < B \/ j = B
        BY <2>1
      <4> QED BY <4>1, <4>4, <4>5
    <3>7. k \in Kept(lv) \cap a..b
      BY <1>6, <3>2, <3>5, <3>6
    <3> QED BY <3>3, <3>7
  <2> QED BY <2>2, <2>3
<1>12. Min({lv[k] : k \in Kept(lv) \cap a..b}) = l
  <2>1. PICK M : M = {lv[k] : k \in Kept(lv) \cap a..b}
    OBVIOUS
  <2>2. l \in M /\ \A x \in M : l <= x
    BY <1>10, <1>11, <2>1
  <2>3. M \in SUBSET Int
    BY <1>3, <2>1
  <2>4. M # {} /\ l \in Int
    BY <2>2
  <2>5. Min(M) \in M /\ \A x \in M : Min(M) <= x
    BY <2>2, <2>3, <2>4, MinFacts
  <2>6. PICK x \in M : x = Min(M)
    BY <2>5
  <2>7. x <= l /\ l <= x /\ x \in Int
    BY <2>2, <2>3, <2>5, <2>6
  <2>8. x = l
    BY <2>7
  <2> QED BY <2>1, <2>6, <2>8
<1> QED BY <1>7, <1>8, <1>12
=============================================================================

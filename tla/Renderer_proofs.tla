---------------------------- MODULE Renderer_proofs ----------------------------
(***************************************************************************)
(* Proofs about how a frame comes about.                                   *)
(*                                                                         *)
(* LayoutPipeline: calls on objects of the tree do not panic, painting is  *)
(* requested, and layout is while no removed object is put back.  The      *)
(* invariant is one of the state as a value (Kept, and with Fresh for new   *)
(* objects); that each operator keeps it is shown of the operators, which   *)
(* handlers make calls of in sequence, and the loops and recursions over    *)
(* the tree by counting up to their bound.                                 *)
(*                                                                         *)
(* ConcurrentRenderer, which draws what was painted: for every channel     *)
(* capacity and every number of operations.                                *)
(***************************************************************************)
EXTENDS LayoutPipeline, ConcurrentRendererInv, FiniteSetTheorems, SequenceTheorems,
        WellFoundedInduction, TLAPS

-----------------------------------------------------------------------------
(* The layout pipeline: loops, and the ancestors of an object. *)

\* A set of numbers has a least one.
LEMMA LeastNumber ==
  ASSUME NEW T \in SUBSET Nat, T # {}
  PROVE  \E x \in T : \A y \in T : ~(y < x)
<1>1. PICK x \in T : \A y \in T : ~(<<y, x>> \in OpToRel(<, Nat))
  BY WFMin, NatLessThanWellFounded, Zenon
<1>2. \A y \in T : ~(y < x)
  BY <1>1 DEF OpToRel
<1> QED BY <1>2

\* What holds of 0, and of each number when it does of the one before, holds up to n.
LEMMA CountingUp ==
  ASSUME NEW n \in Nat, NEW P, 0 \in P, \A i \in 1..n : i - 1 \in P => i \in P
  PROVE  \A i \in 0..n : i \in P
<1> SUFFICES ASSUME NEW j \in 0..n, j \notin P PROVE FALSE
  OBVIOUS
<1> DEFINE T == {x \in 0..n : x \notin P}
<1>1. PICK x \in T : \A y \in T : ~(y < x)
  <2>1. T \in SUBSET Nat /\ T # {}
    OBVIOUS
  <2> HIDE DEF T
  <2> QED BY <2>1, LeastNumber, Zenon
<1>3. x \in 1..n /\ x - 1 \in 0..n /\ x - 1 < x
  OBVIOUS
<1>4. x - 1 \in P
  BY <1>1, <1>3
<1> QED BY <1>3, <1>4

\* The states between the calls of a loop.
Passes(after, s, objs, calling) ==
    /\ after[0] = s
    /\ \A i \in 1..Len(objs) : after[i] = calling[[s |-> after[i - 1], o |-> objs[i]]]
    /\ ForEach(s, objs, calling) = after[Len(objs)]

LEMMA ForEachFacts ==
  ASSUME NEW s, NEW objs \in Seq(Objects), NEW calling
  PROVE  \E after : Passes(after, s, objs, calling)
<1> DEFINE n == Len(objs)
           Fits(f, m) == f = [i \in 0..m |-> IF i = 0 THEN s ELSE calling[[s |-> f[i - 1], o |-> objs[i]]]]
           P == {m \in 0..n : \E f : Fits(f, m)}
<1>1. n \in Nat
  OBVIOUS
<1>2. 0 \in P
  <2>1. PICK f : f = [i \in 0..0 |-> s]
    OBVIOUS
  <2>2. f = [i \in 0..0 |-> IF i = 0 THEN s ELSE calling[[s |-> f[i - 1], o |-> objs[i]]]]
    BY <2>1
  <2> QED BY <1>1, <2>2
<1>3. ASSUME NEW m \in 1..n, m - 1 \in P PROVE m \in P
  <2>1. PICK f : Fits(f, m - 1)
    BY <1>3
  <2>2. PICK g : g = [i \in 0..m |-> IF i = m THEN calling[[s |-> f[m - 1], o |-> objs[m]]] ELSE f[i]]
    OBVIOUS
  <2>3. ASSUME NEW i \in 0..m
        PROVE  g[i] = IF i = 0 THEN s ELSE calling[[s |-> g[i - 1], o |-> objs[i]]]
    <3>1. m # 0 /\ m \in Int /\ (i # 0 => i - 1 \in 0..m /\ i - 1 # m)
      BY <1>1
    <3>2. i # 0 => g[i - 1] = f[i - 1]
      BY <2>2, <3>1
    <3>3. i # m => g[i] = f[i] /\ i \in 0..(m - 1)
      BY <1>1, <2>2
    <3>4. i # m => f[i] = IF i = 0 THEN s ELSE calling[[s |-> f[i - 1], o |-> objs[i]]]
      BY <2>1, <3>3
    <3>5. i = m => g[i] = calling[[s |-> f[i - 1], o |-> objs[i]]]
      BY <2>2
    <3> QED BY <3>1, <3>2, <3>3, <3>4, <3>5
  <2>4. Fits(g, m)
    BY <2>2, <2>3
  <2>5. m \in 0..n
    BY <1>1
  <2> HIDE DEF Fits
  <2> QED BY <2>4, <2>5
<1>4. n \in P
  <2> HIDE DEF P, n
  <2>1. \A i \in 0..n : i \in P
    BY <1>1, <1>2, <1>3, CountingUp, Zenon
  <2> QED BY <1>1, <2>1
<1> DEFINE after == CHOOSE f : Fits(f, n)
<1>5. Fits(after, n)
  <2> HIDE DEF Fits
  <2> QED BY <1>4
<1>6. ForEach(s, objs, calling) = after[n]
  BY DEF ForEach
<1> HIDE DEF after
<1>7. \A i \in 0..n : after[i] = IF i = 0 THEN s ELSE calling[[s |-> after[i - 1], o |-> objs[i]]]
  BY <1>5
<1>8. after[0] = s
  <2>1. 0 \in 0..n
    BY <1>1
  <2> HIDE DEF n
  <2> QED BY <1>7, <2>1
<1>9. \A i \in 1..n : after[i] = calling[[s |-> after[i - 1], o |-> objs[i]]]
  <2>1. \A i \in 1..n : i \in 0..n /\ i # 0
    BY <1>1
  <2> QED BY <1>7, <2>1
<1>10. Passes(after, s, objs, calling)
  BY <1>6, <1>8, <1>9 DEF Passes
<1> QED BY <1>10, Zenon

\* A loop whose calls stay in G and relate the states as R does stays in G and
\* relates its ends as R does.
LEMMA ForEachKeeps ==
  ASSUME NEW G, NEW R, NEW s \in G, NEW objs \in Seq(Objects), NEW calling,
         \A t \in G : <<t, t>> \in R,
         \A t, u, v \in G : <<t, u>> \in R /\ <<u, v>> \in R => <<t, v>> \in R,
         \A t \in G, i \in 1..Len(objs) :
            /\ calling[[s |-> t, o |-> objs[i]]] \in G
            /\ <<t, calling[[s |-> t, o |-> objs[i]]]>> \in R
  PROVE  ForEach(s, objs, calling) \in G /\ <<s, ForEach(s, objs, calling)>> \in R
<1>0. PICK after : Passes(after, s, objs, calling)
  BY ForEachFacts, Zenon
<1>1. /\ after[0] = s /\ ForEach(s, objs, calling) = after[Len(objs)]
      /\ \A i \in 1..Len(objs) :
            after[i] = calling[[s |-> after[i - 1], o |-> objs[i]]]
  BY <1>0 DEF Passes
<1> DEFINE P == {i \in 0..Len(objs) : after[i] \in G /\ <<s, after[i]>> \in R}
<1>2. Len(objs) \in Nat
  OBVIOUS
<1>3. 0 \in P
  BY <1>1, <1>2
<1>4. ASSUME NEW i \in 1..Len(objs), i - 1 \in P PROVE i \in P
  <2>1. after[i - 1] \in G /\ <<s, after[i - 1]>> \in R /\ i \in 0..Len(objs)
    BY <1>2, <1>4
  <2>2. after[i] \in G /\ <<after[i - 1], after[i]>> \in R
    <3>1. after[i] = calling[[s |-> after[i - 1], o |-> objs[i]]]
      BY <1>1
    <3> QED BY <2>1, <3>1, Zenon
  <2>3. <<s, after[i]>> \in R
    BY <2>1, <2>2, Zenon
  <2> QED BY <2>1, <2>2, <2>3
<1>5. Len(objs) \in P
  <2> HIDE DEF P
  <2>1. \A i \in 0..Len(objs) : i \in P
    BY <1>2, <1>3, <1>4, CountingUp, Zenon
  <2> QED BY <1>2, <2>1
<1> QED BY <1>1, <1>5

\* The parents of the objects of s are objects.
Parented(s) == \A x \in Objects : s.h[x].parent \in Objects \cup {None}

\* S has the parents of its members.
ClosedUp(s, S) == \A x \in S : s.h[x].parent \in S \cup {None}

\* The ancestors of o are the least set that has o and the parents of its members:
\* each step more of its recursion adds parents until there are no more to add.
LEMMA AboveFacts ==
  ASSUME NEW s, Parented(s), NEW o \in Objects
  PROVE  /\ o \in Above(s, o) /\ Above(s, o) \subseteq Objects /\ ClosedUp(s, Above(s, o))
         /\ \A S : o \in S /\ ClosedUp(s, S) => Above(s, o) \subseteq S
<1> DEFINE K == MaxDepth
           Parents(T) == {s.h[x].parent : x \in T} \ {None}
           Step(g, i) == [x \in Objects |-> IF i = 0 \/ s.h[x].parent = None THEN {x}
                                           ELSE {x} \cup g[s.h[x].parent]]
           Fits(f, m) == f = [i \in 0..m |-> Step(f[i - 1], i)]
           P == {m \in 0..K : \E f : Fits(f, m)}
<1>1. K \in Nat /\ IsFiniteSet(Objects) /\ K = Cardinality(Objects)
  BY ObjectsAssumption, FS_CardinalityType DEF MaxDepth
<1> HIDE DEF K
<1>2. 0 \in P
  <2>1. PICK f : f = [i \in 0..0 |-> [x \in Objects |-> {x}]]
    OBVIOUS
  <2>2. \A g : Step(g, 0) = [x \in Objects |-> {x}]
    OBVIOUS
  <2>3. f = [i \in 0..0 |-> Step(f[i - 1], i)]
    <3> HIDE DEF Step
    <3>1. ASSUME NEW i \in 0..0 PROVE Step(f[i - 1], i) = [x \in Objects |-> {x}]
      <4>1. i = 0
        OBVIOUS
      <4> QED BY <2>2, <4>1, Zenon
    <3> QED BY <2>1, <3>1
  <2> QED BY <1>1, <2>3
<1>3. ASSUME NEW m \in 1..K, m - 1 \in P PROVE m \in P
  <2> HIDE DEF Step
  <2>1. PICK f : Fits(f, m - 1)
    BY <1>3
  <2>2. PICK g : g = [i \in 0..m |-> IF i = m THEN Step(f[m - 1], m) ELSE f[i]]
    OBVIOUS
  <2>3. ASSUME NEW i \in 0..m
        PROVE  g[i] = Step(g[i - 1], i)
    <3>1. m # 0 /\ m \in Int /\ (i # 0 => i - 1 \in 0..m /\ i - 1 # m)
      BY <1>1
    <3>2. i # 0 => g[i - 1] = f[i - 1]
      BY <2>2, <3>1
    <3>3. i # m => g[i] = f[i] /\ i \in 0..(m - 1)
      BY <1>1, <2>2
    <3>4. i # m => f[i] = Step(f[i - 1], i)
      BY <2>1, <3>3
    <3>5. i = m => g[i] = Step(f[i - 1], i)
      BY <2>2
    <3>6. Step(g[i - 1], 0) = Step(f[i - 1], 0)
      BY DEF Step
    <3> QED BY <3>1, <3>2, <3>3, <3>4, <3>5, <3>6
  <2>4. Fits(g, m)
    BY <2>2, <2>3
  <2>5. m \in 0..K
    BY <1>1
  <2> HIDE DEF Fits
  <2> QED BY <2>4, <2>5
<1>4. K \in P
  <2> HIDE DEF P
  <2> QED BY <1>1, <1>2, <1>3, CountingUp
<1> DEFINE ups == CHOOSE f : Fits(f, K)
<1>5. Fits(ups, K)
  <2> HIDE DEF Fits
  <2> QED BY <1>4
<1>6. Above(s, o) = ups[K][o]
  BY DEF Above, K
<1> HIDE DEF ups
<1>7. \A i \in 0..K : ups[i] = Step(ups[i - 1], i)
  <2> HIDE DEF Step
  <2> QED BY <1>5
<1>71. ASSUME NEW i \in 0..K, NEW x \in Objects
       PROVE  ups[i][x] = IF i = 0 \/ s.h[x].parent = None THEN {x}
                          ELSE {x} \cup ups[i - 1][s.h[x].parent]
  BY <1>7
<1> HIDE DEF Step, Fits, P
\* What is found from below by one step more is the parents of what was found.
<1> DEFINE Grows(i) == \A x \in Objects :
             /\ x \in ups[i][x] /\ ups[i][x] \subseteq Objects
             /\ i # 0 => ups[i][x] = ups[i - 1][x] \cup Parents(ups[i - 1][x])
           G == {i \in 0..K : Grows(i)}
<1>72. 0 \in G
  <2>1. 0 \in 0..K
    BY <1>1
  <2>2. ASSUME NEW x \in Objects PROVE ups[0][x] = {x}
    BY <1>71, <2>1
  <2> HIDE DEF Parents
  <2> QED BY <2>1, <2>2
<1>73. ASSUME NEW i \in 1..K, i - 1 \in G PROVE i \in G
  <2>1. i \in 0..K /\ i - 1 \in 0..K /\ i # 0 /\ i \in Nat /\ (i # 1 => i - 1 # 0)
    BY <1>1
  <2>2. Grows(i - 1)
    BY <1>73
  <2>3. ASSUME NEW x \in Objects
        PROVE  /\ x \in ups[i][x] /\ ups[i][x] \subseteq Objects
               /\ ups[i][x] = ups[i - 1][x] \cup Parents(ups[i - 1][x])
    <3>1. CASE s.h[x].parent = None
      <4>1. ups[i][x] = {x} /\ ups[i - 1][x] = {x}
        BY <1>71, <2>1, <3>1
      <4>2. Parents({x}) = {}
        BY <3>1
      <4> QED BY <4>1, <4>2
    <3>2. CASE s.h[x].parent # None
      <4>1. PICK p \in Objects : p = s.h[x].parent
        BY <3>2 DEF Parented
      <4>2. ups[i][x] = {x} \cup ups[i - 1][p]
        BY <1>71, <2>1, <3>2, <4>1
      <4>3. p \in ups[i - 1][p] /\ ups[i - 1][p] \subseteq Objects
        BY <2>2
      <4>31. /\ i = 1 => i - 1 = 0
             /\ i # 1 => i - 1 # 0 /\ i - 1 - 1 = i - 2
        BY <2>1
      <4>32. ups[i - 1][x] = IF i - 1 = 0 \/ s.h[x].parent = None THEN {x}
                             ELSE {x} \cup ups[i - 1 - 1][s.h[x].parent]
        BY <1>71, <2>1
      <4>33. i - 1 = 0 => ups[i - 1][p] = {p}
        BY <1>71, <2>1
      <4>4. Parents({x}) = {p}
        BY <3>2, <4>1
      <4>5. \A A, B : Parents(A \cup B) = Parents(A) \cup Parents(B)
        OBVIOUS
      <4> HIDE DEF Parents
      <4>6. CASE i = 1
        <5>1. ups[i - 1][x] = {x} /\ ups[i - 1][p] = {p}
          BY <4>31, <4>32, <4>33, <4>6
        <5> QED BY <4>2, <4>4, <5>1
      <4>7. CASE i # 1
        <5>1. ups[i - 1][x] = {x} \cup ups[i - 2][p]
          BY <3>2, <4>1, <4>31, <4>32, <4>7
        <5>2. ups[i - 1][p] = ups[i - 2][p] \cup Parents(ups[i - 2][p])
          BY <2>2, <4>31, <4>7
        <5>3. p \in ups[i - 1][p]
          BY <4>3
        <5>4. Parents(ups[i - 1][x]) = {p} \cup Parents(ups[i - 2][p])
          BY <4>4, <4>5, <5>1
        <5> QED BY <4>2, <4>3, <5>1, <5>2, <5>4
      <4> QED BY <4>2, <4>3, <4>6, <4>7
    <3> QED BY <3>1, <3>2
  <2> QED BY <2>1, <2>3
<1>74. \A i \in 0..K : i \in G
  <2> HIDE DEF G
  <2> QED BY <1>1, <1>72, <1>73, CountingUp, Zenon
<1> DEFINE up == [i \in 0..K |-> ups[i][o]]
<1>75. \A i \in 0..K : up[i] = IF i = 0 THEN {o} ELSE up[i - 1] \cup Parents(up[i - 1])
  <2> HIDE DEF Parents
  <2>1. \A i \in 0..K : i # 0 => i - 1 \in 0..K
    BY <1>1
  <2> QED BY <1>71, <1>74, <2>1
<1>76. up[K] = ups[K][o]
  BY <1>1
<1> HIDE DEF ups, up, G
<1> DEFINE Least(S) == S \subseteq Objects /\ o \in S
                       /\ \A T : o \in T /\ ClosedUp(s, T) => S \subseteq T
           Q == {i \in 0..K : Least(up[i]) /\ (ClosedUp(s, up[i]) \/ Cardinality(up[i]) > i)}
<1>8. 0 \in Q
  <2>1. 0 \in 0..K
    BY <1>1
  <2>2. up[0] = {o}
    <3> HIDE DEF Parents
    <3> QED BY <1>75, <2>1
  <2>3. Cardinality(up[0]) = 1
    BY <2>2, FS_Singleton
  <2>4. Least(up[0])
    BY <2>2
  <2> HIDE DEF Least
  <2> QED BY <2>1, <2>3, <2>4
<1>9. ASSUME NEW i \in 1..K, i - 1 \in Q PROVE i \in Q
  <2>1. PICK S : S = up[i - 1]
    OBVIOUS
  <2>2. i \in 0..K /\ i # 0 /\ i \in Nat
    BY <1>1
  <2>3. up[i] = S \cup Parents(S)
    BY <1>75, <2>1, <2>2
  <2>4. Least(S) /\ (ClosedUp(s, S) \/ Cardinality(S) > i - 1)
    BY <1>9, <2>1
  <2>5. Least(up[i])
    <3>1. up[i] \subseteq Objects /\ o \in up[i]
      BY <2>3, <2>4 DEF Parented
    <3>2. ASSUME NEW T, o \in T, ClosedUp(s, T) PROVE up[i] \subseteq T
      <4>1. S \subseteq T
        BY <2>4, <3>2
      <4> QED BY <2>3, <3>2, <4>1 DEF ClosedUp
    <3> QED BY <3>1, <3>2
  <2>6. CASE Parents(S) \subseteq S
    <3>1. up[i] = S
      BY <2>3, <2>6
    <3>2. ClosedUp(s, S)
      BY <2>6 DEF ClosedUp
    <3> QED BY <2>2, <2>5, <3>1, <3>2
  <2>7. CASE ~(Parents(S) \subseteq S)
    <3>1. ~ClosedUp(s, S)
      BY <2>7 DEF ClosedUp
    <3>2. S \subseteq up[i] /\ S # up[i] /\ up[i] \subseteq Objects
      BY <2>3, <2>5, <2>7
    <3>3. IsFiniteSet(up[i])
      BY <1>1, <3>2, FS_Subset
    <3>4. /\ Cardinality(S) \in Nat /\ Cardinality(up[i]) \in Nat
          /\ Cardinality(S) <= Cardinality(up[i]) /\ Cardinality(S) # Cardinality(up[i])
      BY <3>2, <3>3, FS_Subset, FS_CardinalityType
    <3>5. Cardinality(up[i]) > i
      BY <2>2, <2>4, <3>1, <3>4
    <3> QED BY <2>2, <2>5, <3>5
  <2> QED BY <2>6, <2>7
<1>10. K \in Q
  <2> HIDE DEF Q
  <2> QED BY <1>1, <1>8, <1>9, CountingUp
<1>11. Least(up[K]) /\ ClosedUp(s, up[K])
  <2>1. Least(up[K]) /\ (ClosedUp(s, up[K]) \/ Cardinality(up[K]) > K)
    BY <1>10
  <2>2. Cardinality(up[K]) <= K /\ Cardinality(up[K]) \in Nat
    BY <1>1, <2>1, FS_Subset, FS_CardinalityType
  <2> QED BY <1>1, <2>1, <2>2
<1> QED BY <1>6, <1>76, <1>11

\* An ancestor's ancestors are ancestors.
LEMMA AboveUp ==
  ASSUME NEW s, Parented(s), NEW o \in Objects, NEW x \in Above(s, o)
  PROVE  x \in Objects /\ Above(s, x) \subseteq Above(s, o)
<1>1. ClosedUp(s, Above(s, o)) /\ x \in Objects
  BY AboveFacts, Zenon
<1> QED BY <1>1, AboveFacts, Zenon

\* The ancestors of an object but itself are those of its parent.
LEMMA AboveStep ==
  ASSUME NEW s, Parented(s), NEW o \in Objects, NEW x \in Above(s, o), x # o
  PROVE  s.h[o].parent \in Objects /\ s.h[o].parent # None /\ x \in Above(s, s.h[o].parent)
<1>0. None \notin Objects
  BY ObjectsAssumption
<1>1. s.h[o].parent \in Objects \cup {None}
  BY DEF Parented
<1>2. s.h[o].parent # None
  <2>1. s.h[o].parent = None => ClosedUp(s, {o})
    BY DEF ClosedUp
  <2>2. ~ClosedUp(s, {o})
    <3>1. o \in {o} /\ x \notin {o}
      OBVIOUS
    <3> QED BY <3>1, AboveFacts, Zenon
  <2> QED BY <2>1, <2>2
<1>3. PICK p \in Objects : p = s.h[o].parent
  BY <1>1, <1>2
<1>4. p \in Above(s, p) /\ ClosedUp(s, Above(s, p))
  BY AboveFacts, Zenon
<1>5. ClosedUp(s, {o} \cup Above(s, p))
  BY <1>3, <1>4 DEF ClosedUp
<1>6. x \in {o} \cup Above(s, p)
  <2>1. o \in {o} \cup Above(s, p)
    OBVIOUS
  <2> QED BY <1>5, <2>1, AboveFacts, Zenon
<1> QED BY <1>1, <1>2, <1>3, <1>6

\* The ancestors of an object are one line.
LEMMA AboveLine ==
  ASSUME NEW s, Parented(s), NEW o \in Objects, NEW x \in Above(s, o), NEW y \in Above(s, o)
  PROVE  x \in Above(s, y) \/ y \in Above(s, x)
<1> DEFINE S == {z \in Above(s, o) : x \in Above(s, z) \/ z \in Above(s, x)}
<1>1. ClosedUp(s, Above(s, o)) /\ Above(s, o) \subseteq Objects /\ o \in Above(s, o)
  BY AboveFacts, Zenon
<1>2. x \in Above(s, x) /\ ClosedUp(s, Above(s, x))
  BY <1>1, AboveFacts
<1>3. ASSUME NEW z \in S, s.h[z].parent # None PROVE s.h[z].parent \in S
  <2>1. s.h[z].parent \in Above(s, o) /\ z \in Objects
    BY <1>1, <1>3 DEF ClosedUp
  <2>2. CASE z \in Above(s, x)
    BY <1>2, <1>3, <2>1, <2>2 DEF ClosedUp
  <2>3. CASE z \notin Above(s, x)
    <3>1. x \in Above(s, z) /\ x # z
      BY <1>2, <2>3
    <3>2. x \in Above(s, s.h[z].parent)
      BY <2>1, <3>1, AboveStep, Zenon
    <3> QED BY <2>1, <3>2
  <2> QED BY <2>2, <2>3
<1>4. ClosedUp(s, S) /\ o \in S
  BY <1>1, <1>3 DEF ClosedUp
<1>5. y \in S
  <2> HIDE DEF S
  <2> QED BY <1>4, AboveFacts, Zenon
<1> QED BY <1>5

\* The ancestors of an object are the same where they have the same parents.
LEMMA AboveSame ==
  ASSUME NEW s, NEW t, Parented(s), Parented(t), NEW o \in Objects,
         \A x \in Above(s, o) : t.h[x].parent = s.h[x].parent
  PROVE  Above(t, o) = Above(s, o)
<1>1. o \in Above(s, o) /\ ClosedUp(s, Above(s, o))
  BY AboveFacts, Zenon
<1>2. o \in Above(t, o) /\ ClosedUp(t, Above(t, o))
  BY AboveFacts, Zenon
<1>3. ClosedUp(t, Above(s, o))
  BY <1>1 DEF ClosedUp
<1>4. Above(t, o) \subseteq Above(s, o)
  BY <1>1, <1>3, AboveFacts, Zenon
<1>5. ClosedUp(s, Above(t, o))
  BY <1>2, <1>4 DEF ClosedUp
<1>6. Above(s, o) \subseteq Above(t, o)
  BY <1>2, <1>5, AboveFacts, Zenon
<1> QED BY <1>4, <1>6

\* The view is a root, and the tree is what is below it.
Rooted(s) == Parented(s) /\ s.h[View].parent = None

LEMMA RootIsAlone ==
  ASSUME NEW s, Parented(s), NEW o \in Objects, s.h[o].parent = None
  PROVE  Above(s, o) = {o}
<1>1. ASSUME NEW x \in Above(s, o), x # o PROVE FALSE
  BY <1>1, AboveStep, Zenon
<1>2. o \in Above(s, o)
  BY AboveFacts, Zenon
<1> QED BY <1>1, <1>2

\* What is above an object of the tree is in it, and has a parent or is the view.
LEMMA AboveInTree ==
  ASSUME NEW s, Rooted(s), NEW o \in InTree(s), NEW x \in Above(s, o)
  PROVE  o \in Objects /\ x \in InTree(s) /\ (s.h[x].parent = None => x = View)
<1>0. Parented(s) /\ View \in Objects /\ o \in Objects /\ View \in Above(s, o)
  BY ObjectsAssumption DEF Rooted, InTree
<1>1. x \in Objects
  BY <1>0, AboveUp, Zenon
<1>2. View \in Above(s, x) \/ x \in Above(s, View)
  BY <1>0, AboveLine, Zenon
<1>3. Above(s, View) = {View}
  BY <1>0, RootIsAlone, Zenon DEF Rooted
<1>4. View \in Above(s, x)
  BY <1>2, <1>3
<1>5. s.h[x].parent = None => Above(s, x) = {x}
  BY <1>0, <1>1, RootIsAlone, Zenon
<1> QED BY <1>0, <1>1, <1>4, <1>5 DEF InTree

\* The tree has no cycles.
LEMMA TreeHasNoCycle ==
  ASSUME NEW s, Rooted(s), NEW o \in InTree(s), NEW x \in Above(s, o), o \in Above(s, x)
  PROVE  x = o
<1> SUFFICES ASSUME x # o PROVE FALSE
  OBVIOUS
<1>0. Parented(s) /\ View \in Objects /\ o \in Objects /\ View \in Above(s, o)
  BY ObjectsAssumption DEF Rooted, InTree
<1> DEFINE C == {z \in Above(s, o) : o \in Above(s, z)}
<1>1. ClosedUp(s, Above(s, o)) /\ Above(s, o) \subseteq Objects /\ o \in Above(s, o)
  BY <1>0, AboveFacts, Zenon
<1>2. ASSUME NEW z \in C, s.h[z].parent # None PROVE s.h[z].parent \in C
  <2>1. s.h[z].parent \in Above(s, o) /\ z \in Objects
    BY <1>1, <1>2 DEF ClosedUp
  <2>2. CASE z = o
    <3>1. x \in Above(s, s.h[z].parent) /\ s.h[z].parent \in Objects
      BY <1>0, <2>2, AboveStep, Zenon
    <3>2. Above(s, x) \subseteq Above(s, s.h[z].parent)
      BY <1>0, <3>1, AboveUp, Zenon
    <3> QED BY <2>1, <3>2
  <2>3. CASE z # o
    <3>1. o \in Above(s, z)
      OBVIOUS
    <3>2. o \in Above(s, s.h[z].parent)
      BY <1>0, <2>1, <2>3, <3>1, AboveStep, Zenon
    <3> QED BY <2>1, <3>2
  <2> QED BY <2>2, <2>3
<1>3. ClosedUp(s, C) /\ o \in C
  BY <1>1, <1>2 DEF ClosedUp
<1>4. View \in C
  <2> HIDE DEF C
  <2> QED BY <1>0, <1>3, AboveFacts, Zenon
<1>5. Above(s, View) = {View}
  BY <1>0, RootIsAlone, Zenon DEF Rooted
<1> QED BY <1>4, <1>5

\* An object of the tree is not above its parent, nor is it its own.
LEMMA ChildIsBelow ==
  ASSUME NEW s, Rooted(s), NEW p \in InTree(s), NEW o \in Objects, s.h[o].parent = p
  PROVE  p # o /\ o \notin Above(s, p) /\ p \in Above(s, o) /\ o # View /\ o \in InTree(s)
<1>0. Parented(s) /\ View \in Objects /\ p \in Objects /\ View \in Above(s, p) /\ None \notin Objects
  BY ObjectsAssumption DEF Rooted, InTree
<1>1. o # View
  BY <1>0 DEF Rooted
<1>2. p \in Above(s, o) /\ o \in Above(s, o)
  <2>1. ClosedUp(s, Above(s, o)) /\ o \in Above(s, o)
    BY <1>0, AboveFacts, Zenon
  <2> QED BY <1>0, <2>1 DEF ClosedUp
<1>3. p # o
  <2>1. SUFFICES ASSUME p = o PROVE FALSE
    OBVIOUS
  <2>2. ClosedUp(s, {o}) /\ o \in {o} /\ View \notin {o}
    BY <1>1, <2>1 DEF ClosedUp
  <2> QED BY <1>0, <2>1, <2>2, AboveFacts, Zenon
<1>4. o \notin Above(s, p)
  BY <1>2, <1>3, TreeHasNoCycle, Zenon
<1>5. Above(s, p) \subseteq Above(s, o)
  BY <1>0, <1>2, AboveUp, Zenon
<1> QED BY <1>0, <1>1, <1>2, <1>3, <1>4, <1>5 DEF InTree

\* Two states with the same parents have the same ancestors, and the same tree.
SameParents(s, t) == \A x \in Objects : t.h[x].parent = s.h[x].parent

LEMMA SameTree ==
  ASSUME NEW s, NEW t, Parented(s), SameParents(s, t)
  PROVE  /\ Parented(t) /\ InTree(t) = InTree(s) /\ (Rooted(s) => Rooted(t))
         /\ \A o \in Objects : Above(t, o) = Above(s, o)
<1>1. Parented(t)
  BY DEF Parented, SameParents
<1>2. ASSUME NEW o \in Objects PROVE Above(t, o) = Above(s, o)
  <2>1. Above(s, o) \subseteq Objects
    BY AboveFacts, Zenon
  <2>2. \A x \in Above(s, o) : t.h[x].parent = s.h[x].parent
    BY <2>1 DEF SameParents
  <2> QED BY <1>1, <2>2, AboveSame, Zenon
<1>3. InTree(t) = InTree(s)
  BY <1>2 DEF InTree
<1>4. Rooted(s) => Rooted(t)
  BY <1>1, ObjectsAssumption DEF Rooted, SameParents
<1> QED BY <1>1, <1>2, <1>3, <1>4

-----------------------------------------------------------------------------
(* Marking objects. *)

LEMMA StateFields ==
  ASSUME NEW s \in States
  PROVE  /\ Parented(s) /\ s.list \in Seq(Objects) /\ s.requested \in BOOLEAN /\ s.failed \in Panics
         /\ s.h \in [Objects -> Handle]
         /\ \A x \in Objects : /\ s.h[x] \in Handle /\ s.h[x].parent \in Objects \cup {None}
                               /\ s.h[x].attached \in BOOLEAN /\ s.h[x].needsLayout \in BOOLEAN
                               /\ s.h[x].needsPaint \in BOOLEAN
                               /\ s.h[x].boundary \in Objects \cup {None}
                               /\ s.h[x].cs \in Constraints /\ s.h[x].config \in 0..1
BY DEF States, Handle, Parented

\* Two states with the same objects where they are, and in the same boundaries.
SamePlaces(s, t) ==
    \A x \in Objects : /\ t.h[x].parent = s.h[x].parent /\ t.h[x].attached = s.h[x].attached
                       /\ t.h[x].boundary = s.h[x].boundary

LEMMA SamePlacesParents ==
  ASSUME NEW s, NEW t, SamePlaces(s, t)
  PROVE  SameParents(s, t)
BY DEF SamePlaces, SameParents

\* What MarkNeedsPaint(o) marks, and what it leaves alone.
PaintMarks(s, o) ==
    {x \in Above(s, o) : \A y \in OnTheWay(s, o, x) \cup {x} : ~s.h[y].needsPaint}

LEMMA MarkNeedsPaintFacts ==
  ASSUME NEW s \in States, NEW o \in Objects
  PROVE  LET t == MarkNeedsPaint(s, o) IN
         /\ t \in States /\ t.list = s.list /\ t.failed = s.failed /\ SamePlaces(s, t)
         /\ t.requested = (s.requested
                             \/ \E x \in PaintMarks(s, o) : s.h[x].parent = None /\ s.h[x].attached)
         /\ \A x \in Objects :
               /\ t.h[x].needsLayout = s.h[x].needsLayout
               /\ t.h[x].needsPaint = (s.h[x].needsPaint \/ x \in PaintMarks(s, o))
<1> DEFINE M == PaintMarks(s, o)
           hs == [x \in Objects |-> [s.h[x] EXCEPT !.needsPaint = @ \/ x \in M]]
           q == s.requested \/ \E x \in M : s.h[x].parent = None /\ s.h[x].attached
<1>1. MarkNeedsPaint(s, o) = [s EXCEPT !.h = hs, !.requested = q]
  <2>1. s.requested \/ (\E x \in M : s.h[x].parent = None /\ s.h[x].attached) <=> q
    OBVIOUS
  <2> QED BY <2>1 DEF MarkNeedsPaint, PaintMarks
<1> HIDE DEF M
<1>2. \A x \in Objects : /\ hs[x] \in Handle
                         /\ hs[x].parent = s.h[x].parent /\ hs[x].attached = s.h[x].attached
                         /\ hs[x].boundary = s.h[x].boundary /\ hs[x].needsLayout = s.h[x].needsLayout
                         /\ hs[x].needsPaint = (s.h[x].needsPaint \/ x \in M)
  <2> SUFFICES ASSUME NEW x \in Objects
               PROVE  /\ hs[x] \in Handle
                      /\ hs[x].parent = s.h[x].parent /\ hs[x].attached = s.h[x].attached
                      /\ hs[x].boundary = s.h[x].boundary /\ hs[x].needsLayout = s.h[x].needsLayout
                      /\ hs[x].needsPaint = (s.h[x].needsPaint \/ x \in M)
    OBVIOUS
  <2>1. s.h[x] \in Handle /\ s.h[x].needsPaint \in BOOLEAN
    BY StateFields, Zenon
  <2>2. PICK b \in BOOLEAN : b = (s.h[x].needsPaint \/ x \in M)
    BY <2>1
  <2>3. hs[x] = [s.h[x] EXCEPT !.needsPaint = b]
    BY <2>2
  <2> HIDE DEF hs
  <2> QED BY <2>1, <2>2, <2>3 DEF Handle
<1>3. hs \in [Objects -> Handle]
  BY <1>2
<1>4. q \in BOOLEAN
  BY StateFields
<1> HIDE DEF hs, q
<1>5. PICK t : t = MarkNeedsPaint(s, o)
  OBVIOUS
<1>6. t \in States /\ t.h = hs /\ t.list = s.list /\ t.failed = s.failed /\ t.requested = q
  <2>1. t = [s EXCEPT !.h = hs, !.requested = q]
    BY <1>1, <1>5, Zenon
  <2> QED BY <1>3, <1>4, <2>1 DEF States
<1>7. SamePlaces(s, t)
  BY <1>2, <1>6 DEF SamePlaces
<1> QED BY <1>2, <1>5, <1>6, <1>7 DEF M, q

\* No object is above its parent.
Acyclic(s) == \A x \in Objects : s.h[x].parent # None => x \notin Above(s, s.h[x].parent)

LEMMA NoCycle ==
  ASSUME NEW s, Parented(s), Acyclic(s), NEW x \in Objects, NEW y \in Above(s, x), x \in Above(s, y)
  PROVE  x = y
<1>1. SUFFICES ASSUME x # y PROVE FALSE
  OBVIOUS
<1>2. y \in Objects
  BY AboveUp, Zenon
<1>3. PICK p \in Objects : p = s.h[y].parent /\ p # None /\ x \in Above(s, p)
  BY <1>1, <1>2, AboveStep, Zenon
<1>4. Above(s, x) \subseteq Above(s, p)
  BY <1>3, AboveUp, Zenon
<1> QED BY <1>2, <1>3, <1>4 DEF Acyclic

LEMMA AcyclicSame ==
  ASSUME NEW s, NEW t, Parented(s), Acyclic(s), SameParents(s, t)
  PROVE  Acyclic(t)
<1>1. \A x \in Objects : Above(t, x) = Above(s, x)
  BY SameTree, Zenon
<1> QED BY <1>1 DEF Acyclic, SameParents, Parented

\* What needs to be painted needs it together with its parent, unless the parent is
\* one of H; except for o and its children.
PaintClosedIn(s, H) ==
    \A x \in Objects : s.h[x].needsPaint /\ s.h[x].parent \notin H \cup {None}
                          => s.h[s.h[x].parent].needsPaint

PaintClosed(s) == PaintClosedIn(s, hidden)

PaintClosedBut(s, o) ==
    \A x \in Objects : s.h[x].needsPaint /\ s.h[x].parent \notin hidden \cup {None}
                          => s.h[s.h[x].parent].needsPaint \/ x = o \/ s.h[x].parent = o

LEMMA PaintedUp ==
  ASSUME NEW s, Parented(s), PaintClosed(s), NEW x \in Objects, s.h[x].needsPaint,
         Above(s, x) \cap hidden \subseteq {x}, NEW z \in Above(s, x)
  PROVE  s.h[z].needsPaint
<1> DEFINE S == {y \in Above(s, x) : s.h[y].needsPaint}
<1>1. ClosedUp(s, Above(s, x)) /\ x \in Above(s, x) /\ Above(s, x) \subseteq Objects
  BY AboveFacts, Zenon
<1>2. ASSUME NEW y \in S, s.h[y].parent # None PROVE s.h[y].parent \in S
  <2>1. PICK w \in Above(s, x) : w = s.h[y].parent
    BY <1>1, <1>2 DEF ClosedUp
  <2>2. CASE w = x
    BY <2>1, <2>2
  <2>3. CASE w # x
    BY <1>1, <1>2, <2>1, <2>3 DEF PaintClosed, PaintClosedIn
  <2> QED BY <2>2, <2>3
<1>3. ClosedUp(s, S) /\ x \in S
  BY <1>1, <1>2 DEF ClosedUp
<1>4. z \in S
  <2> HIDE DEF S
  <2> QED BY <1>3, AboveFacts, Zenon
<1> QED BY <1>4

\* MarkNeedsPaint stops at what is marked.
LEMMA MarksGoUp ==
  ASSUME NEW s, Parented(s), Acyclic(s), NEW o \in Objects, NEW x \in PaintMarks(s, o),
         NEW z \in Objects, z = s.h[x].parent, ~s.h[z].needsPaint
  PROVE  z \in PaintMarks(s, o)
<1>0. None \notin Objects
  BY ObjectsAssumption
<1>1. /\ x \in Above(s, o) /\ x \in Objects
      /\ \A y \in OnTheWay(s, o, x) \cup {x} : ~s.h[y].needsPaint
  BY AboveUp, Zenon DEF PaintMarks
<1>2. z \in Above(s, o) /\ z \in Above(s, x)
  <2>1. ClosedUp(s, Above(s, o)) /\ ClosedUp(s, Above(s, x)) /\ x \in Above(s, x)
    BY <1>1, AboveFacts, Zenon
  <2> QED BY <1>0, <1>1, <2>1 DEF ClosedUp
<1>3. ASSUME NEW y \in OnTheWay(s, o, z) PROVE ~s.h[y].needsPaint
  <2>1. y \in Above(s, o) /\ y # z /\ z \in Above(s, y)
    BY DEF OnTheWay
  <2>2. x \in Above(s, y) \/ y \in Above(s, x)
    BY <1>1, <2>1, AboveLine, Zenon
  <2>3. CASE x \in Above(s, y)
    BY <1>1, <2>1, <2>3 DEF OnTheWay
  <2>4. CASE x \notin Above(s, y)
    <3>1. y \in Above(s, x) /\ y # x
      BY <1>1, <2>2, <2>4, AboveFacts
    <3>2. y \in Above(s, z)
      BY <1>1, <3>1, AboveStep, Zenon
    <3>3. z = y
      BY <2>1, <3>2, NoCycle, Zenon
    <3> QED BY <2>1, <3>3
  <2> QED BY <2>3, <2>4
<1> QED BY <1>2, <1>3 DEF PaintMarks

LEMMA PaintStaysClosed ==
  ASSUME NEW s \in States, NEW o \in Objects, Acyclic(s), PaintClosed(s)
  PROVE  PaintClosed(MarkNeedsPaint(s, o))
<1>1. PICK t : t = MarkNeedsPaint(s, o)
  OBVIOUS
<1>2. /\ SamePlaces(s, t)
      /\ \A x \in Objects : t.h[x].needsPaint = (s.h[x].needsPaint \/ x \in PaintMarks(s, o))
  BY <1>1, MarkNeedsPaintFacts, Zenon
<1>3. Parented(s) /\ None \notin Objects
  BY StateFields, ObjectsAssumption, Zenon
<1>4. PaintClosed(t)
  <2> SUFFICES ASSUME NEW x \in Objects, t.h[x].needsPaint, t.h[x].parent \notin hidden \cup {None}
               PROVE  t.h[t.h[x].parent].needsPaint
    BY DEF PaintClosed, PaintClosedIn
  <2>1. PICK z \in Objects : z = s.h[x].parent /\ z = t.h[x].parent
    BY <1>2, <1>3 DEF SamePlaces, Parented
  <2>2. s.h[z].needsPaint \/ z \in PaintMarks(s, o)
    <3>1. CASE x \in PaintMarks(s, o)
      BY <1>3, <2>1, <3>1, MarksGoUp, Zenon
    <3>2. CASE x \notin PaintMarks(s, o)
      BY <1>2, <2>1, <3>2 DEF PaintClosed, PaintClosedIn
    <3> QED BY <3>1, <3>2
  <2> QED BY <1>2, <2>1, <2>2
<1> QED BY <1>1, <1>4

\* MarkNeedsPaint(o) makes up for what does not hold of o alone.
LEMMA PaintCloses ==
  ASSUME NEW s \in States, Acyclic(s), NEW o \in Objects, PaintClosedBut(s, o),
         ~s.h[o].needsPaint
  PROVE  PaintClosed(MarkNeedsPaint(s, o))
<1>1. PICK t : t = MarkNeedsPaint(s, o)
  OBVIOUS
<1>2. /\ SamePlaces(s, t)
      /\ \A x \in Objects : t.h[x].needsPaint = (s.h[x].needsPaint \/ x \in PaintMarks(s, o))
  BY <1>1, MarkNeedsPaintFacts, Zenon
<1>3. Parented(s) /\ None \notin Objects /\ o \in Above(s, o)
  BY StateFields, AboveFacts, ObjectsAssumption, Zenon
<1>4. o \in PaintMarks(s, o)
  <2>1. ASSUME NEW y \in OnTheWay(s, o, o) PROVE FALSE
    <3>1. y \in Above(s, o) /\ y # o /\ o \in Above(s, y)
      BY DEF OnTheWay
    <3> QED BY <1>3, <3>1, NoCycle, Zenon
  <2> QED BY <1>3, <2>1 DEF PaintMarks
<1>5. PaintClosed(t)
  <2> SUFFICES ASSUME NEW x \in Objects, t.h[x].needsPaint, t.h[x].parent \notin hidden \cup {None}
               PROVE  t.h[t.h[x].parent].needsPaint
    BY DEF PaintClosed, PaintClosedIn
  <2>1. PICK z \in Objects : z = s.h[x].parent /\ z = t.h[x].parent
    BY <1>2, <1>3 DEF SamePlaces, Parented
  <2>2. s.h[z].needsPaint \/ z \in PaintMarks(s, o)
    <3>1. CASE x \in PaintMarks(s, o)
      BY <1>3, <2>1, <3>1, MarksGoUp, Zenon
    <3>2. CASE x \notin PaintMarks(s, o)
      <4>1. s.h[x].needsPaint /\ x # o
        BY <1>2, <1>4, <3>2
      <4>2. s.h[z].needsPaint \/ z = o
        BY <2>1, <4>1 DEF PaintClosedBut
      <4> QED BY <1>4, <4>2
    <3> QED BY <3>1, <3>2
  <2> QED BY <1>2, <2>1, <2>2
<1> QED BY <1>1, <1>5

\* There are no cycles.  The view is the root, is attached and its own boundary; what
\* has a parent is attached too.
Placed(s) ==
    /\ Rooted(s) /\ Acyclic(s) /\ s.h[View].boundary = View /\ s.h[View].attached
    /\ \A x \in Objects : s.h[x].parent # None => s.h[x].attached

\* x is its own boundary and needs layout.
Dirty(s, x) == s.h[x].needsLayout /\ s.h[x].boundary = x

\* The objects MarkNeedsLayout(o) comes by.
Asked(s, o) ==
    {x \in Above(s, o) :
        /\ ~s.h[x].needsLayout
        /\ \A y \in OnTheWay(s, o, x) : ~s.h[y].needsLayout /\ s.h[y].boundary # y}

LEMMA ListedFacts ==
  ASSUME NEW q \in Seq(Objects), NEW x \in Objects
  PROVE  /\ Append(q, x) \in Seq(Objects) /\ x \in Range(Append(q, x))
         /\ Range(q) \subseteq Range(Append(q, x))
<1>1. /\ Append(q, x) \in Seq(Objects) /\ DOMAIN q = 1..Len(q) /\ Len(q) \in Nat
      /\ DOMAIN Append(q, x) = 1..(Len(q) + 1) /\ Append(q, x)[Len(q) + 1] = x
      /\ \A i \in 1..Len(q) : Append(q, x)[i] = q[i]
  OBVIOUS
<1>2. Len(q) + 1 \in 1..(Len(q) + 1) /\ 1..Len(q) \subseteq 1..(Len(q) + 1)
  BY <1>1
<1> QED BY <1>1, <1>2 DEF Range

\* What calls that only ask for layout leave alone: objects that are dirty since
\* are listed.
Requesting(s, t) ==
    /\ t.failed = s.failed /\ SamePlaces(s, t)
    /\ Range(s.list) \subseteq Range(t.list) /\ (s.requested => t.requested)
    /\ \A x \in Objects :
          /\ t.h[x].needsPaint = s.h[x].needsPaint
          /\ Dirty(t, x) => Dirty(s, x) \/ (t.requested /\ x \in Range(t.list))

\* In the tree MarkNeedsLayout(o) ends at one boundary, which has a renderer.
LEMMA MarkNeedsLayoutFacts ==
  ASSUME NEW s \in States, Placed(s), NEW o \in InTree(s)
  PROVE  MarkNeedsLayout(s, o) \in States /\ Requesting(s, MarkNeedsLayout(s, o))
<1> DEFINE A == Asked(s, o)
           hs == [x \in Objects |-> [s.h[x] EXCEPT
                    !.needsLayout = @ \/ (x \in A /\ s.h[x].boundary \in {None, x})]]
           O == {x \in A : s.h[x].boundary \notin {None, x} /\ s.h[x].parent = None}
           B == {x \in A : s.h[x].boundary = x}
           m == [s EXCEPT !.h = hs]
<1>0. Parented(s) /\ Rooted(s) /\ None \notin Objects /\ o \in Objects /\ View \in Objects
  BY StateFields, ObjectsAssumption DEF Placed, InTree
<1>1. MarkNeedsLayout(s, o) =
        CASE O # {} -> Failing(m, "orphan")
          [] \E x \in B : ~s.h[x].attached -> Failing(m, "nilRenderer")
          [] \E x \in B : s.h[x].attached ->
               [m EXCEPT !.list = Append(@, CHOOSE x \in B : TRUE), !.requested = TRUE]
          [] OTHER -> m
  BY DEF MarkNeedsLayout, Asked
<1>2. A \subseteq Objects /\ A \subseteq Above(s, o)
  BY <1>0, AboveFacts DEF Asked
<1>3. ASSUME NEW x \in A PROVE s.h[x].parent = None => x = View
  BY <1>2, <1>0, AboveInTree, Zenon
<1>4. O = {}
  BY <1>3 DEF Placed
<1>5. \A x \in B : s.h[x].attached
  BY <1>2, <1>3 DEF Placed
<1>6. ASSUME NEW x \in B, NEW y \in B, x # y PROVE FALSE
  <2>1. x \in Above(s, y) \/ y \in Above(s, x)
    BY <1>0, <1>2, AboveLine
  <2> QED BY <1>2, <1>6, <2>1 DEF OnTheWay, Asked
<1>7. \A x \in Objects : /\ hs[x] \in Handle /\ hs[x].needsPaint = s.h[x].needsPaint
                         /\ hs[x].parent = s.h[x].parent /\ hs[x].attached = s.h[x].attached
                         /\ hs[x].boundary = s.h[x].boundary
                         /\ hs[x].needsLayout => s.h[x].needsLayout \/ x \in A
  <2> SUFFICES ASSUME NEW x \in Objects
               PROVE  /\ hs[x] \in Handle /\ hs[x].needsPaint = s.h[x].needsPaint
                      /\ hs[x].parent = s.h[x].parent /\ hs[x].attached = s.h[x].attached
                      /\ hs[x].boundary = s.h[x].boundary
                      /\ hs[x].needsLayout => s.h[x].needsLayout \/ x \in A
    OBVIOUS
  <2>1. PICK b : b = (s.h[x].needsLayout \/ (x \in A /\ s.h[x].boundary \in {None, x}))
    OBVIOUS
  <2>2. b \in BOOLEAN /\ (b => s.h[x].needsLayout \/ x \in A)
    <3>1. s.h[x].needsLayout \in BOOLEAN
      BY StateFields, Zenon
    <3> HIDE DEF A
    <3> QED BY <2>1, <3>1
  <2>3. hs[x] = [s.h[x] EXCEPT !.needsLayout = b]
    BY <2>1
  <2>4. s.h[x] \in Handle
    BY StateFields, Zenon
  <2> HIDE DEF hs, A, m, O, B
  <2> QED BY <2>2, <2>3, <2>4 DEF Handle
<1>8. hs \in [Objects -> Handle]
  BY <1>7
<1>9. ASSUME NEW x \in Objects, hs[x].needsLayout, hs[x].boundary = x
      PROVE  Dirty(s, x) \/ x \in B
  BY <1>7, <1>9 DEF Dirty
<1> HIDE DEF A, hs
<1>10. m \in States /\ m.h = hs /\ m.list = s.list /\ m.failed = s.failed /\ m.requested = s.requested
  BY <1>8 DEF States
<1>11. PICK t : t = MarkNeedsLayout(s, o)
  OBVIOUS
<1>12. CASE B = {}
  <2>1. t = m
    <3> HIDE DEF m, O, B
    <3> QED BY <1>1, <1>4, <1>11, <1>12
  <2>2. SamePlaces(s, t)
    BY <1>7, <1>10, <2>1 DEF SamePlaces
  <2>3. \A x \in Objects : Dirty(t, x) => Dirty(s, x)
    BY <1>9, <1>10, <1>12, <2>1 DEF Dirty
  <2>4. Requesting(s, t)
    <3>1. \A x \in Objects : t.h[x].needsPaint = s.h[x].needsPaint
      BY <1>7, <1>10, <2>1
    <3> HIDE DEF m, B, O
    <3> QED BY <1>10, <2>1, <2>2, <2>3, <3>1 DEF Requesting
  <2> QED BY <1>10, <1>11, <2>1, <2>4
<1>13. CASE B # {}
  <2>1. PICK b : b = CHOOSE x \in B : TRUE
    OBVIOUS
  <2>2. b \in B /\ b \in Objects
    BY <1>2, <1>13, <2>1
  <2>3. t = [m EXCEPT !.list = Append(@, b), !.requested = TRUE]
    <3> HIDE DEF m, O, B
    <3> QED BY <1>1, <1>4, <1>5, <1>11, <2>1, <2>2
  <2>4. PICK q : q = Append(s.list, b)
    OBVIOUS
  <2>5. s.list \in Seq(Objects)
    BY StateFields
  <2>6. q \in Seq(Objects) /\ b \in Range(q) /\ Range(s.list) \subseteq Range(q)
    BY <2>2, <2>4, <2>5, ListedFacts
  <2> HIDE DEF m
  <2>7. t \in States /\ t.h = hs /\ t.list = q /\ t.requested = TRUE /\ t.failed = s.failed
    BY <1>10, <2>3, <2>4, <2>6 DEF States
  <2>8. SamePlaces(s, t)
    BY <1>7, <2>7 DEF SamePlaces
  <2>9. \A x \in Objects : Dirty(t, x) => Dirty(s, x) \/ x = b
    BY <1>6, <1>9, <2>2, <2>7 DEF Dirty
  <2>10. Requesting(s, t)
    <3>1. \A x \in Objects : t.h[x].needsPaint = s.h[x].needsPaint
      BY <1>7, <2>7
    <3> HIDE DEF B, O
    <3> QED BY <2>6, <2>7, <2>8, <2>9, <3>1 DEF Requesting
  <2> QED BY <1>11, <2>7, <2>10
<1> QED BY <1>12, <1>13

-----------------------------------------------------------------------------
(* Attaching objects. *)

\* A state with another handle for o, and what is left of it.
WithHandle(s, o, hd) == [s EXCEPT !.h[o] = hd]

Rest(s, t) == t.list = s.list /\ t.failed = s.failed /\ t.requested = s.requested

HandleIs(s, t, o, hd) ==
    t \in States /\ Rest(s, t) /\ t.h[o] = hd /\ \A x \in Objects \ {o} : t.h[x] = s.h[x]

LEMMA OneHandle ==
  ASSUME NEW s \in States, NEW o \in Objects, NEW hd \in Handle
  PROVE  HandleIs(s, WithHandle(s, o, hd), o, hd)
<1>1. s.h \in [Objects -> Handle]
  BY StateFields, Zenon
<1>2. PICK hs : hs = [s.h EXCEPT ![o] = hd]
  OBVIOUS
<1>3. hs \in [Objects -> Handle] /\ hs[o] = hd /\ \A x \in Objects \ {o} : hs[x] = s.h[x]
  BY <1>1, <1>2
<1>4. PICK t : t = WithHandle(s, o, hd)
  OBVIOUS
<1>5. t = [s EXCEPT !.h = hs]
  BY <1>2, <1>4 DEF WithHandle
<1>6. t \in States /\ Rest(s, t) /\ t.h = hs
  BY <1>3, <1>5 DEF States, Rest
<1> QED BY <1>3, <1>4, <1>6 DEF HandleIs

AttachedIs(s, t, o, b) ==
    /\ t \in States /\ Rest(s, t)
    /\ \A x \in Objects :
          /\ (x = o => t.h[x].attached = b) /\ (x # o => t.h[x].attached = s.h[x].attached)
          /\ t.h[x].parent = s.h[x].parent /\ t.h[x].boundary = s.h[x].boundary
          /\ t.h[x].needsLayout = s.h[x].needsLayout /\ t.h[x].needsPaint = s.h[x].needsPaint

WithAttached(s, o, b) == [s EXCEPT !.h[o].attached = b]

LEMMA WithAttachedFacts ==
  ASSUME NEW s \in States, NEW o \in Objects, NEW b \in BOOLEAN
  PROVE  AttachedIs(s, WithAttached(s, o, b), o, b)
<1>1. PICK hd : hd = [s.h[o] EXCEPT !.attached = b]
  OBVIOUS
<1>2. s.h[o] \in Handle
  BY StateFields, Zenon
<1>3. /\ hd \in Handle /\ hd.attached = b
      /\ hd.parent = s.h[o].parent /\ hd.boundary = s.h[o].boundary
      /\ hd.needsLayout = s.h[o].needsLayout /\ hd.needsPaint = s.h[o].needsPaint
  BY <1>1, <1>2 DEF Handle
<1>4. PICK t : t = WithAttached(s, o, b)
  OBVIOUS
<1>5. t = WithHandle(s, o, hd)
  BY <1>1, <1>4 DEF WithHandle, WithAttached
<1>6. HandleIs(s, t, o, hd)
  BY <1>3, <1>5, OneHandle, Zenon
<1>7. t \in States /\ Rest(s, t)
  BY <1>6 DEF HandleIs
<1>8. ASSUME NEW x \in Objects
      PROVE  /\ (x = o => t.h[x].attached = b) /\ (x # o => t.h[x].attached = s.h[x].attached)
             /\ t.h[x].parent = s.h[x].parent /\ t.h[x].boundary = s.h[x].boundary
             /\ t.h[x].needsLayout = s.h[x].needsLayout /\ t.h[x].needsPaint = s.h[x].needsPaint
  BY <1>3, <1>6 DEF HandleIs
<1> QED BY <1>4, <1>7, <1>8 DEF AttachedIs

LayoutIsClear(s, t, o) ==
    /\ t \in States /\ Rest(s, t) /\ SamePlaces(s, t)
    /\ \A x \in Objects : /\ (x = o => ~t.h[x].needsLayout) /\ (x # o => t.h[x].needsLayout = s.h[x].needsLayout)
                          /\ t.h[x].needsPaint = s.h[x].needsPaint

WithoutLayout(s, o) == [s EXCEPT !.h[o].needsLayout = FALSE]

LEMMA WithoutLayoutFacts ==
  ASSUME NEW s \in States, NEW o \in Objects
  PROVE  LayoutIsClear(s, WithoutLayout(s, o), o)
<1>1. PICK hd : hd = [s.h[o] EXCEPT !.needsLayout = FALSE]
  OBVIOUS
<1>2. s.h[o] \in Handle
  BY StateFields, Zenon
<1>3. /\ hd \in Handle /\ hd.needsLayout = FALSE
      /\ hd.parent = s.h[o].parent /\ hd.attached = s.h[o].attached
      /\ hd.boundary = s.h[o].boundary /\ hd.needsPaint = s.h[o].needsPaint
  BY <1>1, <1>2 DEF Handle
<1>4. PICK t : t = WithoutLayout(s, o)
  OBVIOUS
<1>5. t = WithHandle(s, o, hd)
  BY <1>1, <1>4 DEF WithHandle, WithoutLayout
<1>6. HandleIs(s, t, o, hd)
  BY <1>3, <1>5, OneHandle, Zenon
<1>7. t \in States /\ Rest(s, t)
  BY <1>6 DEF HandleIs
<1>8. ASSUME NEW x \in Objects
      PROVE  /\ (x = o => ~t.h[x].needsLayout) /\ (x # o => t.h[x].needsLayout = s.h[x].needsLayout)
             /\ t.h[x].parent = s.h[x].parent /\ t.h[x].attached = s.h[x].attached
             /\ t.h[x].boundary = s.h[x].boundary /\ t.h[x].needsPaint = s.h[x].needsPaint
  BY <1>3, <1>6 DEF HandleIs
<1>9. SamePlaces(s, t)
  BY <1>8 DEF SamePlaces
<1> QED BY <1>4, <1>7, <1>8, <1>9 DEF LayoutIsClear

PaintIsClear(s, t, o) ==
    /\ t \in States /\ Rest(s, t) /\ SamePlaces(s, t)
    /\ \A x \in Objects : /\ (x = o => ~t.h[x].needsPaint) /\ (x # o => t.h[x].needsPaint = s.h[x].needsPaint)
                          /\ t.h[x].needsLayout = s.h[x].needsLayout

WithoutPaint(s, o) == [s EXCEPT !.h[o].needsPaint = FALSE]

LEMMA WithoutPaintFacts ==
  ASSUME NEW s \in States, NEW o \in Objects
  PROVE  PaintIsClear(s, WithoutPaint(s, o), o)
<1>1. PICK hd : hd = [s.h[o] EXCEPT !.needsPaint = FALSE]
  OBVIOUS
<1>2. s.h[o] \in Handle
  BY StateFields, Zenon
<1>3. /\ hd \in Handle /\ hd.needsPaint = FALSE
      /\ hd.parent = s.h[o].parent /\ hd.attached = s.h[o].attached
      /\ hd.boundary = s.h[o].boundary /\ hd.needsLayout = s.h[o].needsLayout
  BY <1>1, <1>2 DEF Handle
<1>4. PICK t : t = WithoutPaint(s, o)
  OBVIOUS
<1>5. t = WithHandle(s, o, hd)
  BY <1>1, <1>4 DEF WithHandle, WithoutPaint
<1>6. HandleIs(s, t, o, hd)
  BY <1>3, <1>5, OneHandle, Zenon
<1>7. t \in States /\ Rest(s, t)
  BY <1>6 DEF HandleIs
<1>8. ASSUME NEW x \in Objects
      PROVE  /\ (x = o => ~t.h[x].needsPaint) /\ (x # o => t.h[x].needsPaint = s.h[x].needsPaint)
             /\ t.h[x].parent = s.h[x].parent /\ t.h[x].attached = s.h[x].attached
             /\ t.h[x].boundary = s.h[x].boundary /\ t.h[x].needsLayout = s.h[x].needsLayout
  BY <1>3, <1>6 DEF HandleIs
<1>9. SamePlaces(s, t)
  BY <1>8 DEF SamePlaces
<1> QED BY <1>4, <1>7, <1>8, <1>9 DEF PaintIsClear

ParentIs(s, t, o, p) ==
    /\ t \in States /\ Rest(s, t)
    /\ \A x \in Objects :
          /\ (x = o => t.h[x].parent = p) /\ (x # o => t.h[x].parent = s.h[x].parent)
          /\ t.h[x].attached = s.h[x].attached /\ t.h[x].boundary = s.h[x].boundary
          /\ t.h[x].needsLayout = s.h[x].needsLayout /\ t.h[x].needsPaint = s.h[x].needsPaint

WithParent(s, o, p) == [s EXCEPT !.h[o].parent = p]

LEMMA WithParentFacts ==
  ASSUME NEW s \in States, NEW o \in Objects, NEW p \in Objects \cup {None}
  PROVE  ParentIs(s, WithParent(s, o, p), o, p)
<1>1. PICK hd : hd = [s.h[o] EXCEPT !.parent = p]
  OBVIOUS
<1>2. s.h[o] \in Handle
  BY StateFields, Zenon
<1>3. /\ hd \in Handle /\ hd.parent = p
      /\ hd.attached = s.h[o].attached /\ hd.boundary = s.h[o].boundary
      /\ hd.needsLayout = s.h[o].needsLayout /\ hd.needsPaint = s.h[o].needsPaint
  BY <1>1, <1>2 DEF Handle
<1>4. PICK t : t = WithParent(s, o, p)
  OBVIOUS
<1>5. t = WithHandle(s, o, hd)
  BY <1>1, <1>4 DEF WithHandle, WithParent
<1>6. HandleIs(s, t, o, hd)
  BY <1>3, <1>5, OneHandle, Zenon
<1>7. t \in States /\ Rest(s, t)
  BY <1>6 DEF HandleIs
<1>8. ASSUME NEW x \in Objects
      PROVE  /\ (x = o => t.h[x].parent = p) /\ (x # o => t.h[x].parent = s.h[x].parent)
             /\ t.h[x].attached = s.h[x].attached /\ t.h[x].boundary = s.h[x].boundary
             /\ t.h[x].needsLayout = s.h[x].needsLayout /\ t.h[x].needsPaint = s.h[x].needsPaint
  BY <1>3, <1>6 DEF HandleIs
<1> QED BY <1>4, <1>7, <1>8 DEF ParentIs


\* When the view needs to be painted, a frame is requested.
PaintAsked(s) == s.h[View].needsPaint => s.requested

Good(s) == s \in States /\ Placed(s) /\ PaintClosed(s) /\ PaintAsked(s)

\* PaintClosed, except for o itself.
ClosedBelow(s, o) ==
    \A x \in Objects \ {o} : s.h[x].needsPaint /\ s.h[x].parent \notin hidden \cup {None}
                                => s.h[s.h[x].parent].needsPaint

LEMMA PlacedSame ==
  ASSUME NEW s, NEW t, Placed(s), SamePlaces(s, t)
  PROVE  Placed(t) /\ InTree(t) = InTree(s) /\ SameParents(s, t)
<1>1. Rooted(s) /\ Parented(s) /\ SameParents(s, t) /\ View \in Objects
  BY SamePlacesParents, ObjectsAssumption DEF Placed, Rooted
<1>2. Rooted(t) /\ InTree(t) = InTree(s)
  BY <1>1, SameTree, Zenon
<1>3. Acyclic(t)
  BY <1>1, AcyclicSame DEF Placed
<1>4. Placed(t)
  BY <1>1, <1>2, <1>3 DEF Placed, SamePlaces
<1> QED BY <1>1, <1>2, <1>4

LEMMA PaintStaysAsked ==
  ASSUME NEW s \in States, NEW o \in Objects, Placed(s), PaintAsked(s)
  PROVE  PaintAsked(MarkNeedsPaint(s, o))
<1>1. PICK t : t = MarkNeedsPaint(s, o)
  OBVIOUS
<1>2. /\ t.requested = (s.requested
                          \/ \E x \in PaintMarks(s, o) : s.h[x].parent = None /\ s.h[x].attached)
      /\ \A x \in Objects : t.h[x].needsPaint = (s.h[x].needsPaint \/ x \in PaintMarks(s, o))
  BY <1>1, MarkNeedsPaintFacts, Zenon
<1>3. View \in Objects /\ s.h[View].parent = None /\ s.h[View].attached
  BY ObjectsAssumption DEF Placed, Rooted
<1> QED BY <1>1, <1>2, <1>3 DEF PaintAsked

\* What was marked before it is put into the tree is marked again.
LEMMA RemarkedFacts ==
  ASSUME NEW s \in States, NEW o \in InTree(s), o # View, Placed(WithAttached(s, o, TRUE)),
         ClosedBelow(s, o), PaintAsked(s)
  PROVE  /\ Good(Remarked(s, o)) /\ SameParents(s, Remarked(s, o))
         /\ Remarked(s, o).failed = s.failed
         /\ s.h[o].boundary = None /\ ~s.h[o].needsPaint
               => Remarked(s, o) = WithAttached(s, o, TRUE)
<1>0. o \in Objects /\ View \in Objects /\ Parented(s)
  BY ObjectsAssumption, StateFields, Zenon DEF InTree
<1>1. PICK s1 : s1 = WithAttached(s, o, TRUE)
  OBVIOUS
<1>2. /\ s1 \in States /\ Rest(s, s1)
      /\ \A x \in Objects : /\ s1.h[x].parent = s.h[x].parent /\ s1.h[x].needsPaint = s.h[x].needsPaint
                            /\ s1.h[x].boundary = s.h[x].boundary
  <2>1. AttachedIs(s, s1, o, TRUE)
    BY <1>0, <1>1, WithAttachedFacts, Zenon
  <2> QED BY <2>1 DEF AttachedIs
<1>3. Placed(s1) /\ SameParents(s, s1) /\ o \in InTree(s1)
  <2>1. SameParents(s, s1)
    BY <1>2 DEF SameParents
  <2>2. InTree(s1) = InTree(s)
    BY <1>0, <2>1, SameTree, Zenon
  <2> QED BY <1>1, <2>1, <2>2
<1>4. PICK s2 : s2 = IF s1.h[o].needsLayout /\ s1.h[o].boundary # None
                     THEN MarkNeedsLayout(WithoutLayout(s1, o), o) ELSE s1
  OBVIOUS
<1>5. Remarked(s, o) = IF s2.h[o].needsPaint THEN MarkNeedsPaint(WithoutPaint(s2, o), o) ELSE s2
  BY <1>1, <1>4 DEF Remarked, WithAttached, WithoutLayout, WithoutPaint
<1>6. /\ s2 \in States /\ SamePlaces(s1, s2) /\ s2.failed = s.failed /\ (s.requested => s2.requested)
      /\ \A x \in Objects : s2.h[x].needsPaint = s.h[x].needsPaint
  <2>1. CASE s1.h[o].needsLayout /\ s1.h[o].boundary # None
    <3>1. PICK u : u = WithoutLayout(s1, o)
      OBVIOUS
    <3>2. /\ u \in States /\ Rest(s1, u) /\ SamePlaces(s1, u)
          /\ \A x \in Objects : u.h[x].needsPaint = s1.h[x].needsPaint
      <4>1. LayoutIsClear(s1, u, o)
        BY <1>0, <1>2, <3>1, WithoutLayoutFacts, Zenon
      <4> QED BY <4>1 DEF LayoutIsClear
    <3>3. Placed(u) /\ o \in InTree(u)
      BY <1>3, <3>2, PlacedSame
    <3>4. s2 = MarkNeedsLayout(u, o)
      BY <1>4, <2>1, <3>1
    <3>5. s2 \in States /\ Requesting(u, s2)
      BY <3>2, <3>3, <3>4, MarkNeedsLayoutFacts, Zenon
    <3>6. SamePlaces(s1, s2)
      BY <3>2, <3>5 DEF SamePlaces, Requesting
    <3> QED BY <1>2, <3>2, <3>5, <3>6 DEF Requesting, Rest
  <2>2. CASE ~(s1.h[o].needsLayout /\ s1.h[o].boundary # None)
    <3>1. s2 = s1
      BY <1>4, <2>2
    <3> QED BY <1>2, <3>1 DEF SamePlaces, Rest
  <2> QED BY <2>1, <2>2
<1>7. Placed(s2) /\ o \in InTree(s2) /\ SameParents(s1, s2)
  BY <1>3, <1>6, PlacedSame
<1>8. SameParents(s, s2)
  BY <1>3, <1>7 DEF SameParents
<1>9. PaintAsked(s2)
  BY <1>0, <1>6 DEF PaintAsked
<1>10. ASSUME NEW x \in Objects \ {o}, s2.h[x].needsPaint, s2.h[x].parent \notin hidden \cup {None}
       PROVE  s2.h[s2.h[x].parent].needsPaint
  BY <1>0, <1>6, <1>8, <1>10 DEF ClosedBelow, SameParents, Parented
<1>11. PICK t : t = Remarked(s, o)
  OBVIOUS
<1>12. CASE s2.h[o].needsPaint
  <2>1. PICK u : u = WithoutPaint(s2, o)
    OBVIOUS
  <2>2. /\ u \in States /\ Rest(s2, u) /\ SamePlaces(s2, u)
        /\ \A x \in Objects : (x = o => ~u.h[x].needsPaint) /\ (x # o => u.h[x].needsPaint = s2.h[x].needsPaint)
    <3>1. PaintIsClear(s2, u, o)
      BY <1>0, <1>6, <2>1, WithoutPaintFacts, Zenon
    <3> QED BY <3>1 DEF PaintIsClear
  <2>3. Placed(u) /\ o \in InTree(u) /\ SameParents(s2, u)
    BY <1>7, <2>2, PlacedSame
  <2>4. PaintAsked(u)
    BY <1>0, <1>9, <2>2 DEF PaintAsked, Rest
  <2>5. PaintClosedBut(u, o) /\ ~u.h[o].needsPaint
    <3>1. ~u.h[o].needsPaint
      BY <1>0, <2>2
    <3>2. ASSUME NEW x \in Objects, u.h[x].needsPaint, u.h[x].parent \notin hidden \cup {None},
                 u.h[x].parent # o, x # o
          PROVE  u.h[u.h[x].parent].needsPaint
      <4>1. PICK z \in Objects : z = s2.h[x].parent /\ z = u.h[x].parent
        BY <2>2, <2>3, <3>2, StateFields DEF SameParents
      <4>2. s2.h[z].needsPaint
        BY <1>10, <2>2, <3>2, <4>1
      <4> QED BY <2>2, <3>2, <4>1, <4>2
    <3> QED BY <3>1, <3>2 DEF PaintClosedBut
  <2>6. t = MarkNeedsPaint(u, o)
    BY <1>5, <1>11, <1>12, <2>1
  <2>7. t \in States /\ t.failed = u.failed /\ SamePlaces(u, t)
    BY <1>0, <2>2, <2>6, MarkNeedsPaintFacts, Zenon
  <2>8. PaintClosed(t)
    BY <1>0, <2>2, <2>3, <2>5, <2>6, PaintCloses, Zenon DEF Placed
  <2>9. PaintAsked(t)
    BY <1>0, <2>2, <2>3, <2>4, <2>6, PaintStaysAsked, Zenon
  <2>10. Placed(t) /\ SameParents(u, t)
    BY <2>3, <2>7, PlacedSame, Zenon
  <2>11. SameParents(s, t)
    BY <1>8, <2>3, <2>10 DEF SameParents
  <2>12. t.failed = s.failed
    BY <1>6, <2>2, <2>7 DEF Rest
  <2>13. s.h[o].needsPaint
    BY <1>0, <1>6, <1>12
  <2> QED BY <1>11, <2>7, <2>8, <2>9, <2>10, <2>11, <2>12, <2>13 DEF Good
<1>13. CASE ~s2.h[o].needsPaint
  <2>1. t = s2
    BY <1>5, <1>11, <1>13
  <2>2. PaintClosed(s2)
    BY <1>10, <1>13 DEF PaintClosed, PaintClosedIn
  <2>3. s.h[o].boundary = None => s2 = s1
    BY <1>0, <1>2, <1>4
  <2> QED BY <1>1, <1>6, <1>7, <1>8, <1>9, <1>11, <2>1, <2>2, <2>3 DEF Good
<1> QED BY <1>12, <1>13

\* The children of an object, in some order.
LEMMA ChildrenFacts ==
  ASSUME NEW s, NEW o
  PROVE  /\ Children(s, o) \in Seq(Objects)
         /\ \A i \in 1..Len(Children(s, o)) : s.h[Children(s, o)[i]].parent = o
         /\ Children(s, o) = <<>> => \A x \in Objects : s.h[x].parent # o
<1> DEFINE S == {c \in Objects : s.h[c].parent = o}
           n == Cardinality(S)
<1>1. IsFiniteSet(S) /\ S \subseteq Objects
  BY ObjectsAssumption, FS_Subset
<1>2. n \in Nat /\ ExistsBijection(1..n, S)
  <2> HIDE DEF S
  <2> QED BY <1>1, FS_CardinalityType
<1>3. PICK f \in [1..n -> S] : IsInjective(f)
  <2> HIDE DEF n, S
  <2> QED BY <1>2 DEF ExistsBijection, Bijection, Injection
<1>4. PICK q : q = SetToSeq(S)
  OBVIOUS
<1>5. q \in [1..n -> S]
  <2> HIDE DEF S
  <2> QED BY <1>3, <1>4 DEF SetToSeq
<1>6. q = Children(s, o)
  BY <1>4 DEF Children
<1>7. q \in Seq(S) /\ Len(q) = n
  <2> HIDE DEF n, S
  <2> QED BY <1>2, <1>5
<1>8. q \in Seq(Objects)
  <2> HIDE DEF S, n
  <2> QED BY <1>1, <1>7
<1>9. ASSUME NEW i \in 1..Len(q) PROVE s.h[q[i]].parent = o
  <2>1. q[i] \in S
    BY <1>5, <1>7
  <2> QED BY <2>1
<1>10. q = <<>> => S = {}
  <2>1. n = 0 => S = {}
    <3> HIDE DEF S
    <3> QED BY <1>1, FS_EmptySet
  <2> HIDE DEF S, n
  <2> QED BY <1>7, <2>1
<1>11. q = <<>> => \A x \in Objects : s.h[x].parent # o
  BY <1>10
<1> QED BY <1>6, <1>8, <1>9, <1>11

\* What attaching does at each depth.
AttachStep(c, attach) == ForEach(Remarked(c.s, c.o), Children(Remarked(c.s, c.o), c.o), attach)

LEMMA AttachedFacts ==
  /\ MaxDepth \in Nat \ {0}
  /\ \A c \in Calls : Attached[0][c] = c.s
  /\ \A n \in 1..MaxDepth, c \in Calls : Attached[n][c] = AttachStep(c, Attached[n - 1])
<1> DEFINE K == MaxDepth
           Fits(f, m) == f = [n \in 0..m |-> [c \in Calls |->
                                IF n = 0 THEN c.s ELSE AttachStep(c, f[n - 1])]]
           P == {m \in 0..K : \E f : Fits(f, m)}
<1>1. K \in Nat \ {0}
  BY ObjectsAssumption, FS_CardinalityType, FS_EmptySet DEF MaxDepth
<1> HIDE DEF K
<1>2. 0 \in P
  <2>1. PICK f : f = [n \in 0..0 |-> [c \in Calls |-> c.s]]
    OBVIOUS
  <2>2. f = [n \in 0..0 |-> [c \in Calls |-> IF n = 0 THEN c.s ELSE AttachStep(c, f[n - 1])]]
    BY <2>1
  <2> QED BY <1>1, <2>2
<1>3. ASSUME NEW m \in 1..K, m - 1 \in P PROVE m \in P
  <2>1. PICK f : Fits(f, m - 1)
    BY <1>3
  <2>2. PICK g : g = [n \in 0..m |-> IF n = m THEN [c \in Calls |-> AttachStep(c, f[m - 1])] ELSE f[n]]
    OBVIOUS
  <2>3. ASSUME NEW n \in 0..m
        PROVE  g[n] = [c \in Calls |-> IF n = 0 THEN c.s ELSE AttachStep(c, g[n - 1])]
    <3>1. m # 0 /\ m \in Int /\ (n # 0 => n - 1 \in 0..m /\ n - 1 # m)
      BY <1>1
    <3>2. n # 0 => g[n - 1] = f[n - 1]
      BY <2>2, <3>1
    <3>3. n # m => g[n] = f[n] /\ n \in 0..(m - 1)
      BY <1>1, <2>2
    <3>4. n # m => f[n] = [c \in Calls |-> IF n = 0 THEN c.s ELSE AttachStep(c, f[n - 1])]
      BY <2>1, <3>3
    <3>5. n = m => g[n] = [c \in Calls |-> AttachStep(c, f[n - 1])]
      BY <2>2
    <3> QED BY <3>1, <3>2, <3>3, <3>4, <3>5
  <2>4. Fits(g, m)
    BY <2>2, <2>3
  <2>5. m \in 0..K
    BY <1>1
  <2> HIDE DEF Fits
  <2> QED BY <2>4, <2>5
<1>4. K \in P
  <2> HIDE DEF P
  <2>1. \A m \in 0..K : m \in P
    BY <1>1, <1>2, <1>3, CountingUp, Zenon
  <2> QED BY <1>1, <2>1
<1>5. Attached = CHOOSE f : Fits(f, K)
  BY DEF Attached, AttachStep, K
<1>6. Fits(Attached, K)
  <2> HIDE DEF Fits
  <2> QED BY <1>4, <1>5
<1>7. \A n \in 0..K : Attached[n] = [c \in Calls |->
                         IF n = 0 THEN c.s ELSE AttachStep(c, Attached[n - 1])]
  <2> HIDE DEF P
  <2> QED BY <1>6
<1>8. 0 \in 0..K /\ \A n \in 1..K : n \in 0..K /\ n # 0
  BY <1>1
<1>9. \A c \in Calls : Attached[0][c] = c.s
  BY <1>7, <1>8
<1>10. ASSUME NEW n \in 1..K, NEW c \in Calls PROVE Attached[n][c] = AttachStep(c, Attached[n - 1])
  BY <1>7, <1>8
<1> QED BY <1>1, <1>9, <1>10 DEF K

\* The parents are the same, and nothing has failed in between.
Alike(s, t) == SameParents(s, t) /\ t.failed = s.failed

\* attach keeps the invariants when it is called in the tree.
Attaches(attach) ==
    \A s \in States : \A o \in InTree(s) \ {View} :
       Good(s) => /\ Good(attach[[s |-> s, o |-> o]])
                  /\ Alike(s, attach[[s |-> s, o |-> o]])

LEMMA AlikeTrans ==
  ASSUME NEW s, NEW t, NEW u, Alike(s, t), Alike(t, u)
  PROVE  Alike(s, u)
BY DEF Alike, SameParents

LEMMA AlikeItself ==
  ASSUME NEW s
  PROVE  Alike(s, s)
BY DEF Alike, SameParents

LEMMA AttachStepFacts ==
  ASSUME NEW s \in States, NEW o \in InTree(s), Good(Remarked(s, o)), Alike(s, Remarked(s, o)),
         NEW attach, Attaches(attach)
  PROVE  /\ Good(AttachStep([s |-> s, o |-> o], attach))
         /\ Alike(s, AttachStep([s |-> s, o |-> o], attach))
<1>1. PICK s1 : s1 = Remarked(s, o)
  OBVIOUS
<1>2. Good(s1) /\ Alike(s, s1) /\ s1 \in States
  BY <1>1 DEF Good
<1>3. PICK cs : cs = Children(s1, o)
  OBVIOUS
<1>4. cs \in Seq(Objects) /\ \A i \in 1..Len(cs) : s1.h[cs[i]].parent = o
  BY <1>3, ChildrenFacts, Zenon
<1>5. o \in InTree(s1)
  <2>1. Parented(s) /\ SameParents(s, s1)
    BY <1>2, StateFields DEF Alike
  <2>2. InTree(s1) = InTree(s)
    BY <2>1, SameTree, Zenon
  <2> QED BY <2>2
<1>6. PICK t : t = ForEach(s1, cs, attach)
  OBVIOUS
<1>7. t = AttachStep([s |-> s, o |-> o], attach)
  BY <1>1, <1>3, <1>6 DEF AttachStep
<1> DEFINE G == {u \in States : Good(u) /\ Alike(s1, u)}
           R == {x \in States \X States : Alike(x[1], x[2])}
<1>8. \A u \in G : <<u, u>> \in R
  BY AlikeItself
<1>9. \A u, v, w \in G : <<u, v>> \in R /\ <<v, w>> \in R => <<u, w>> \in R
  BY AlikeTrans
<1>10. ASSUME NEW u \in G, NEW i \in 1..Len(cs)
       PROVE  /\ attach[[s |-> u, o |-> cs[i]]] \in G
              /\ <<u, attach[[s |-> u, o |-> cs[i]]]>> \in R
  <2>1. PICK c \in Objects : c = cs[i]
    BY <1>4
  <2>2. u \in States /\ Good(u) /\ Alike(s1, u)
    OBVIOUS
  <2>3. Rooted(u) /\ Rooted(s1) /\ Parented(s1) /\ SameParents(s1, u)
    BY <1>2, <2>2 DEF Good, Placed, Rooted, Alike
  <2>4. u.h[c].parent = o
    BY <1>4, <2>1, <2>3 DEF SameParents
  <2>5. o \in InTree(u)
    <3>1. InTree(u) = InTree(s1)
      BY <2>3, SameTree, Zenon
    <3> QED BY <1>5, <3>1
  <2>6. c \in InTree(u) /\ c # View
    BY <2>3, <2>4, <2>5, ChildIsBelow, Zenon
  <2>7. PICK v : v = attach[[s |-> u, o |-> c]]
    OBVIOUS
  <2>8. Good(v) /\ Alike(u, v)
    BY <2>2, <2>6, <2>7 DEF Attaches
  <2>9. v \in States /\ Alike(s1, v)
    BY <2>2, <2>8, AlikeTrans DEF Good
  <2> QED BY <2>1, <2>2, <2>7, <2>8, <2>9
<1>11. s1 \in G
  BY <1>2, AlikeItself
<1>12. t \in G
  <2> HIDE DEF G, R
  <2> QED BY <1>4, <1>6, <1>8, <1>9, <1>10, <1>11, ForEachKeeps, Zenon
<1>13. Good(t) /\ Alike(s, t)
  BY <1>2, <1>12, AlikeTrans
<1> QED BY <1>7, <1>13

LEMMA CallFacts ==
  ASSUME NEW s \in States, NEW o \in Objects
  PROVE  /\ [s |-> s, o |-> o] \in Calls
         /\ [s |-> s, o |-> o].s = s /\ [s |-> s, o |-> o].o = o
BY DEF Calls

\* However deep it goes.
LEMMA AttachedAttaches ==
  ASSUME NEW n \in 0..MaxDepth
  PROVE  Attaches(Attached[n])
<1> DEFINE P == {m \in 0..MaxDepth : Attaches(Attached[m])}
<1>1. MaxDepth \in Nat
  BY AttachedFacts
<1>2. 0 \in P
  <2>1. ASSUME NEW s \in States, NEW o \in InTree(s) PROVE Attached[0][[s |-> s, o |-> o]] = s
    BY CallFacts, AttachedFacts DEF InTree
  <2>2. Attaches(Attached[0])
    BY <2>1, AlikeItself DEF Attaches
  <2> QED BY <1>1, <2>2
<1>3. ASSUME NEW m \in 1..MaxDepth, m - 1 \in P PROVE m \in P
  <2>1. PICK a : a = Attached[m - 1]
    OBVIOUS
  <2>2. Attaches(a)
    BY <1>3, <2>1
  <2>3. ASSUME NEW s \in States, NEW o \in InTree(s) \ {View}, Good(s)
        PROVE  Good(Attached[m][[s |-> s, o |-> o]]) /\ Alike(s, Attached[m][[s |-> s, o |-> o]])
    <3>0. o \in Objects /\ o \in InTree(s) /\ o # View
      BY DEF InTree
    <3>1. PICK c : c = [s |-> s, o |-> o]
      OBVIOUS
    <3>2. Attached[m][c] = AttachStep(c, a)
      BY <2>1, <3>0, <3>1, CallFacts, AttachedFacts
    <3>3. Placed(WithAttached(s, o, TRUE)) /\ ClosedBelow(s, o) /\ PaintAsked(s)
      <4>1. PICK s1 : s1 = WithAttached(s, o, TRUE)
        OBVIOUS
      <4>2. AttachedIs(s, s1, o, TRUE)
        BY <3>0, <4>1, WithAttachedFacts, Zenon
      <4>3. SameParents(s, s1) /\ Parented(s) /\ Rooted(s)
        BY <2>3, <4>2 DEF AttachedIs, SameParents, Good, Placed, Rooted
      <4>4. Rooted(s1)
        BY <4>3, SameTree, Zenon
      <4>5. Acyclic(s1)
        BY <2>3, <4>3, AcyclicSame DEF Good, Placed
      <4>6. Placed(s1)
        BY <2>3, <4>2, <4>4, <4>5, ObjectsAssumption DEF AttachedIs, Good, Placed
      <4> QED BY <2>3, <4>1, <4>6 DEF Good, ClosedBelow, PaintClosed, PaintClosedIn
    <3>4. Good(Remarked(s, o)) /\ Alike(s, Remarked(s, o))
      BY <3>0, <3>3, RemarkedFacts, Zenon DEF Alike
    <3>5. Good(AttachStep(c, a)) /\ Alike(s, AttachStep(c, a))
      BY <2>2, <3>0, <3>1, <3>4, AttachStepFacts, Zenon
    <3> QED BY <3>1, <3>2, <3>5
  <2>4. Attaches(Attached[m])
    BY <2>3 DEF Attaches
  <2>5. m \in 0..MaxDepth
    BY <1>1
  <2> QED BY <2>4, <2>5
<1>4. \A m \in 0..MaxDepth : m \in P
  <2> HIDE DEF P
  <2> QED BY <1>1, <1>2, <1>3, CountingUp, Zenon
<1> QED BY <1>4

\* Attach(o), where o has just been put into the tree, and the rest of which holds.
LEMMA AttachFacts ==
  ASSUME NEW s \in States, NEW o \in InTree(s), o # View, Placed(WithAttached(s, o, TRUE)),
         ClosedBelow(s, o), PaintAsked(s)
  PROVE  Good(Attach(s, o)) /\ Alike(s, Attach(s, o))
<1>1. PICK c : c = [s |-> s, o |-> o]
  OBVIOUS
<1>2. o \in Objects
  BY DEF InTree
<1>3. MaxDepth \in 1..MaxDepth /\ MaxDepth - 1 \in 0..MaxDepth
  BY AttachedFacts
<1>4. PICK a : a = Attached[MaxDepth - 1]
  OBVIOUS
<1>5. Attaches(a)
  BY <1>3, <1>4, AttachedAttaches
<1>6. Attach(s, o) = AttachStep(c, a)
  BY <1>1, <1>2, <1>3, <1>4, CallFacts, AttachedFacts DEF Attach
<1>7. Good(Remarked(s, o)) /\ Alike(s, Remarked(s, o))
  BY RemarkedFacts, Zenon DEF Alike
<1>8. Good(AttachStep(c, a)) /\ Alike(s, AttachStep(c, a))
  BY <1>1, <1>5, <1>7, AttachStepFacts, Zenon
<1> QED BY <1>6, <1>8

-----------------------------------------------------------------------------
(* Laying objects out. *)

\* An object of the tree has a boundary above itself, or none.
InBoundaries(s) == \A x \in InTree(s) : s.h[x].boundary \in Above(s, x) \cup {None}

\* What laying out changes: nothing is put elsewhere, marked or listed, the marks
\* for painting stay closed, and no object of the tree becomes dirty.
Laid(s, t) ==
    /\ Alike(s, t) /\ t.list = s.list
    /\ \A x \in Objects : /\ t.h[x].attached = s.h[x].attached
                          /\ t.h[x].needsLayout => s.h[x].needsLayout
    /\ PaintClosed(s) => PaintClosed(t)
    /\ InBoundaries(s) => InBoundaries(t) /\ \A x \in InTree(s) : Dirty(t, x) => Dirty(s, x)

LEMMA LaidItself ==
  ASSUME NEW s
  PROVE  Laid(s, s)
BY AlikeItself DEF Laid

LEMMA LaidTrans ==
  ASSUME NEW s \in States, NEW t, NEW u, Laid(s, t), Laid(t, u)
  PROVE  Laid(s, u)
<1>1. Alike(s, t) /\ Alike(t, u) /\ Alike(s, u)
  BY AlikeTrans DEF Laid
<1>2. InTree(t) = InTree(s)
  BY <1>1, StateFields, SameTree DEF Alike
<1>3. InBoundaries(s) => InBoundaries(u) /\ \A x \in InTree(s) : Dirty(u, x) => Dirty(s, x)
  BY <1>2 DEF Laid
<1> QED BY <1>1, <1>3 DEF Laid

\* An object that a call from o is handed down to is strictly below o.
LEMMA HandedDownFacts ==
  ASSUME NEW s, Rooted(s), NEW o \in Objects, o # View, NEW kept, NEW x \in HandedDown(s, o, kept)
  PROVE  x \in Objects /\ o \in Above(s, x) /\ x \notin Above(s, o) /\ x # View
<1>1. x \in Objects /\ o \in Above(s, x) /\ x \notin Above(s, o)
  BY DEF HandedDown
<1>2. Above(s, View) = {View}
  BY RootIsAlone, ObjectsAssumption DEF Rooted
<1> QED BY <1>1, <1>2

\* New boundaries for some objects.
BoundariesAre(s, t, told, b) ==
    /\ t \in States /\ Rest(s, t)
    /\ \A x \in Objects :
          /\ t.h[x].parent = s.h[x].parent /\ t.h[x].attached = s.h[x].attached
          /\ t.h[x].needsLayout = s.h[x].needsLayout /\ t.h[x].needsPaint = s.h[x].needsPaint
          /\ (x \in told => t.h[x].boundary = b) /\ (x \notin told => t.h[x].boundary = s.h[x].boundary)

WithBoundary(s, told, b) ==
    [s EXCEPT !.h = [x \in Objects |-> [s.h[x] EXCEPT !.boundary = IF x \in told THEN b ELSE @]]]

LEMMA WithBoundaryFacts ==
  ASSUME NEW s \in States, NEW told, NEW b \in Objects \cup {None}
  PROVE  BoundariesAre(s, WithBoundary(s, told, b), told, b)
<1> DEFINE hs == [x \in Objects |-> [s.h[x] EXCEPT !.boundary = IF x \in told THEN b ELSE @]]
<1>1. ASSUME NEW x \in Objects
      PROVE  /\ hs[x] \in Handle /\ hs[x].parent = s.h[x].parent /\ hs[x].attached = s.h[x].attached
             /\ hs[x].needsLayout = s.h[x].needsLayout /\ hs[x].needsPaint = s.h[x].needsPaint
             /\ (x \in told => hs[x].boundary = b) /\ (x \notin told => hs[x].boundary = s.h[x].boundary)
  <2>1. s.h[x] \in Handle
    BY StateFields, Zenon
  <2>2. PICK d : d = IF x \in told THEN b ELSE s.h[x].boundary
    OBVIOUS
  <2>3. hs[x] = [s.h[x] EXCEPT !.boundary = d]
    BY <2>2
  <2>4. d \in Objects \cup {None}
    BY <2>1, <2>2 DEF Handle
  <2> HIDE DEF hs
  <2> QED BY <2>1, <2>2, <2>3, <2>4 DEF Handle
<1>2. hs \in [Objects -> Handle]
  BY <1>1
<1>3. PICK t : t = WithBoundary(s, told, b)
  OBVIOUS
<1>4. t = [s EXCEPT !.h = hs]
  BY <1>3 DEF WithBoundary
<1> HIDE DEF hs
<1>5. t \in States /\ Rest(s, t) /\ t.h = hs
  BY <1>2, <1>4 DEF States, Rest
<1> QED BY <1>1, <1>3, <1>5 DEF BoundariesAre

\* Handing a boundary down from o makes nothing of the tree dirty.
LEMMA BoundaryIsHandedDown ==
  ASSUME NEW s \in States, Placed(s), NEW o \in Objects, o # View, NEW told, NEW b \in Objects \cup {None},
         InBoundaries(s) /\ o \in InTree(s) => b \in Above(s, o) \cup {None},
         NEW kept, told = HandedDown(s, o, kept) \/ told = HandedDown(s, o, kept) \cup {o},
         o \in told => ~s.h[o].needsLayout
  PROVE  /\ WithBoundary(s, told, b) \in States /\ Placed(WithBoundary(s, told, b))
         /\ Laid(s, WithBoundary(s, told, b))
<1>1. PICK t : t = WithBoundary(s, told, b)
  OBVIOUS
<1>2. BoundariesAre(s, t, told, b)
  BY <1>1, WithBoundaryFacts, Zenon
<1>3. SameParents(s, t) /\ Parented(s) /\ Rooted(s) /\ None \notin Objects /\ View \in Objects
  BY <1>2, ObjectsAssumption DEF BoundariesAre, SameParents, Placed, Rooted
<1>4. InTree(t) = InTree(s) /\ Rooted(t) /\ \A x \in Objects : Above(t, x) = Above(s, x)
  BY <1>3, SameTree, Zenon
<1>5. ASSUME NEW x \in told, x # o
      PROVE  x \in Objects /\ o \in Above(s, x) /\ x \notin Above(s, o) /\ x # View
  <2>1. x \in HandedDown(s, o, kept)
    BY <1>5
  <2> QED BY <1>3, <2>1, HandedDownFacts, Zenon
<1>6. Placed(t)
  <2>1. View \notin told
    BY <1>5
  <2>2. Acyclic(t)
    BY <1>3, AcyclicSame DEF Placed
  <2> QED BY <1>2, <1>3, <1>4, <2>1, <2>2 DEF BoundariesAre, Placed
<1>7. PaintClosed(s) => PaintClosed(t)
  BY <1>2, <1>3 DEF PaintClosed, PaintClosedIn, BoundariesAre, Parented
<1>8. ASSUME InBoundaries(s), NEW x \in InTree(s), x \in told
      PROVE  x \in Objects /\ b \in Above(s, o) \cup {None} /\ Above(s, o) \subseteq Above(s, x)
  <2>0. x \in Objects
    BY DEF InTree
  <2>1. o \in Above(s, x)
    <3>1. x \in Above(s, x)
      BY <1>3, <2>0, AboveFacts, Zenon
    <3> QED BY <1>5, <1>8, <3>1
  <2>2. o \in InTree(s)
    BY <1>3, <2>1, AboveInTree, Zenon
  <2>3. Above(s, o) \subseteq Above(s, x)
    BY <1>3, <2>0, <2>1, AboveUp, Zenon
  <2> QED BY <1>8, <2>0, <2>2, <2>3
<1>9. ASSUME InBoundaries(s) PROVE InBoundaries(t)
  <2> SUFFICES ASSUME NEW x \in InTree(s) PROVE t.h[x].boundary \in Above(s, x) \cup {None}
    BY <1>4 DEF InBoundaries, InTree
  <2>1. CASE x \in told
    BY <1>2, <1>8, <1>9, <2>1 DEF BoundariesAre
  <2>2. CASE x \notin told
    BY <1>2, <1>9, <2>2 DEF BoundariesAre, InBoundaries, InTree
  <2> QED BY <2>1, <2>2
<1>10. ASSUME InBoundaries(s), NEW x \in InTree(s), Dirty(t, x) PROVE Dirty(s, x)
  <2>0. x \in Objects
    BY DEF InTree
  <2>1. CASE x \in told
    <3>1. b = x /\ s.h[x].needsLayout
      BY <1>2, <1>10, <2>0, <2>1 DEF BoundariesAre, Dirty
    <3>2. x # o
      BY <2>1, <3>1
    <3>3. x \in Above(s, o) \cup {None}
      BY <1>8, <1>10, <2>1, <3>1
    <3> QED BY <1>3, <1>5, <2>0, <2>1, <3>2, <3>3
  <2>2. CASE x \notin told
    BY <1>2, <1>10, <2>0, <2>2 DEF BoundariesAre, Dirty
  <2> QED BY <2>1, <2>2
<1>11. Laid(s, t)
  <2>1. Alike(s, t) /\ t.list = s.list
    BY <1>2, <1>3 DEF BoundariesAre, Rest, Alike
  <2>2. \A x \in Objects : /\ t.h[x].attached = s.h[x].attached
                           /\ t.h[x].needsLayout => s.h[x].needsLayout
    BY <1>2 DEF BoundariesAre
  <2> QED BY <1>7, <1>9, <1>10, <2>1, <2>2 DEF Laid
<1>12. t \in States
  BY <1>2 DEF BoundariesAre
<1> QED BY <1>1, <1>6, <1>11, <1>12

\* What a call that lays out an object does.
LaysOut(s, o, t) == t \in States /\ Placed(t) /\ Laid(s, t) /\ ~t.h[o].needsLayout

Lays(perform) ==
    \A s \in States : \A o \in Objects :
       Placed(s) => LaysOut(s, o, perform[[s |-> s, o |-> o]])

\* A handle with other constraints is in the same place.
WithConstraints(s, o, cs) == [s EXCEPT !.h[o].cs = cs]

LEMMA SameHandlesLaid ==
  ASSUME NEW s \in States, Placed(s), NEW t \in States, Rest(s, t), SamePlaces(s, t),
         \A x \in Objects : /\ t.h[x].needsLayout => s.h[x].needsLayout
                            /\ t.h[x].needsPaint = s.h[x].needsPaint
  PROVE  Placed(t) /\ Laid(s, t)
<1>1. SameParents(s, t) /\ Placed(t) /\ Parented(s)
  BY PlacedSame, StateFields, Zenon
<1>2. InTree(t) = InTree(s) /\ \A x \in Objects : Above(t, x) = Above(s, x)
  BY <1>1, SameTree, Zenon
<1>3. PaintClosed(s) => PaintClosed(t)
  BY <1>1 DEF PaintClosed, PaintClosedIn, SameParents, Parented
<1>4. InBoundaries(s) => InBoundaries(t)
  BY <1>2 DEF InBoundaries, SamePlaces, InTree
<1>5. ASSUME NEW x \in InTree(s), Dirty(t, x) PROVE Dirty(s, x)
  BY <1>5 DEF Dirty, SamePlaces, InTree
<1> QED BY <1>1, <1>3, <1>4, <1>5 DEF Laid, Alike, Rest, SamePlaces

LEMMA WithConstraintsFacts ==
  ASSUME NEW s \in States, Placed(s), NEW o \in Objects, NEW cs \in Constraints
  PROVE  LET t == WithConstraints(s, o, cs) IN
         t \in States /\ Placed(t) /\ Laid(s, t) /\ SameParents(s, t)
<1>1. PICK hd : hd = [s.h[o] EXCEPT !.cs = cs]
  OBVIOUS
<1>2. s.h[o] \in Handle
  BY StateFields, Zenon
<1>3. /\ hd \in Handle /\ hd.parent = s.h[o].parent /\ hd.attached = s.h[o].attached
      /\ hd.boundary = s.h[o].boundary
      /\ hd.needsLayout = s.h[o].needsLayout /\ hd.needsPaint = s.h[o].needsPaint
  BY <1>1, <1>2 DEF Handle
<1>4. PICK t : t = WithConstraints(s, o, cs)
  OBVIOUS
<1>5. t = WithHandle(s, o, hd)
  BY <1>1, <1>4 DEF WithHandle, WithConstraints
<1>6. HandleIs(s, t, o, hd)
  BY <1>3, <1>5, OneHandle, Zenon
<1>7. t \in States /\ Rest(s, t) /\ SamePlaces(s, t)
  BY <1>3, <1>6 DEF HandleIs, SamePlaces
<1>8. \A x \in Objects : t.h[x].needsLayout = s.h[x].needsLayout /\ t.h[x].needsPaint = s.h[x].needsPaint
  BY <1>3, <1>6 DEF HandleIs
<1>9. Placed(t) /\ Laid(s, t)
  BY <1>7, <1>8, SameHandlesLaid
<1> QED BY <1>4, <1>7, <1>9 DEF Laid, Alike

\* After PerformLayout.
Finished(s, o) == [s EXCEPT !.h[o].needsLayout = FALSE, !.h[o].laid = s.h[o].config]

LEMMA FinishedFacts ==
  ASSUME NEW s \in States, Placed(s), NEW o \in Objects
  PROVE  LaysOut(s, o, MarkNeedsPaint(Finished(s, o), o))
<1>1. PICK hd : hd = [s.h[o] EXCEPT !.needsLayout = FALSE, !.laid = s.h[o].config]
  OBVIOUS
<1>2. s.h[o] \in Handle
  BY StateFields, Zenon
<1>3. /\ hd \in Handle /\ hd.parent = s.h[o].parent /\ hd.attached = s.h[o].attached
      /\ hd.boundary = s.h[o].boundary /\ ~hd.needsLayout /\ hd.needsPaint = s.h[o].needsPaint
  BY <1>1, <1>2 DEF Handle
<1>4. PICK u : u = Finished(s, o)
  OBVIOUS
<1>5. u = WithHandle(s, o, hd)
  BY <1>1, <1>4 DEF WithHandle, Finished
<1>6. HandleIs(s, u, o, hd)
  BY <1>3, <1>5, OneHandle, Zenon
<1>7. u \in States /\ Rest(s, u) /\ SamePlaces(s, u) /\ ~u.h[o].needsLayout
  BY <1>3, <1>6 DEF HandleIs, SamePlaces
<1>8. \A x \in Objects : /\ u.h[x].needsLayout => s.h[x].needsLayout
                         /\ u.h[x].needsPaint = s.h[x].needsPaint
  BY <1>3, <1>6 DEF HandleIs
<1>9. Placed(u) /\ Laid(s, u)
  BY <1>7, <1>8, SameHandlesLaid
<1>10. PICK t : t = MarkNeedsPaint(u, o)
  OBVIOUS
<1>11. /\ t \in States /\ t.list = u.list /\ t.failed = u.failed /\ SamePlaces(u, t)
       /\ \A x \in Objects : t.h[x].needsLayout = u.h[x].needsLayout
  BY <1>7, <1>10, MarkNeedsPaintFacts
<1>12. Placed(t) /\ SameParents(u, t) /\ Parented(u)
  BY <1>7, <1>9, <1>11, PlacedSame, StateFields, Zenon
<1>13. InTree(t) = InTree(u) /\ \A x \in Objects : Above(t, x) = Above(u, x)
  BY <1>12, SameTree, Zenon
<1>14. PaintClosed(u) => PaintClosed(t)
  BY <1>7, <1>9, <1>10, PaintStaysClosed, Zenon DEF Placed
<1>15. InBoundaries(u) => InBoundaries(t)
  BY <1>11, <1>13 DEF InBoundaries, SamePlaces, InTree
<1>16. ASSUME NEW x \in InTree(u), Dirty(t, x) PROVE Dirty(u, x)
  BY <1>11, <1>16 DEF Dirty, SamePlaces, InTree
<1>17. Laid(u, t)
  BY <1>11, <1>12, <1>14, <1>15, <1>16 DEF Laid, Alike, SamePlaces
<1>18. Laid(s, t)
  BY <1>9, <1>17, LaidTrans, Zenon
<1> QED BY <1>4, <1>7, <1>10, <1>11, <1>12, <1>18 DEF LaysOut

\* Layout(o), for a child.
LEMMA LayoutFacts ==
  ASSUME NEW s \in States, Placed(s), NEW o \in Objects, s.h[o].parent # None,
         NEW cs \in Constraints, NEW perform, Lays(perform)
  PROVE  Layout(s, o, cs, perform) \in States /\ Placed(Layout(s, o, cs, perform))
         /\ Laid(s, Layout(s, o, cs, perform))
<1>0. o # View /\ Rooted(s) /\ Parented(s) /\ None \notin Objects /\ View \in Objects
  BY ObjectsAssumption DEF Placed, Rooted
<1>1. PICK p \in Objects : p = s.h[o].parent
  BY <1>0 DEF Parented
<1>2. PICK b : b = IF o \in SelfSized \/ cs.tight THEN o ELSE s.h[p].boundary
  OBVIOUS
<1>3. o \in Above(s, o) /\ p \in Above(s, o)
  <2>1. o \in Above(s, o) /\ ClosedUp(s, Above(s, o))
    BY <1>0, AboveFacts, Zenon
  <2> QED BY <1>0, <1>1, <2>1 DEF ClosedUp
<1>4. b \in Objects \cup {None}
  <2>1. s.h[p].boundary \in Objects \cup {None}
    BY StateFields, Zenon
  <2> QED BY <1>2, <2>1
<1>5. ASSUME InBoundaries(s), o \in InTree(s) PROVE b \in Above(s, o) \cup {None}
  <2>1. Above(s, p) \subseteq Above(s, o)
    BY <1>0, <1>3, AboveUp, Zenon
  <2>2. p \in InTree(s)
    BY <1>0, <1>3, <1>5, AboveInTree, Zenon
  <2>3. s.h[p].boundary \in Above(s, p) \cup {None}
    BY <1>5, <2>2 DEF InBoundaries
  <2> QED BY <1>2, <1>3, <2>1, <2>3
<1>6. PICK t : t = Layout(s, o, cs, perform)
  OBVIOUS
<1>7. CASE ~s.h[o].needsLayout /\ cs = s.h[o].cs
  <2>1. t = IF b = s.h[o].boundary THEN s ELSE Propagate(s, o, b)
    BY <1>1, <1>2, <1>6, <1>7 DEF Layout
  <2>2. CASE b = s.h[o].boundary
    BY <1>6, <2>1, <2>2, LaidItself
  <2>3. CASE b # s.h[o].boundary
    <3>1. PICK told : told = HandedDown(s, o, {b}) \cup {o}
      OBVIOUS
    <3>2. t = WithBoundary(s, told, b)
      BY <2>1, <2>3, <3>1 DEF Propagate, WithBoundary
    <3>3. t \in States /\ Placed(t) /\ Laid(s, t)
      <4>1. InBoundaries(s) /\ o \in InTree(s) => b \in Above(s, o) \cup {None}
        BY <1>5
      <4>2. told = HandedDown(s, o, {b}) \/ told = HandedDown(s, o, {b}) \cup {o}
        BY <3>1
      <4>3. o \in told => ~s.h[o].needsLayout
        BY <1>7
      <4> QED BY <1>0, <1>4, <3>2, <4>1, <4>2, <4>3, BoundaryIsHandedDown, Zenon
    <3> QED BY <1>6, <3>3
  <2> QED BY <2>2, <2>3
<1>8. CASE ~(~s.h[o].needsLayout /\ cs = s.h[o].cs)
  <2>1. PICK s1 : s1 = WithConstraints(s, o, cs)
    OBVIOUS
  <2>2. s1 \in States /\ Placed(s1) /\ Laid(s, s1) /\ SameParents(s, s1)
    BY <2>1, WithConstraintsFacts, Zenon
  <2>3. PICK s2 : s2 = IF s.h[o].boundary \notin {None, b} THEN CleanRelayoutBoundaries(s1, o) ELSE s1
    OBVIOUS
  <2>4. s2 \in States /\ Placed(s2) /\ Laid(s1, s2)
    <3>1. CASE s.h[o].boundary \notin {None, b}
      <4>1. PICK told : told = HandedDown(s1, o, {})
        OBVIOUS
      <4>2. s2 = WithBoundary(s1, told, None)
        BY <2>3, <3>1, <4>1 DEF CleanRelayoutBoundaries, WithBoundary
      <4>3. o \notin told
        BY <1>0, <2>2, <4>1, HandedDownFacts, AboveFacts DEF Placed, Rooted
      <4>4. InBoundaries(s1) /\ o \in InTree(s1) => None \in Above(s1, o) \cup {None}
        OBVIOUS
      <4>5. told = HandedDown(s1, o, {}) \/ told = HandedDown(s1, o, {}) \cup {o}
        BY <4>1
      <4>6. o \in told => ~s1.h[o].needsLayout
        BY <4>3
      <4>7. None \in Objects \cup {None}
        OBVIOUS
      <4> QED BY <1>0, <2>2, <4>2, <4>4, <4>5, <4>6, <4>7, BoundaryIsHandedDown, Zenon
    <3>2. CASE ~(s.h[o].boundary \notin {None, b})
      BY <2>2, <2>3, <3>2, LaidItself
    <3> QED BY <3>1, <3>2
  <2>5. t = perform[[s |-> s2, o |-> o]]
    BY <1>1, <1>2, <1>6, <1>8, <2>1, <2>3 DEF Layout, WithConstraints
  <2>6. t \in States /\ Placed(t) /\ Laid(s2, t)
    BY <2>4, <2>5 DEF Lays, LaysOut
  <2>7. Laid(s, s2)
    BY <2>2, <2>4, LaidTrans, Zenon
  <2>8. Laid(s, t)
    BY <2>6, <2>7, LaidTrans, Zenon
  <2> QED BY <1>6, <2>6, <2>8
<1> QED BY <1>7, <1>8

\* What PerformLayout does at each depth.
ChildrenLaid(c, perform) ==
    ForEach(c.s, Children(c.s, c.o),
            [child \in Calls |-> Layout(child.s, child.o, Given(child.s, c.o), perform)])

PerformFirst(c) == MarkNeedsPaint(Finished(c.s, c.o), c.o)
PerformStep(c, perform) == MarkNeedsPaint(Finished(ChildrenLaid(c, perform), c.o), c.o)

LEMMA PerformedFacts ==
  /\ \A c \in Calls : Performed[0][c] = PerformFirst(c)
  /\ \A n \in 1..MaxDepth, c \in Calls : Performed[n][c] = PerformStep(c, Performed[n - 1])
<1> DEFINE K == MaxDepth
           Fits(f, m) == f = [n \in 0..m |-> [c \in Calls |->
                                IF n = 0 THEN PerformFirst(c) ELSE PerformStep(c, f[n - 1])]]
           P == {m \in 0..K : \E f : Fits(f, m)}
<1>1. K \in Nat \ {0}
  BY AttachedFacts DEF MaxDepth
<1> HIDE DEF K
<1>2. 0 \in P
  <2>1. PICK f : f = [n \in 0..0 |-> [c \in Calls |-> PerformFirst(c)]]
    OBVIOUS
  <2>2. f = [n \in 0..0 |-> [c \in Calls |-> IF n = 0 THEN PerformFirst(c) ELSE PerformStep(c, f[n - 1])]]
    BY <2>1
  <2> QED BY <1>1, <2>2
<1>3. ASSUME NEW m \in 1..K, m - 1 \in P PROVE m \in P
  <2>1. PICK f : Fits(f, m - 1)
    BY <1>3
  <2>2. PICK g : g = [n \in 0..m |-> IF n = m THEN [c \in Calls |-> PerformStep(c, f[m - 1])] ELSE f[n]]
    OBVIOUS
  <2>3. ASSUME NEW n \in 0..m
        PROVE  g[n] = [c \in Calls |-> IF n = 0 THEN PerformFirst(c) ELSE PerformStep(c, g[n - 1])]
    <3>1. m # 0 /\ m \in Int /\ (n # 0 => n - 1 \in 0..m /\ n - 1 # m)
      BY <1>1
    <3>2. n # 0 => g[n - 1] = f[n - 1]
      BY <2>2, <3>1
    <3>3. n # m => g[n] = f[n] /\ n \in 0..(m - 1)
      BY <1>1, <2>2
    <3>4. n # m => f[n] = [c \in Calls |-> IF n = 0 THEN PerformFirst(c) ELSE PerformStep(c, f[n - 1])]
      BY <2>1, <3>3
    <3>5. n = m => g[n] = [c \in Calls |-> PerformStep(c, f[n - 1])]
      BY <2>2
    <3> QED BY <3>1, <3>2, <3>3, <3>4, <3>5
  <2>4. Fits(g, m)
    BY <2>2, <2>3
  <2>5. m \in 0..K
    BY <1>1
  <2> HIDE DEF Fits
  <2> QED BY <2>4, <2>5
<1>4. K \in P
  <2> HIDE DEF P
  <2>1. \A m \in 0..K : m \in P
    BY <1>1, <1>2, <1>3, CountingUp, Zenon
  <2> QED BY <1>1, <2>1
<1> DEFINE Result(f, n, c) == LET s1 == IF n = 0 THEN c.s ELSE ChildrenLaid(c, f[n - 1])
                              IN  MarkNeedsPaint([s1 EXCEPT !.h[c.o].needsLayout = FALSE,
                                                            !.h[c.o].laid = s1.h[c.o].config], c.o)
<1>5. Performed = CHOOSE f : f = [n \in 0..K |-> [c \in Calls |-> Result(f, n, c)]]
  BY DEF Performed, ChildrenLaid, K
<1>6. ASSUME NEW f PROVE Fits(f, K) <=> f = [n \in 0..K |-> [c \in Calls |-> Result(f, n, c)]]
  <2> DEFINE Due(n, c) == IF n = 0 THEN PerformFirst(c) ELSE PerformStep(c, f[n - 1])
  <2>1. ASSUME NEW n \in 0..K, NEW c \in Calls PROVE Due(n, c) = Result(f, n, c)
    <3>1. CASE n = 0
      BY <3>1 DEF PerformFirst, Finished
    <3>2. CASE n # 0
      BY <3>2 DEF PerformStep, Finished
    <3> QED BY <3>1, <3>2
  <2>2. Fits(f, K) <=> f = [n \in 0..K |-> [c \in Calls |-> Due(n, c)]]
    OBVIOUS
  <2> HIDE DEF Due, Result, Fits
  <2>3. \A n \in 0..K : [c \in Calls |-> Due(n, c)] = [c \in Calls |-> Result(f, n, c)]
    BY <2>1
  <2>4. [n \in 0..K |-> [c \in Calls |-> Due(n, c)]] = [n \in 0..K |-> [c \in Calls |-> Result(f, n, c)]]
    BY <2>3
  <2> QED BY <2>2, <2>4
<1> HIDE DEF Result
<1>7. Fits(Performed, K)
  <2>1. PICK f : Fits(f, K)
    BY <1>4
  <2> HIDE DEF Fits
  <2> QED BY <2>1, <1>5, <1>6
<1>8. \A n \in 0..K : Performed[n] = [c \in Calls |->
                         IF n = 0 THEN PerformFirst(c) ELSE PerformStep(c, Performed[n - 1])]
  <2> HIDE DEF P
  <2> QED BY <1>7
<1>9. 0 \in 0..K /\ \A n \in 1..K : n \in 0..K /\ n # 0
  BY <1>1
<1>10. \A c \in Calls : Performed[0][c] = PerformFirst(c)
  BY <1>8, <1>9
<1>11. ASSUME NEW n \in 1..K, NEW c \in Calls PROVE Performed[n][c] = PerformStep(c, Performed[n - 1])
  BY <1>8, <1>9
<1> QED BY <1>10, <1>11 DEF K

LEMMA GivenFacts ==
  ASSUME NEW s \in States, NEW o \in Objects
  PROVE  Given(s, o) \in Constraints
<1>1. s.h[o].cs \in Constraints /\ s.h[o].config \in 0..1
  BY StateFields, Zenon
<1>2. PICK cs : cs = s.h[o].cs
  OBVIOUS
<1>3. /\ [cs EXCEPT !.tight = FALSE] \in Constraints
      /\ \A b \in BOOLEAN : [cs EXCEPT !.tight = @ \/ b] \in Constraints
  BY <1>1, <1>2 DEF Constraints
<1>4. [cs EXCEPT !.tight = @ \/ s.h[o].config = 1] \in Constraints
  <2>1. PICK b \in BOOLEAN : b = (s.h[o].config = 1)
    OBVIOUS
  <2>2. [cs EXCEPT !.tight = @ \/ s.h[o].config = 1] = [cs EXCEPT !.tight = @ \/ b]
    BY <2>1
  <2> QED BY <1>3, <2>2
<1> QED BY <1>1, <1>2, <1>3, <1>4 DEF Given

LEMMA PerformStepLays ==
  ASSUME NEW s \in States, Placed(s), NEW o \in Objects, NEW perform, Lays(perform)
  PROVE  LaysOut(s, o, PerformStep([s |-> s, o |-> o], perform))
<1>1. PICK c : c = [s |-> s, o |-> o]
  OBVIOUS
<1>2. PICK cs : cs = Children(s, o)
  OBVIOUS
<1>3. cs \in Seq(Objects) /\ \A i \in 1..Len(cs) : s.h[cs[i]].parent = o
  BY <1>2, ChildrenFacts, Zenon
<1>4. PICK lay : lay = [child \in Calls |-> Layout(child.s, child.o, Given(child.s, o), perform)]
  OBVIOUS
<1>5. PICK t : t = ForEach(s, cs, lay)
  OBVIOUS
<1>6. t = ChildrenLaid(c, perform)
  BY <1>1, <1>2, <1>4, <1>5 DEF ChildrenLaid
<1> DEFINE G == {u \in States : Placed(u) /\ Laid(s, u)}
           R == {x \in States \X States : Laid(x[1], x[2])}
<1>7. \A u \in G : <<u, u>> \in R
  BY LaidItself
<1>8. \A u, v, w \in G : <<u, v>> \in R /\ <<v, w>> \in R => <<u, w>> \in R
  BY LaidTrans
<1>9. ASSUME NEW u \in G, NEW i \in 1..Len(cs)
      PROVE  lay[[s |-> u, o |-> cs[i]]] \in G /\ <<u, lay[[s |-> u, o |-> cs[i]]]>> \in R
  <2>1. PICK x \in Objects : x = cs[i]
    BY <1>3
  <2>2. u \in States /\ Placed(u) /\ Laid(s, u)
    OBVIOUS
  <2>3. u.h[x].parent = o /\ o # None
    BY <1>3, <2>1, <2>2, ObjectsAssumption DEF Laid, Alike, SameParents
  <2>4. PICK v : v = lay[[s |-> u, o |-> x]]
    OBVIOUS
  <2>5. v = Layout(u, x, Given(u, o), perform)
    BY <1>4, <2>1, <2>2, <2>4, CallFacts
  <2>6. PICK gs \in Constraints : gs = Given(u, o)
    BY <2>2, GivenFacts
  <2>7. u.h[x].parent # None
    BY <2>3
  <2>8. v \in States /\ Placed(v) /\ Laid(u, v)
    BY <2>2, <2>5, <2>6, <2>7, LayoutFacts, Zenon
  <2>9. Laid(s, v)
    BY <2>2, <2>8, LaidTrans, Zenon
  <2> QED BY <2>1, <2>2, <2>4, <2>8, <2>9
<1>10. s \in G
  BY LaidItself
<1>11. t \in G
  <2> HIDE DEF G, R
  <2> QED BY <1>3, <1>5, <1>7, <1>8, <1>9, <1>10, ForEachKeeps, Zenon
<1>12. t \in States /\ Placed(t) /\ Laid(s, t)
  BY <1>11
<1>13. PICK u : u = MarkNeedsPaint(Finished(t, o), o)
  OBVIOUS
<1>14. LaysOut(t, o, u)
  BY <1>12, <1>13, FinishedFacts, Zenon
<1>15. LaysOut(s, o, u)
  <2>1. Laid(s, u)
    BY <1>12, <1>14, LaidTrans, Zenon DEF LaysOut
  <2> QED BY <1>14, <2>1 DEF LaysOut
<1>16. u = PerformStep(c, perform)
  BY <1>1, <1>6, <1>13 DEF PerformStep
<1> QED BY <1>1, <1>15, <1>16

LEMMA PerformedLays ==
  ASSUME NEW n \in 0..MaxDepth
  PROVE  Lays(Performed[n])
<1> DEFINE P == {m \in 0..MaxDepth : Lays(Performed[m])}
<1>1. MaxDepth \in Nat
  BY AttachedFacts
<1>2. 0 \in P
  <2>1. ASSUME NEW s \in States, NEW o \in Objects, Placed(s)
        PROVE  LaysOut(s, o, Performed[0][[s |-> s, o |-> o]])
    <3>1. Performed[0][[s |-> s, o |-> o]] = MarkNeedsPaint(Finished(s, o), o)
      BY CallFacts, PerformedFacts DEF PerformFirst
    <3> QED BY <2>1, <3>1, FinishedFacts
  <2>2. Lays(Performed[0])
    BY <2>1 DEF Lays
  <2> QED BY <1>1, <2>2
<1>3. ASSUME NEW m \in 1..MaxDepth, m - 1 \in P PROVE m \in P
  <2>1. PICK a : a = Performed[m - 1]
    OBVIOUS
  <2>2. Lays(a)
    BY <1>3, <2>1
  <2>3. ASSUME NEW s \in States, NEW o \in Objects, Placed(s)
        PROVE  LaysOut(s, o, Performed[m][[s |-> s, o |-> o]])
    <3>1. Performed[m][[s |-> s, o |-> o]] = PerformStep([s |-> s, o |-> o], a)
      BY <2>1, CallFacts, PerformedFacts
    <3> QED BY <2>2, <2>3, <3>1, PerformStepLays
  <2>4. Lays(Performed[m])
    BY <2>3 DEF Lays
  <2>5. m \in 0..MaxDepth
    BY <1>1
  <2> QED BY <2>4, <2>5
<1>4. \A m \in 0..MaxDepth : m \in P
  <2> HIDE DEF P
  <2> QED BY <1>1, <1>2, <1>3, CountingUp, Zenon
<1> QED BY <1>4

LEMMA LayoutWithoutResizeFacts ==
  ASSUME NEW s \in States, NEW o \in Objects, Placed(s)
  PROVE  LaysOut(s, o, LayoutWithoutResize(s, o))
<1>1. MaxDepth \in 0..MaxDepth
  BY AttachedFacts
<1>2. PICK perform : perform = Performed[MaxDepth]
  OBVIOUS
<1>3. Lays(perform)
  BY <1>1, <1>2, PerformedLays
<1>4. LayoutWithoutResize(s, o) = perform[[s |-> s, o |-> o]]
  BY <1>2 DEF LayoutWithoutResize
<1> QED BY <1>3, <1>4 DEF Lays

-----------------------------------------------------------------------------
(* Frames. *)

LEMMA InTreeIsAttached ==
  ASSUME NEW s, Placed(s), NEW o \in InTree(s)
  PROVE  o \in Objects /\ s.h[o].attached
<1>1. Rooted(s) /\ Parented(s) /\ o \in Objects
  BY DEF Placed, Rooted, InTree
<1>2. o \in Above(s, o)
  BY <1>1, AboveFacts, Zenon
<1>3. s.h[o].parent = None => o = View
  BY <1>1, <1>2, AboveInTree, Zenon
<1> QED BY <1>1, <1>3 DEF Placed

\* FlushLayout lays out what is listed, and leaves nothing of the tree dirty.
LEMMA FlushLayoutFacts ==
  ASSUME NEW s \in States, Placed(s), PaintClosed(s)
  PROVE  LET t == FlushLayout(s) IN
         /\ t \in States /\ Placed(t) /\ PaintClosed(t) /\ t.failed = s.failed
         /\ InBoundaries(s) /\ (\A x \in InTree(s) : Dirty(s, x) => x \in Range(s.list))
               => InBoundaries(t) /\ \A x \in InTree(t) : ~Dirty(t, x)
<1>1. PICK a : a = [s EXCEPT !.list = <<>>]
  OBVIOUS
<1>2. /\ a \in States /\ a.h = s.h /\ a.failed = s.failed
  <2>0. <<>> \in Seq(Objects)
    OBVIOUS
  <2>1. PICK q \in Seq(Objects) : q = <<>>
    BY <2>0, Zenon
  <2>2. a = [s EXCEPT !.list = q]
    BY <1>1, <2>1
  <2> QED BY <2>2 DEF States
<1>3. /\ Placed(a) /\ PaintClosed(a) /\ InTree(a) = InTree(s)
      /\ \A x \in Objects : Above(a, x) = Above(s, x)
  <2>1. SamePlaces(s, a)
    BY <1>2 DEF SamePlaces
  <2>2. Placed(a) /\ InTree(a) = InTree(s) /\ SameParents(s, a) /\ Parented(s)
    BY <2>1, PlacedSame, StateFields, Zenon
  <2>3. \A x \in Objects : Above(a, x) = Above(s, x)
    BY <2>2, SameTree, Zenon
  <2>4. PaintClosed(a)
    BY <1>2 DEF PaintClosed, PaintClosedIn
  <2> QED BY <2>2, <2>3, <2>4
<1>4. PICK objs : objs = s.list
  OBVIOUS
<1>5. objs \in Seq(Objects)
  BY <1>4, StateFields
<1>6. PICK lay : lay = [c \in Calls |-> IF c.s.h[c.o].needsLayout /\ c.s.h[c.o].attached
                                        THEN LayoutWithoutResize(c.s, c.o) ELSE c.s]
  OBVIOUS
<1>7. PICK t : t = ForEach(a, objs, lay)
  OBVIOUS
<1>8. t = FlushLayout(s)
  BY <1>1, <1>4, <1>6, <1>7 DEF FlushLayout
<1>9. PICK after : Passes(after, a, objs, lay)
  BY <1>5, ForEachFacts, Zenon
<1>10. /\ after[0] = a /\ t = after[Len(objs)]
       /\ \A i \in 1..Len(objs) : after[i] = lay[[s |-> after[i - 1], o |-> objs[i]]]
  BY <1>7, <1>9 DEF Passes
<1> DEFINE Flushed(u, i) == \A j \in 1..i : InBoundaries(a) /\ objs[j] \in InTree(a) => ~Dirty(u, objs[j])
           P == {i \in 0..Len(objs) : /\ after[i] \in States /\ Placed(after[i])
                                      /\ Laid(a, after[i]) /\ Flushed(after[i], i)}
<1>11. Len(objs) \in Nat
  BY <1>5
<1>12. 0 \in P
  <2>1. Flushed(a, 0)
    OBVIOUS
  <2>2. 0 \in 0..Len(objs)
    BY <1>11
  <2> HIDE DEF Flushed
  <2> QED BY <1>2, <1>3, <1>10, <2>1, <2>2, LaidItself
<1>13. ASSUME NEW i \in 1..Len(objs), i - 1 \in P PROVE i \in P
  <2>1. PICK u : u = after[i - 1]
    OBVIOUS
  <2>2. u \in States /\ Placed(u) /\ Laid(a, u) /\ Flushed(u, i - 1)
    BY <1>13, <2>1
  <2>3. PICK x \in Objects : x = objs[i]
    BY <1>5
  <2>4. PICK v : v = after[i]
    OBVIOUS
  <2>5. v = IF u.h[x].needsLayout /\ u.h[x].attached THEN LayoutWithoutResize(u, x) ELSE u
    BY <1>6, <1>10, <2>1, <2>2, <2>3, <2>4, CallFacts
  <2>6. v \in States /\ Placed(v) /\ Laid(u, v) /\ (u.h[x].attached => ~v.h[x].needsLayout)
    <3>1. CASE u.h[x].needsLayout /\ u.h[x].attached
      <4>1. LaysOut(u, x, LayoutWithoutResize(u, x))
        BY <2>2, LayoutWithoutResizeFacts, Zenon
      <4> QED BY <2>5, <3>1, <4>1 DEF LaysOut
    <3>2. CASE ~(u.h[x].needsLayout /\ u.h[x].attached)
      BY <2>2, <2>5, <3>2, LaidItself
    <3> QED BY <3>1, <3>2
  <2>7. Laid(a, v)
    BY <1>2, <2>2, <2>6, LaidTrans, Zenon
  <2>8. InTree(u) = InTree(a)
    <3>1. SameParents(a, u) /\ Parented(a)
      BY <1>2, <2>2, StateFields DEF Laid, Alike
    <3> QED BY <3>1, SameTree, Zenon
  <2>9. ASSUME NEW j \in 1..i, InBoundaries(a), objs[j] \in InTree(a) PROVE ~Dirty(v, objs[j])
    <3>1. CASE j = i
      <4>1. u.h[x].attached
        BY <2>2, <2>3, <2>8, <2>9, <3>1, InTreeIsAttached
      <4> QED BY <2>3, <2>6, <3>1, <4>1 DEF Dirty
    <3>2. CASE j # i
      <4>1. j \in 1..(i - 1)
        BY <3>2
      <4>2. ~Dirty(u, objs[j])
        BY <2>2, <2>9, <4>1
      <4>3. InBoundaries(u)
        BY <2>2, <2>9 DEF Laid
      <4> QED BY <2>6, <2>8, <2>9, <4>2, <4>3 DEF Laid
    <3> QED BY <3>1, <3>2
  <2>10. Flushed(v, i)
    BY <2>9
  <2>11. i \in 0..Len(objs)
    BY <1>11
  <2> HIDE DEF Flushed
  <2> QED BY <2>4, <2>6, <2>7, <2>10, <2>11
<1>14. Len(objs) \in P
  <2> HIDE DEF P
  <2>1. \A i \in 0..Len(objs) : i \in P
    BY <1>11, <1>12, <1>13, CountingUp, Zenon
  <2> QED BY <1>11, <2>1
<1>15. t \in States /\ Placed(t) /\ Laid(a, t) /\ Flushed(t, Len(objs))
  BY <1>10, <1>14
<1>16. t.failed = s.failed /\ PaintClosed(t)
  BY <1>2, <1>3, <1>15 DEF Laid, Alike
<1>17. InTree(t) = InTree(s)
  <2>1. SameParents(a, t) /\ Parented(a)
    BY <1>2, <1>15, StateFields DEF Laid, Alike
  <2> QED BY <1>3, <2>1, SameTree, Zenon
<1>18. ASSUME InBoundaries(s), \A x \in InTree(s) : Dirty(s, x) => x \in Range(s.list)
       PROVE  InBoundaries(t) /\ \A x \in InTree(t) : ~Dirty(t, x)
  <2>1. InBoundaries(a)
    BY <1>2, <1>3, <1>18 DEF InBoundaries, InTree
  <2>2. ASSUME NEW x \in InTree(s), Dirty(t, x) PROVE FALSE
    <3>1. Dirty(a, x) /\ x \in InTree(a)
      BY <1>3, <1>15, <2>1, <2>2 DEF Laid
    <3>2. x \in Range(objs)
      BY <1>2, <1>4, <1>18, <2>2, <3>1 DEF Dirty
    <3>3. PICK j \in 1..Len(objs) : x = objs[j]
      BY <1>5, <3>2 DEF Range
    <3> QED BY <1>15, <2>1, <2>2, <3>1, <3>3
  <2> QED BY <1>15, <1>17, <2>1, <2>2 DEF Laid
<1> QED BY <1>8, <1>15, <1>16, <1>18

\* FlushPaint paints what is seen of the tree, and with it the view.
HiddenAfter(s, hides) == (hidden \ Seen(s, hides)) \cup (hides \cap Seen(s, hides))

LEMMA SeenFacts ==
  ASSUME NEW s, Rooted(s), NEW hides \in SUBSET Hiders
  PROVE  /\ Seen(s, hides) \subseteq InTree(s) /\ View \in Seen(s, hides)
         /\ \A p \in Seen(s, hides) \ hides : \A x \in Objects :
               s.h[x].parent = p => x \in Seen(s, hides)
<1>1. Parented(s) /\ View \in Objects
  BY ObjectsAssumption DEF Rooted
<1>2. Seen(s, hides) \subseteq InTree(s)
  BY DEF Seen, InTree
<1>3. Above(s, View) = {View}
  BY <1>1, RootIsAlone, Zenon DEF Rooted
<1>4. View \in Seen(s, hides)
  BY <1>1, <1>3 DEF Seen
<1>5. ASSUME NEW p \in Seen(s, hides) \ hides, NEW x \in Objects, s.h[x].parent = p
      PROVE  x \in Seen(s, hides)
  <2>1. p \in Objects /\ View \in Above(s, p) /\ Above(s, p) \cap hides \subseteq {p}
    BY DEF Seen
  <2>2. x \in InTree(s) /\ View \in Above(s, x)
    BY <1>2, <1>5, ChildIsBelow DEF InTree
  <2>3. \A y \in Above(s, x) : y = x \/ y \in Above(s, p)
    BY <1>1, <1>5, AboveStep, Zenon
  <2>4. Above(s, x) \cap hides \subseteq {x}
    BY <1>5, <2>1, <2>3
  <2> QED BY <2>2, <2>4 DEF Seen
<1> QED BY <1>2, <1>4, <1>5

LEMMA FlushPaintFacts ==
  ASSUME NEW s \in States, Placed(s), PaintClosed(s), NEW hides \in SUBSET Hiders
  PROVE  LET t == FlushPaint(s, hides) IN
         /\ t \in States /\ Placed(t) /\ PaintAsked(t) /\ PaintClosedIn(t, HiddenAfter(s, hides))
         /\ t.failed = s.failed /\ SamePlaces(s, t) /\ \A x \in Objects : Dirty(t, x) => Dirty(s, x)
<1> DEFINE T == Seen(s, hides)
           hs == [x \in Objects |-> [s.h[x] EXCEPT !.needsPaint = @ /\ x \notin T]]
<1>1. PICK t : t = FlushPaint(s, hides)
  OBVIOUS
<1>2. t = [s EXCEPT !.h = hs]
  BY <1>1 DEF FlushPaint
<1>3. \A x \in Objects : /\ hs[x] \in Handle
                         /\ hs[x].parent = s.h[x].parent /\ hs[x].attached = s.h[x].attached
                         /\ hs[x].boundary = s.h[x].boundary /\ hs[x].needsLayout = s.h[x].needsLayout
                         /\ (hs[x].needsPaint <=> s.h[x].needsPaint /\ x \notin T)
  <2> SUFFICES ASSUME NEW x \in Objects
               PROVE  /\ hs[x] \in Handle
                      /\ hs[x].parent = s.h[x].parent /\ hs[x].attached = s.h[x].attached
                      /\ hs[x].boundary = s.h[x].boundary /\ hs[x].needsLayout = s.h[x].needsLayout
                      /\ (hs[x].needsPaint <=> s.h[x].needsPaint /\ x \notin T)
    OBVIOUS
  <2>1. s.h[x] \in Handle /\ s.h[x].needsPaint \in BOOLEAN
    BY StateFields, Zenon
  <2>2. PICK b \in BOOLEAN : b = (s.h[x].needsPaint /\ x \notin T)
    BY <2>1
  <2>3. hs[x] = [s.h[x] EXCEPT !.needsPaint = b]
    BY <2>2
  <2> HIDE DEF hs, T
  <2> QED BY <2>1, <2>2, <2>3 DEF Handle
<1>4. hs \in [Objects -> Handle]
  BY <1>3
<1> HIDE DEF hs
<1>5. t \in States /\ t.h = hs /\ t.failed = s.failed
  BY <1>2, <1>4 DEF States
<1>6. SamePlaces(s, t)
  BY <1>3, <1>5 DEF SamePlaces
<1>7. Placed(t) /\ SameParents(s, t)
  BY <1>6, PlacedSame, Zenon
<1>8. Rooted(s) /\ Parented(s) /\ None \notin Objects /\ View \in Objects
  BY ObjectsAssumption DEF Placed, Rooted
<1>9. PaintClosedIn(t, HiddenAfter(s, hides))
  <2> SUFFICES ASSUME NEW x \in Objects, t.h[x].needsPaint,
                      t.h[x].parent \notin HiddenAfter(s, hides) \cup {None}
               PROVE  t.h[t.h[x].parent].needsPaint
    BY DEF PaintClosedIn
  <2>1. PICK p \in Objects : p = s.h[x].parent /\ p = t.h[x].parent /\ p # None
    BY <1>7, <1>8 DEF SameParents, Parented
  <2>2. s.h[x].needsPaint /\ x \notin T
    BY <1>3, <1>5
  <2>3. p \notin T
    <3>1. SUFFICES ASSUME p \in T PROVE FALSE
      OBVIOUS
    <3>2. p \notin hides
      BY <2>1, <3>1 DEF HiddenAfter
    <3>3. x \in T
      BY <1>8, <2>1, <3>1, <3>2, SeenFacts
    <3> QED BY <2>2, <3>3
  <2>4. p \notin hidden
    BY <2>1, <2>3 DEF HiddenAfter
  <2>5. s.h[p].needsPaint
    BY <2>1, <2>2, <2>4 DEF PaintClosed, PaintClosedIn
  <2> QED BY <1>3, <1>5, <2>1, <2>3, <2>5
<1>10. PaintAsked(t)
  <2>1. View \in T
    BY <1>8, SeenFacts
  <2> QED BY <1>3, <1>5, <1>8, <2>1 DEF PaintAsked
<1>11. \A x \in Objects : Dirty(t, x) => Dirty(s, x)
  BY <1>3, <1>5 DEF Dirty
<1> QED BY <1>1, <1>5, <1>6, <1>7, <1>9, <1>10, <1>11

-----------------------------------------------------------------------------
(* The calls of a running program, made in the tree. *)

\* What holds between the calls, whatever objects are inserted.
Kept(s) == Good(s) /\ s.failed = "none"

\* What holds too while only new objects are inserted.
Listed(s) == \A x \in InTree(s) : Dirty(s, x) => s.requested /\ x \in Range(s.list)
Fresh(s) == InBoundaries(s) /\ Listed(s)

Keeps(s, t) == Kept(t) /\ (Fresh(s) => Fresh(t))

\* Handles that differ in what a setter sets only.
Twins(s, t) ==
    /\ t \in States /\ Rest(s, t) /\ SamePlaces(s, t)
    /\ \A x \in Objects : /\ t.h[x].needsLayout = s.h[x].needsLayout
                          /\ t.h[x].needsPaint = s.h[x].needsPaint

\* Objects stay where they are, and the objects that are dirty since are listed.
LEMMA SamePlacesKeep ==
  ASSUME NEW s, NEW t \in States, Kept(s), SamePlaces(s, t), t.failed = s.failed,
         s.requested => t.requested, Range(s.list) \subseteq Range(t.list),
         PaintClosed(t), PaintAsked(t),
         \A x \in Objects : Dirty(t, x) => Dirty(s, x) \/ (t.requested /\ x \in Range(t.list))
  PROVE  Keeps(s, t) /\ InTree(t) = InTree(s)
<1>1. s \in States /\ Placed(s) /\ Parented(s)
  BY StateFields DEF Kept, Good
<1>2. Placed(t) /\ InTree(t) = InTree(s) /\ SameParents(s, t)
  BY <1>1, PlacedSame, Zenon
<1>3. \A x \in Objects : Above(t, x) = Above(s, x)
  BY <1>1, <1>2, SameTree, Zenon
<1>4. Kept(t)
  BY <1>2 DEF Kept, Good
<1>5. InTree(s) \subseteq Objects
  BY DEF InTree
<1>6. InBoundaries(s) => InBoundaries(t)
  BY <1>2, <1>3, <1>5 DEF InBoundaries, SamePlaces
<1>7. Listed(s) => Listed(t)
  BY <1>2, <1>5 DEF Listed
<1> QED BY <1>2, <1>4, <1>6, <1>7 DEF Keeps, Fresh

LEMMA SamePaint ==
  ASSUME NEW s \in States, NEW t, PaintClosed(s), PaintAsked(s), SamePlaces(s, t),
         s.requested => t.requested,
         \A x \in Objects : t.h[x].needsPaint = s.h[x].needsPaint
  PROVE  PaintClosed(t) /\ PaintAsked(t)
<1>1. View \in Objects /\ Parented(s)
  BY StateFields, ObjectsAssumption
<1>2. PaintClosed(t)
  BY <1>1 DEF PaintClosed, PaintClosedIn, SamePlaces, Parented
<1> QED BY <1>1, <1>2 DEF PaintAsked

LEMMA TwinsKeep ==
  ASSUME NEW s, NEW t, Kept(s), Twins(s, t)
  PROVE  Keeps(s, t) /\ InTree(t) = InTree(s)
<1>1. /\ s \in States /\ PaintClosed(s) /\ PaintAsked(s)
      /\ t \in States /\ SamePlaces(s, t) /\ t.failed = s.failed /\ t.requested = s.requested /\ t.list = s.list
      /\ \A x \in Objects : t.h[x].needsPaint = s.h[x].needsPaint
  BY DEF Kept, Good, Twins, Rest
<1>2. PaintClosed(t) /\ PaintAsked(t)
  BY <1>1, SamePaint
<1>3. \A x \in Objects : Dirty(t, x) => Dirty(s, x)
  BY DEF Dirty, Twins, SamePlaces
<1> QED BY <1>1, <1>2, <1>3, SamePlacesKeep

LEMMA MarkNeedsLayoutKeeps ==
  ASSUME NEW s, Kept(s), NEW o \in InTree(s)
  PROVE  Keeps(s, MarkNeedsLayout(s, o)) /\ InTree(MarkNeedsLayout(s, o)) = InTree(s)
<1>1. PICK t : t = MarkNeedsLayout(s, o)
  OBVIOUS
<1>2. s \in States /\ Placed(s) /\ PaintClosed(s) /\ PaintAsked(s)
  BY DEF Kept, Good
<1>3. t \in States /\ Requesting(s, t)
  BY <1>1, <1>2, MarkNeedsLayoutFacts, Zenon
<1>4. PaintClosed(t) /\ PaintAsked(t)
  BY <1>2, <1>3, SamePaint DEF Requesting
<1>5. Keeps(s, t) /\ InTree(t) = InTree(s)
  BY <1>3, <1>4, SamePlacesKeep DEF Requesting
<1> QED BY <1>1, <1>5

LEMMA MarkNeedsPaintKeeps ==
  ASSUME NEW s, Kept(s), NEW o \in Objects
  PROVE  Keeps(s, MarkNeedsPaint(s, o))
<1>1. PICK t : t = MarkNeedsPaint(s, o)
  OBVIOUS
<1>2. s \in States /\ Placed(s) /\ PaintClosed(s) /\ PaintAsked(s)
  BY DEF Kept, Good
<1>3. /\ t \in States /\ t.list = s.list /\ t.failed = s.failed /\ SamePlaces(s, t)
      /\ (s.requested => t.requested)
      /\ \A x \in Objects : t.h[x].needsLayout = s.h[x].needsLayout
  <2>1. s.requested \in BOOLEAN
    BY <1>2, StateFields, Zenon
  <2> QED BY <1>1, <1>2, <2>1, MarkNeedsPaintFacts
<1>4. PaintClosed(t) /\ PaintAsked(t)
  BY <1>1, <1>2, PaintStaysClosed, PaintStaysAsked, Zenon DEF Placed
<1>5. \A x \in Objects : Dirty(t, x) => Dirty(s, x)
  BY <1>3 DEF Dirty, SamePlaces
<1>6. Keeps(s, t)
  BY <1>3, <1>4, <1>5, SamePlacesKeep
<1> QED BY <1>1, <1>6

\* What the setters set.
WithConfig(s, o, c) == [s EXCEPT !.h[o].config = c]

LEMMA WithConfigTwins ==
  ASSUME NEW s \in States, NEW o \in Objects, NEW c \in 0..1
  PROVE  Twins(s, WithConfig(s, o, c))
<1>1. PICK hd : hd = [s.h[o] EXCEPT !.config = c]
  OBVIOUS
<1>2. s.h[o] \in Handle
  BY StateFields, Zenon
<1>3. /\ hd \in Handle /\ hd.parent = s.h[o].parent /\ hd.attached = s.h[o].attached
      /\ hd.boundary = s.h[o].boundary
      /\ hd.needsLayout = s.h[o].needsLayout /\ hd.needsPaint = s.h[o].needsPaint
  BY <1>1, <1>2 DEF Handle
<1>4. PICK t : t = WithConfig(s, o, c)
  OBVIOUS
<1>5. t = WithHandle(s, o, hd)
  BY <1>1, <1>4 DEF WithHandle, WithConfig
<1>6. HandleIs(s, t, o, hd)
  BY <1>3, <1>5, OneHandle, Zenon
<1>7. SamePlaces(s, t)
  BY <1>3, <1>6 DEF HandleIs, SamePlaces
<1> QED BY <1>3, <1>4, <1>6, <1>7 DEF HandleIs, Twins

LEMMA WithConstraintsTwins ==
  ASSUME NEW s \in States, NEW o \in Objects, NEW cs \in Constraints
  PROVE  Twins(s, WithConstraints(s, o, cs))
<1>1. PICK hd : hd = [s.h[o] EXCEPT !.cs = cs]
  OBVIOUS
<1>2. s.h[o] \in Handle
  BY StateFields, Zenon
<1>3. /\ hd \in Handle /\ hd.parent = s.h[o].parent /\ hd.attached = s.h[o].attached
      /\ hd.boundary = s.h[o].boundary
      /\ hd.needsLayout = s.h[o].needsLayout /\ hd.needsPaint = s.h[o].needsPaint
  BY <1>1, <1>2 DEF Handle
<1>4. PICK t : t = WithConstraints(s, o, cs)
  OBVIOUS
<1>5. t = WithHandle(s, o, hd)
  BY <1>1, <1>4 DEF WithHandle, WithConstraints
<1>6. HandleIs(s, t, o, hd)
  BY <1>3, <1>5, OneHandle, Zenon
<1>7. SamePlaces(s, t)
  BY <1>3, <1>6 DEF HandleIs, SamePlaces
<1> QED BY <1>3, <1>4, <1>6, <1>7 DEF HandleIs, Twins

\* An object that has left its parent, and the tree.
LeftIs(s, t, o) ==
    /\ t \in States /\ Rest(s, t)
    /\ \A x \in Objects :
          /\ (x = o => t.h[x].parent = None /\ ~t.h[x].attached)
          /\ (x # o => t.h[x].parent = s.h[x].parent /\ t.h[x].attached = s.h[x].attached)
          /\ t.h[x].boundary = s.h[x].boundary
          /\ t.h[x].needsLayout = s.h[x].needsLayout /\ t.h[x].needsPaint = s.h[x].needsPaint

Left(s, p, o) == [s EXCEPT !.h[o].parent = None, !.h[o].attached = @ /\ ~s.h[p].attached]

LEMMA LeftFacts ==
  ASSUME NEW s \in States, NEW o \in Objects, NEW p \in Objects, s.h[p].attached
  PROVE  LeftIs(s, Left(s, p, o), o)
<1>1. PICK hd : hd = [s.h[o] EXCEPT !.parent = None, !.attached = @ /\ ~s.h[p].attached]
  OBVIOUS
<1>2. s.h[o] \in Handle /\ s.h[o].attached \in BOOLEAN
  BY StateFields, Zenon
<1>3. hd = [s.h[o] EXCEPT !.parent = None, !.attached = FALSE]
  BY <1>1, <1>2
<1>4. /\ hd \in Handle /\ hd.parent = None /\ hd.attached = FALSE
      /\ hd.boundary = s.h[o].boundary
      /\ hd.needsLayout = s.h[o].needsLayout /\ hd.needsPaint = s.h[o].needsPaint
  BY <1>2, <1>3 DEF Handle
<1>5. PICK t : t = Left(s, p, o)
  OBVIOUS
<1>6. t = WithHandle(s, o, hd)
  BY <1>1, <1>5 DEF WithHandle, Left
<1>7. HandleIs(s, t, o, hd)
  BY <1>4, <1>6, OneHandle, Zenon
<1> QED BY <1>4, <1>5, <1>7 DEF HandleIs, LeftIs

\* Drop does not panic, and what is left of the tree is as it was.
LEMMA DropKeeps ==
  ASSUME NEW s, Kept(s), NEW p \in InTree(s), NEW o \in Objects, s.h[o].parent = p
  PROVE  Keeps(s, Drop(s, p, o))
<1>1. /\ s \in States /\ Placed(s) /\ PaintClosed(s) /\ PaintAsked(s) /\ Rooted(s) /\ Parented(s)
      /\ p \in Objects /\ View \in Objects /\ None \notin Objects
  BY ObjectsAssumption DEF Kept, Good, Placed, Rooted, InTree
<1>2. o # View /\ o \notin Above(s, p)
  BY <1>1, ChildIsBelow, Zenon
<1>3. s.h[p].attached /\ s.h[o].attached
  BY <1>1, InTreeIsAttached DEF Placed
<1>4. PICK t : t = Left(s, p, o)
  OBVIOUS
<1>5. LeftIs(s, t, o)
  BY <1>1, <1>3, <1>4, LeftFacts, Zenon
<1>6. Drop(s, p, o) = MarkNeedsLayout(t, p)
  <2>1. s.h[o].attached = s.h[p].attached
    <3>1. s.h[o].attached \in BOOLEAN /\ s.h[p].attached \in BOOLEAN
      BY <1>1, StateFields, Zenon
    <3> QED BY <1>3, <3>1
  <2> QED BY <1>4, <2>1 DEF Drop, Left
<1>7. t \in States /\ Rest(s, t) /\ Parented(t) /\ Rooted(t)
  BY <1>1, <1>2, <1>5, StateFields DEF LeftIs, Rooted
<1>8. Placed(t)
  <2>1. ASSUME NEW x \in Objects, t.h[x].parent # None PROVE x \notin Above(t, t.h[x].parent)
    <3>1. PICK q \in Objects : q = t.h[x].parent /\ q = s.h[x].parent
      BY <1>1, <1>5, <2>1 DEF LeftIs, Parented
    <3>2. ClosedUp(s, Above(s, q)) /\ q \in Above(s, q) /\ Above(s, q) \subseteq Objects
      BY <1>1, AboveFacts, Zenon
    <3>3. ClosedUp(t, Above(s, q))
      BY <1>5, <3>2 DEF ClosedUp, LeftIs
    <3>4. Above(t, q) \subseteq Above(s, q)
      BY <1>7, <3>2, <3>3, AboveFacts, Zenon
    <3>5. x \notin Above(s, q)
      BY <1>1, <2>1, <3>1 DEF Placed, Acyclic
    <3> QED BY <3>1, <3>4, <3>5
  <2>2. Acyclic(t)
    BY <2>1 DEF Acyclic
  <2> QED BY <1>1, <1>2, <1>5, <1>7, <2>2 DEF Placed, LeftIs
<1>9. PaintClosed(t) /\ PaintAsked(t)
  <2>1. PaintClosed(t)
    BY <1>1, <1>5 DEF PaintClosed, PaintClosedIn, LeftIs, Parented
  <2> QED BY <1>1, <1>5, <2>1 DEF PaintAsked, LeftIs, Rest
<1>10. Kept(t)
  BY <1>7, <1>8, <1>9 DEF Kept, Good, Rest
<1>11. p \in InTree(t)
  <2>1. \A x \in Above(s, p) : t.h[x].parent = s.h[x].parent
    BY <1>1, <1>2, <1>5, AboveFacts DEF LeftIs
  <2>2. Above(t, p) = Above(s, p)
    BY <1>1, <1>7, <2>1, AboveSame, Zenon
  <2> QED BY <2>2 DEF InTree
<1>12. ASSUME NEW x \in InTree(t) PROVE x \in InTree(s) /\ Above(s, x) = Above(t, x)
  <2>1. x \in Objects
    BY DEF InTree
  <2>2. o \notin Above(t, x)
    <3>1. SUFFICES ASSUME o \in Above(t, x) PROVE FALSE
      OBVIOUS
    <3>2. t.h[o].parent = None => o = View
      BY <1>7, <1>12, <3>1, AboveInTree, Zenon
    <3> QED BY <1>2, <1>5, <3>2 DEF LeftIs
  <2>3. \A y \in Above(t, x) : s.h[y].parent = t.h[y].parent
    BY <1>5, <1>7, <2>1, <2>2, AboveFacts DEF LeftIs
  <2>4. Above(s, x) = Above(t, x)
    BY <1>1, <1>7, <2>1, <2>3, AboveSame, Zenon
  <2> QED BY <2>1, <2>4 DEF InTree
<1>13. InTree(t) \subseteq Objects
  BY DEF InTree
<1>14. InBoundaries(s) => InBoundaries(t)
  BY <1>5, <1>12, <1>13 DEF InBoundaries, LeftIs
<1>15. Listed(s) => Listed(t)
  BY <1>5, <1>12, <1>13 DEF Listed, LeftIs, Rest, Dirty
<1>16. Keeps(t, MarkNeedsLayout(t, p))
  BY <1>10, <1>11, MarkNeedsLayoutKeeps, Zenon
<1> QED BY <1>6, <1>14, <1>15, <1>16 DEF Keeps, Fresh

\* Above an object that nobody has for a parent are others, or it is alone.
LEMMA LeafIsBelow ==
  ASSUME NEW s, Parented(s), NEW o \in Objects, \A x \in Objects : s.h[x].parent # o,
         NEW x \in Objects, x # o
  PROVE  o \notin Above(s, x)
<1>1. ClosedUp(s, Objects \ {o}) /\ x \in Objects \ {o}
  BY DEF ClosedUp, Parented
<1>2. Above(s, x) \subseteq Objects \ {o}
  BY <1>1, AboveFacts, Zenon
<1> QED BY <1>2

\* An object without a boundary, a mark for painting and children.
Leaf(s, o) == /\ s.h[o].boundary = None /\ ~s.h[o].needsPaint
              /\ \A x \in Objects : s.h[x].parent # o

\* Such an object is attached, and that is all.
LEMMA AttachLeaf ==
  ASSUME NEW s \in States, NEW o \in InTree(s), o # View, Placed(WithAttached(s, o, TRUE)),
         ClosedBelow(s, o), PaintAsked(s),
         Leaf(s, o)
  PROVE  Attach(s, o) = WithAttached(s, o, TRUE)
<1>1. PICK t : t = WithAttached(s, o, TRUE)
  OBVIOUS
<1>2. Remarked(s, o) = t
  BY <1>1, RemarkedFacts DEF Leaf
<1>3. o \in Objects
  BY DEF InTree
<1>4. \A x \in Objects : t.h[x].parent # o
  <2>1. AttachedIs(s, t, o, TRUE)
    BY <1>1, <1>3, WithAttachedFacts, Zenon
  <2> QED BY <2>1 DEF AttachedIs, Leaf
<1>5. PICK cs : cs = Children(t, o)
  OBVIOUS
<1>6. cs \in Seq(Objects) /\ \A i \in 1..Len(cs) : t.h[cs[i]].parent = o
  BY <1>5, ChildrenFacts, Zenon
<1>7. Len(cs) = 0
  <2>1. SUFFICES ASSUME Len(cs) # 0 PROVE FALSE
    OBVIOUS
  <2>2. 1 \in 1..Len(cs) /\ cs[1] \in Objects
    BY <1>6, <2>1
  <2> QED BY <1>4, <1>6, <2>2
<1>8. PICK a : a = Attached[MaxDepth - 1]
  OBVIOUS
<1>9. ForEach(t, cs, a) = t
  <2>1. PICK after : Passes(after, t, cs, a)
    BY <1>6, ForEachFacts, Zenon
  <2> QED BY <1>7, <2>1 DEF Passes
<1>10. PICK c : c = [s |-> s, o |-> o]
  OBVIOUS
<1>11. c \in Calls /\ c.s = s /\ c.o = o
  BY <1>3, <1>10, CallFacts
<1>12. MaxDepth \in 1..MaxDepth
  BY AttachedFacts
<1>13. Attached[MaxDepth][c] = AttachStep(c, a)
  BY <1>8, <1>11, <1>12, AttachedFacts
<1>14. AttachStep(c, a) = ForEach(t, cs, a)
  BY <1>2, <1>5, <1>11 DEF AttachStep
<1> QED BY <1>1, <1>9, <1>10, <1>13, <1>14 DEF Attach

\* An object without a parent may be put below one that it is not above.
LEMMA UnderIsAcyclic ==
  ASSUME NEW s, NEW t, Parented(s), Parented(t), Acyclic(s), NEW o \in Objects, NEW p \in Objects,
         s.h[o].parent = None, o \notin Above(s, p), ParentIs(s, t, o, p)
  PROVE  Acyclic(t)
<1>0. None \notin Objects
  BY ObjectsAssumption
<1>1. \A x \in Objects : (x = o => t.h[x].parent = p) /\ (x # o => t.h[x].parent = s.h[x].parent)
  BY DEF ParentIs
<1>2. ASSUME NEW q \in Objects, o \notin Above(s, q) PROVE Above(t, q) = Above(s, q)
  <2>1. \A x \in Above(s, q) : t.h[x].parent = s.h[x].parent
    BY <1>1, <1>2, AboveFacts
  <2> QED BY <2>1, AboveSame, Zenon
<1>3. ASSUME NEW x \in Objects, t.h[x].parent # None, x \in Above(t, t.h[x].parent) PROVE FALSE
  <2>1. CASE x = o
    BY <1>1, <1>2, <1>3, <2>1
  <2>2. CASE x # o
    <3>1. PICK q \in Objects : q = s.h[x].parent /\ q = t.h[x].parent
      BY <1>1, <1>3, <2>2 DEF Parented
    <3>2. x \notin Above(s, q)
      BY <1>0, <3>1 DEF Acyclic
    <3>3. o \in Above(s, q)
      BY <1>2, <1>3, <3>1, <3>2
    <3>4. /\ ClosedUp(s, Above(s, q)) /\ ClosedUp(s, Above(s, p)) /\ p \in Above(s, p)
          /\ q \in Above(s, q) /\ Above(s, q) \subseteq Objects /\ Above(s, p) \subseteq Objects
      BY AboveFacts, Zenon
    <3>5. ClosedUp(t, Above(s, q) \cup Above(s, p))
      BY <1>1, <3>4 DEF ClosedUp
    <3>6. Above(t, q) \subseteq Above(s, q) \cup Above(s, p)
      <4>1. q \in Above(s, q) \cup Above(s, p)
        BY <3>4
      <4> QED BY <3>5, <4>1, AboveFacts, Zenon
    <3>7. x \in Above(s, p)
      BY <1>3, <3>1, <3>2, <3>6
    <3>8. q \in Above(s, p)
      BY <1>0, <3>1, <3>4, <3>7 DEF ClosedUp
    <3>9. Above(s, q) \subseteq Above(s, p)
      BY <3>8, AboveUp, Zenon
    <3> QED BY <3>3, <3>9
  <2> QED BY <2>1, <2>2
<1> QED BY <1>3 DEF Acyclic

\* Adopt puts an object without a parent, and all that is below it, into the tree.
LEMMA AdoptKeeps ==
  ASSUME NEW s, Kept(s), NEW p \in InTree(s), NEW o \in Objects, o # View,
         s.h[o].parent = None, o \notin Above(s, p)
  PROVE  /\ Kept(Adopt(s, p, o))
         /\ Fresh(s) /\ Leaf(s, o) => Fresh(Adopt(s, p, o))
<1>1. PICK u : u = MarkNeedsLayout(s, p)
  OBVIOUS
<1>2. /\ s \in States /\ Placed(s) /\ Parented(s) /\ p \in Objects /\ View \in Objects /\ None \notin Objects
  BY ObjectsAssumption, StateFields DEF Kept, Good, InTree
<1>3. Kept(u) /\ (Fresh(s) => Fresh(u)) /\ InTree(u) = InTree(s)
  BY <1>1, MarkNeedsLayoutKeeps DEF Keeps
<1>4. /\ u \in States /\ Placed(u) /\ PaintClosed(u) /\ PaintAsked(u) /\ Rooted(u) /\ Parented(u)
      /\ u.failed = "none"
  BY <1>3 DEF Kept, Good, Placed, Rooted
<1>5. SamePlaces(s, u) /\ \A x \in Objects : u.h[x].needsPaint = s.h[x].needsPaint
  BY <1>1, <1>2, MarkNeedsLayoutFacts DEF Requesting
<1>6. o \notin Above(u, p)
  <2>1. SameParents(s, u)
    BY <1>2, <1>5, PlacedSame, Zenon
  <2>2. Above(u, p) = Above(s, p)
    <3>1. \A x \in Objects : Above(u, x) = Above(s, x)
      BY <1>2, <2>1, SameTree, Zenon
    <3> QED BY <1>2, <3>1
  <2> QED BY <2>2
<1>7. PICK v : v = WithParent(u, o, p)
  OBVIOUS
<1>8. ParentIs(u, v, o, p)
  BY <1>2, <1>4, <1>7, WithParentFacts
<1>9. v \in States /\ Rest(u, v) /\ Parented(v) /\ Rooted(v)
  BY <1>2, <1>4, <1>8, StateFields DEF ParentIs, Rooted
<1>10. o \in InTree(v) /\ p \in Above(v, o)
  <2>1. \A x \in Above(u, p) : v.h[x].parent = u.h[x].parent
    BY <1>2, <1>4, <1>6, <1>8, AboveFacts DEF ParentIs
  <2>2. Above(v, p) = Above(u, p)
    BY <1>2, <1>4, <1>9, <2>1, AboveSame, Zenon
  <2>3. p \in InTree(v)
    BY <1>3, <2>2 DEF InTree
  <2>4. v.h[o].parent = p
    BY <1>8 DEF ParentIs
  <2> QED BY <1>9, <2>3, <2>4, ChildIsBelow, Zenon
<1>11. Adopt(s, p, o) = Attach(v, o)
  <2>1. v.h[p].attached
    <3>1. u.h[p].attached
      BY <1>3, <1>4, InTreeIsAttached
    <3> QED BY <1>2, <1>8, <3>1 DEF ParentIs
  <2> QED BY <1>1, <1>7, <2>1 DEF Adopt, WithParent
<1>12. PICK w : w = WithAttached(v, o, TRUE)
  OBVIOUS
<1>13. AttachedIs(v, w, o, TRUE)
  BY <1>9, <1>12, WithAttachedFacts, Zenon
<1>14. Placed(w) /\ w \in States /\ Rest(v, w) /\ SameParents(v, w)
  <2>1. SameParents(v, w) /\ w \in States /\ Rest(v, w)
    BY <1>13 DEF AttachedIs, SameParents
  <2>2. Rooted(w)
    BY <1>9, <2>1, SameTree, Zenon
  <2>3. w.h[View].boundary = View /\ w.h[View].attached
    BY <1>2, <1>4, <1>8, <1>13 DEF ParentIs, AttachedIs, Placed
  <2>4. ASSUME NEW x \in Objects, w.h[x].parent # None PROVE w.h[x].attached
    BY <1>4, <1>8, <1>13, <2>4 DEF ParentIs, AttachedIs, Placed
  <2>6. u.h[o].parent = None
    BY <1>5 DEF SamePlaces
  <2>5. Acyclic(w)
    BY <1>2, <1>4, <1>6, <1>8, <1>9, <2>1, <2>6, UnderIsAcyclic, AcyclicSame, Zenon DEF Placed
  <2> QED BY <2>1, <2>2, <2>3, <2>4, <2>5 DEF Placed
<1>15. ClosedBelow(v, o)
  BY <1>4, <1>8 DEF ClosedBelow, PaintClosed, PaintClosedIn, ParentIs, Parented
<1>16. PaintAsked(v)
  BY <1>2, <1>4, <1>8 DEF PaintAsked, ParentIs, Rest
<1>17. Placed(WithAttached(v, o, TRUE))
  BY <1>12, <1>14
<1>18. Good(Attach(v, o)) /\ Alike(v, Attach(v, o))
  BY <1>9, <1>10, <1>15, <1>16, <1>17, AttachFacts
<1>19. Kept(Attach(v, o))
  BY <1>4, <1>9, <1>18 DEF Kept, Alike, Rest
<1>20. ASSUME Fresh(s), Leaf(s, o) PROVE Fresh(Attach(v, o))
  <2>1. v.h[o].boundary = None /\ ~v.h[o].needsPaint /\ w.h[o].boundary = None
    BY <1>5, <1>8, <1>13, <1>20 DEF Leaf, SamePlaces, ParentIs, AttachedIs
  <2>2. \A x \in Objects : v.h[x].parent # o
    <3>1. p # o
      BY <1>2, <1>6, <1>4, AboveFacts
    <3> QED BY <1>5, <1>8, <1>20, <3>1 DEF Leaf, SamePlaces, ParentIs
  <2>3. Attach(v, o) = w
    BY <1>9, <1>10, <1>12, <1>15, <1>16, <1>17, <2>1, <2>2, AttachLeaf DEF Leaf
  <2>4. InBoundaries(u) /\ Listed(u)
    BY <1>3, <1>20 DEF Fresh
  <2>5. ASSUME NEW x \in InTree(w), x # o
        PROVE  x \in InTree(u) /\ Above(w, x) = Above(u, x) /\ w.h[x].boundary = u.h[x].boundary
    <3>1. x \in Objects
      BY DEF InTree
    <3>2. Above(w, x) = Above(v, x)
      <4>1. \A y \in Objects : Above(w, y) = Above(v, y)
        BY <1>9, <1>14, SameTree, Zenon
      <4> QED BY <3>1, <4>1
    <3>3. o \notin Above(v, x)
      BY <1>9, <2>2, <2>5, <3>1, LeafIsBelow, Zenon
    <3>4. \A y \in Above(v, x) : u.h[y].parent = v.h[y].parent
      BY <1>8, <1>9, <3>1, <3>3, AboveFacts DEF ParentIs
    <3>5. Above(u, x) = Above(v, x)
      BY <1>4, <1>9, <3>1, <3>4, AboveSame, Zenon
    <3> QED BY <1>8, <1>13, <3>1, <3>2, <3>5 DEF InTree, ParentIs, AttachedIs
  <2>6. InBoundaries(w)
    BY <2>1, <2>4, <2>5 DEF InBoundaries
  <2>7. Listed(w)
    <3>1. SUFFICES ASSUME NEW x \in InTree(w), Dirty(w, x) PROVE w.requested /\ x \in Range(w.list)
      BY DEF Listed
    <3>2. x # o /\ x \in Objects
      BY <1>2, <2>1, <3>1 DEF Dirty, InTree
    <3>3. x \in InTree(u) /\ Dirty(u, x)
      BY <1>8, <1>13, <2>5, <3>1, <3>2 DEF Dirty, ParentIs, AttachedIs
    <3> QED BY <1>9, <1>14, <2>4, <3>3 DEF Listed, Rest
  <2> QED BY <2>3, <2>6, <2>7 DEF Fresh
<1> QED BY <1>11, <1>19, <1>20

\* A frame lays out what is listed, and paints what is seen of the tree.
LaidOut(s) == FlushLayout([s EXCEPT !.requested = FALSE])

LEMMA FrameKeeps ==
  ASSUME NEW s, Kept(s), NEW hides \in SUBSET Hiders
  PROVE  LET b == LaidOut(s)
             t == FlushPaint(b, hides)
         IN  /\ t \in States /\ Placed(t) /\ PaintAsked(t) /\ t.failed = "none"
             /\ PaintClosedIn(t, HiddenAfter(b, hides)) /\ (Fresh(s) => Fresh(t))
<1>1. PICK a : a = [s EXCEPT !.requested = FALSE]
  OBVIOUS
<1>2. s \in States /\ Placed(s) /\ PaintClosed(s) /\ s.failed = "none" /\ Parented(s)
  BY StateFields DEF Kept, Good
<1>3. a \in States /\ a.h = s.h /\ a.failed = s.failed /\ a.list = s.list
  BY <1>1, <1>2 DEF States
<1>4. SamePlaces(s, a) /\ PaintClosed(a)
  BY <1>2, <1>3 DEF SamePlaces, PaintClosed, PaintClosedIn
<1>5. Placed(a) /\ InTree(a) = InTree(s) /\ SameParents(s, a)
  BY <1>2, <1>4, PlacedSame, Zenon
<1>6. PICK b : b = FlushLayout(a)
  OBVIOUS
<1>7. /\ b \in States /\ Placed(b) /\ PaintClosed(b) /\ b.failed = a.failed
      /\ InBoundaries(a) /\ (\A x \in InTree(a) : Dirty(a, x) => x \in Range(a.list))
            => InBoundaries(b) /\ \A x \in InTree(b) : ~Dirty(b, x)
  BY <1>3, <1>4, <1>5, <1>6, FlushLayoutFacts
<1>8. PICK t : t = FlushPaint(b, hides)
  OBVIOUS
<1>9. /\ t \in States /\ Placed(t) /\ PaintAsked(t) /\ PaintClosedIn(t, HiddenAfter(b, hides))
      /\ t.failed = b.failed /\ SamePlaces(b, t)
      /\ \A x \in Objects : Dirty(t, x) => Dirty(b, x)
  BY <1>7, <1>8, FlushPaintFacts
<1>10. b = LaidOut(s)
  BY <1>1, <1>6 DEF LaidOut
<1>12. ASSUME Fresh(s) PROVE Fresh(t)
  <2>1. InTree(s) \subseteq Objects /\ InTree(b) \subseteq Objects
    BY DEF InTree
  <2>2. \A x \in Objects : Above(a, x) = Above(s, x)
    BY <1>2, <1>5, SameTree, Zenon
  <2>3. InBoundaries(a)
    BY <1>3, <1>5, <1>12, <2>1, <2>2 DEF Fresh, InBoundaries
  <2>4. \A x \in InTree(a) : Dirty(a, x) => x \in Range(a.list)
    BY <1>3, <1>5, <1>12 DEF Fresh, Listed, Dirty
  <2>5. InBoundaries(b) /\ \A x \in InTree(b) : ~Dirty(b, x)
    BY <1>7, <2>3, <2>4
  <2>6. InTree(t) = InTree(b) /\ SameParents(b, t)
    BY <1>7, <1>9, PlacedSame, Zenon
  <2>7. \A x \in Objects : Above(t, x) = Above(b, x)
    BY <1>7, <2>6, SameTree, StateFields
  <2>8. InBoundaries(t)
    BY <1>9, <2>1, <2>5, <2>6, <2>7 DEF InBoundaries, SamePlaces
  <2>9. Listed(t)
    BY <1>9, <2>1, <2>5, <2>6 DEF Listed
  <2> QED BY <2>8, <2>9 DEF Fresh
<1> QED BY <1>2, <1>3, <1>7, <1>8, <1>9, <1>10, <1>12

-----------------------------------------------------------------------------
(* The steps of the program. *)

PipelineInv == Kept(State)
FreshInv == Kept(State) /\ (~returned => Fresh(State))

LEMMA StateIs ==
  ASSUME NEW t \in States, Become(t)
  PROVE  State' = t
<1>1. State' = [h |-> t.h, list |-> t.list, requested |-> t.requested, failed |-> t.failed]
  BY DEF Become, State
<1> QED BY <1>1 DEF States

LEMMA StateParts ==
  State.h = h /\ State.list = list /\ State.requested = requested /\ State.failed = failed
BY DEF State

\* The calls are made on objects of the tree.
LEMMA CalledInTree ==
  ASSUME ~Detached, NEW o \in Objects, Callable(o)
  PROVE  o \in InTree(State)
BY DEF Callable, InTree

\* What a step does to the two invariants.
Steps == /\ PipelineInv'
         /\ ~returned' => ~returned /\ (Fresh(State) => Fresh(State)')

LEMMA StateBecomes ==
  ASSUME NEW t \in States, Placed(t), PaintAsked(t), PaintClosedIn(t, hidden'), t.failed = "none",
         Become(t), ~returned' => ~returned /\ (Fresh(State) => Fresh(t))
  PROVE  Steps
<1>1. State' = t
  BY StateIs
<1>2. /\ Kept(State)' = (/\ State' \in States /\ Placed(State') /\ PaintClosedIn(State', hidden')
                        /\ PaintAsked(State') /\ State'.failed = "none")
      /\ Fresh(State)' = Fresh(State')
  BY DEF Kept, Good, PaintClosed
<1> QED BY <1>1, <1>2 DEF PipelineInv, Steps

LEMMA BecomeKeeps ==
  ASSUME NEW t, Kept(t), Become(t), UNCHANGED hidden,
         ~returned' => ~returned /\ (Fresh(State) => Fresh(t))
  PROVE  Steps
<1>1. t \in States /\ Placed(t) /\ PaintAsked(t) /\ PaintClosedIn(t, hidden') /\ t.failed = "none"
  BY DEF Kept, Good, PaintClosed
<1> QED BY <1>1, StateBecomes

\* A frame changes what is hidden, too.
LEMMA RenderFrameStep ==
  ASSUME PipelineInv, RenderFrame
  PROVE  Steps
<1>1. Kept(State) /\ UNCHANGED returned
  BY DEF PipelineInv, RenderFrame
<1>2. PICK hides \in SUBSET Hiders :
         LET s == LaidOut(State) IN
         Become(FlushPaint(s, hides)) /\ hidden' = HiddenAfter(s, hides)
  BY DEF RenderFrame, LaidOut, HiddenAfter
<1>3. PICK t : t = FlushPaint(LaidOut(State), hides)
  OBVIOUS
<1>4. /\ t \in States /\ Placed(t) /\ PaintAsked(t) /\ t.failed = "none"
      /\ PaintClosedIn(t, hidden') /\ (Fresh(State) => Fresh(t))
  BY <1>1, <1>2, <1>3, FrameKeeps
<1> QED BY <1>1, <1>2, <1>3, <1>4, StateBecomes

LEMMA TwinStep ==
  ASSUME Kept(State), NEW o \in InTree(State), NEW t, Twins(State, t),
         Become(MarkNeedsLayout(t, o)), UNCHANGED <<hidden, returned>>
  PROVE  Steps
<1>1. Keeps(State, t) /\ InTree(t) = InTree(State)
  BY TwinsKeep
<1>2. Keeps(t, MarkNeedsLayout(t, o))
  BY <1>1, MarkNeedsLayoutKeeps DEF Keeps
<1>3. Kept(MarkNeedsLayout(t, o)) /\ (Fresh(State) => Fresh(MarkNeedsLayout(t, o)))
  BY <1>1, <1>2 DEF Keeps
<1> QED BY <1>3, BecomeKeeps

LEMMA SetStep ==
  ASSUME ~Detached, PipelineInv, NEW o \in Objects, Set(o)
  PROVE  Steps
<1>1. Kept(State) /\ State \in States /\ o \in InTree(State)
  BY CalledInTree DEF PipelineInv, Kept, Good, Set
<1>2. PICK c : c = IF o \in Configurable THEN 1 - h[o].config ELSE 0
  OBVIOUS
<1>3. c \in 0..1
  <2>1. h[o].config \in 0..1
    BY <1>1, StateFields, StateParts
  <2> QED BY <1>2, <2>1
<1>4. Become(MarkNeedsLayout(WithConfig(State, o, c), o)) /\ UNCHANGED <<hidden, returned>>
  BY <1>2 DEF Set, WithConfig
<1>5. Twins(State, WithConfig(State, o, c))
  BY <1>1, <1>3, WithConfigTwins, Zenon
<1> QED BY <1>1, <1>4, <1>5, TwinStep, Zenon

LEMMA SetConfigurationStep ==
  ASSUME PipelineInv, SetConfiguration
  PROVE  Steps
<1>1. Kept(State) /\ State \in States /\ View \in Objects /\ Parented(State)
  BY ObjectsAssumption, StateFields DEF PipelineInv, Kept, Good
<1>2. View \in InTree(State)
  BY <1>1, AboveFacts DEF InTree
<1>3. PICK v : v = State.h[View].cs
  OBVIOUS
<1>4. PICK cs : cs = [v EXCEPT !.v = @ + 1]
  OBVIOUS
<1>5. cs \in Constraints
  <2>1. v \in Constraints
    BY <1>1, <1>3, StateFields, Zenon
  <2>2. v.v <= MaxResizes
    BY <1>3, StateParts DEF SetConfiguration
  <2>3. v.v + 1 \in 0..(MaxResizes + 1)
    BY <2>1, <2>2, ObjectsAssumption DEF Constraints
  <2> QED BY <1>4, <2>1, <2>3 DEF Constraints
<1>6. Become(MarkNeedsLayout(WithConstraints(State, View, cs), View)) /\ UNCHANGED <<hidden, returned>>
  <2>1. [State EXCEPT !.h[View].cs.v = @ + 1] = WithConstraints(State, View, cs)
    BY <1>3, <1>4 DEF WithConstraints
  <2> QED BY <2>1 DEF SetConfiguration
<1>7. Twins(State, WithConstraints(State, View, cs))
  BY <1>1, <1>5, WithConstraintsTwins, Zenon
<1> QED BY <1>1, <1>2, <1>6, <1>7, TwinStep, Zenon

LEMMA InsertStep ==
  ASSUME ~Detached, PipelineInv, NEW p \in Objects, NEW o \in Objects, InsertChild(p, o)
  PROVE  Steps
<1>1. /\ Kept(State) /\ p \in InTree(State) /\ o # View
      /\ State.h[o].parent = None /\ o \notin Above(State, p)
      /\ Become(Adopt(State, p, o)) /\ UNCHANGED hidden /\ (~returned' => ~returned /\ IsNew(o))
  BY CalledInTree, StateParts DEF PipelineInv, InsertChild
<1>2. /\ Kept(Adopt(State, p, o))
      /\ Fresh(State) /\ Leaf(State, o) => Fresh(Adopt(State, p, o))
  BY <1>1, AdoptKeeps
<1>3. ASSUME IsNew(o) PROVE Leaf(State, o)
  <2>1. State.h[o] = NewHandle /\ Children(State, o) = <<>>
    BY <1>3, StateParts DEF IsNew
  <2>2. State.h[o].boundary = None /\ ~State.h[o].needsPaint
    BY <2>1 DEF NewHandle
  <2>3. \A x \in Objects : State.h[x].parent # o
    BY <2>1, ChildrenFacts
  <2> QED BY <2>2, <2>3 DEF Leaf
<1> QED BY <1>1, <1>2, <1>3, BecomeKeeps

\* Every action keeps what holds whatever is inserted, and what holds too of new objects.
LEMMA PipelineStepInv ==
  ASSUME ~Detached, PipelineInv, [PipelineNext]_pipelineVars
  PROVE  Steps
<1>0. Kept(State)
  BY DEF PipelineInv
<1>1. CASE RenderFrame
  BY <1>1, RenderFrameStep
<1>2. CASE SetConfiguration
  BY <1>2, SetConfigurationStep
<1>3. ASSUME NEW o \in Objects, Set(o) PROVE Steps
  BY <1>3, SetStep
<1>4. ASSUME NEW o \in Objects, SetPaint(o) PROVE Steps
  <2>1. Keeps(State, MarkNeedsPaint(State, o))
    BY <1>0, MarkNeedsPaintKeeps
  <2> QED BY <1>4, <2>1, BecomeKeeps DEF SetPaint, Keeps
<1>5. ASSUME NEW p \in Objects, MoveChild(p) PROVE Steps
  <2>1. p \in InTree(State)
    BY <1>5, CalledInTree DEF MoveChild
  <2>2. Keeps(State, MarkNeedsLayout(State, p))
    BY <1>0, <2>1, MarkNeedsLayoutKeeps
  <2> QED BY <1>5, <2>2, BecomeKeeps DEF MoveChild, Keeps
<1>6. ASSUME NEW p \in Objects, NEW o \in Objects, InsertChild(p, o) PROVE Steps
  BY <1>6, InsertStep
<1>7. ASSUME NEW p \in Objects, NEW o \in Objects, RemoveChild(p, o) PROVE Steps
  <2>1. /\ p \in InTree(State) /\ State.h[o].parent = p
        /\ Become(Drop(State, p, o)) /\ UNCHANGED <<hidden, returned>>
    BY <1>7, CalledInTree, StateParts DEF RemoveChild
  <2>2. Keeps(State, Drop(State, p, o))
    BY <1>0, <2>1, DropKeeps
  <2> QED BY <2>1, <2>2, BecomeKeeps DEF Keeps
<1>8. CASE UNCHANGED pipelineVars
  <2>1. Become(State) /\ UNCHANGED <<hidden, returned>>
    BY <1>8, StateParts DEF pipelineVars, Become
  <2> QED BY <1>0, <2>1, BecomeKeeps
<1> QED BY <1>1, <1>2, <1>3, <1>4, <1>5, <1>6, <1>7, <1>8 DEF PipelineNext

\* In the beginning there is the view, which is to be laid out and painted.
LEMMA PipelineInitInv == PipelineInit => FreshInv
<1> SUFFICES ASSUME PipelineInit PROVE FreshInv
  OBVIOUS
<1>1. PICK s : s = State
  OBVIOUS
<1>2. View \in Objects /\ None \notin Objects /\ MaxResizes \in Nat
  BY ObjectsAssumption
<1>3. PICK view : view = [NewHandle EXCEPT !.attached = TRUE, !.needsLayout = TRUE,
                             !.needsPaint = TRUE, !.boundary = View, !.cs.v = 1]
  OBVIOUS
<1>4. /\ view \in Handle /\ view.parent = None /\ view.attached /\ view.boundary = View
      /\ NewHandle \in Handle /\ NewHandle.parent = None /\ ~NewHandle.needsLayout
  <2>1. PICK zero, first : zero = [tight |-> TRUE, v |-> 0] /\ first = [zero EXCEPT !.v = 1]
    OBVIOUS
  <2>2. zero \in Constraints /\ first \in Constraints
    <3>1. 0 \in 0..(MaxResizes + 1) /\ 1 \in 0..(MaxResizes + 1)
      BY <1>2
    <3>2. first = [tight |-> TRUE, v |-> 1]
      BY <2>1
    <3> QED BY <2>1, <3>1, <3>2 DEF Constraints
  <2>3. NewHandle = [parent |-> None, attached |-> FALSE, needsLayout |-> FALSE,
                     needsPaint |-> FALSE, boundary |-> None, cs |-> zero,
                     config |-> 0, laid |-> None]
    BY <2>1 DEF NewHandle
  <2>4. view = [parent |-> None, attached |-> TRUE, needsLayout |-> TRUE,
                needsPaint |-> TRUE, boundary |-> View, cs |-> first,
                config |-> 0, laid |-> None]
    BY <1>3, <2>1, <2>3
  <2> QED BY <1>2, <2>2, <2>3, <2>4 DEF Handle
<1>5. /\ \A x \in Objects : s.h[x] = IF x = View THEN view ELSE NewHandle
      /\ s.list = <<View>> /\ s.requested = TRUE /\ s.failed = "none"
  BY <1>1, <1>3, StateParts DEF PipelineInit
<1>6. s \in States
  <2>1. h \in [Objects -> Handle]
    BY <1>3, <1>4 DEF PipelineInit
  <2>2. list \in Seq(Objects) /\ requested \in BOOLEAN /\ failed \in Panics
    BY <1>2 DEF PipelineInit, Panics
  <2> QED BY <1>1, <2>1, <2>2 DEF State, States
<1>7. \A x \in Objects : s.h[x].parent = None
  BY <1>4, <1>5
<1>8. Parented(s) /\ Rooted(s) /\ Placed(s)
  BY <1>2, <1>4, <1>5, <1>7 DEF Parented, Rooted, Acyclic, Placed
<1>9. PaintClosed(s) /\ PaintAsked(s)
  BY <1>5, <1>7 DEF PaintClosed, PaintClosedIn, PaintAsked
<1>10. ASSUME NEW x \in InTree(s) PROVE x = View /\ Above(s, x) = {View}
  <2>1. x \in Objects /\ View \in Above(s, x)
    BY DEF InTree
  <2>2. Above(s, x) = {x}
    BY <1>7, <1>8, <2>1, RootIsAlone, Zenon
  <2> QED BY <2>1, <2>2
<1>11. InBoundaries(s)
  BY <1>2, <1>4, <1>5, <1>10 DEF InBoundaries
<1>12. Listed(s)
  <2>1. View \in Range(s.list)
    <3>1. s.list[1] = View /\ 1 \in DOMAIN s.list
      BY <1>5
    <3> QED BY <3>1 DEF Range
  <2> QED BY <1>5, <1>10, <2>1 DEF Listed
<1> QED BY <1>1, <1>5, <1>6, <1>8, <1>9, <1>11, <1>12 DEF FreshInv, Kept, Good, Fresh

\* Theorem: no sequence of calls on objects of the tree, of setters, of insertions
\* and removals (also of objects that were removed), of new window sizes and of
\* frames makes MarkNeedsLayout run off the top of the tree or ask a renderer that
\* is not there for a frame, or breaks dropChild's assertion (render.go:109-134, 464).
THEOREM LayoutNeverPanics ==
  ASSUME ~Detached
  PROVE  PipelineSpec => []NeverPanics
<1>1. PipelineInit => PipelineInv
  BY PipelineInitInv DEF FreshInv, PipelineInv
<1>2. PipelineInv /\ [PipelineNext]_pipelineVars => PipelineInv'
  BY PipelineStepInv DEF Steps
<1>3. PipelineInv => NeverPanics
  BY StateParts DEF PipelineInv, Kept, NeverPanics
<1> QED BY <1>1, <1>2, <1>3, PTL DEF PipelineSpec

\* Theorem: whenever an object of the tree that no Opacity of 0 or the like above it
\* keeps from the window is to be painted, the view is marked too and a frame has
\* been requested, however MarkNeedsPaint, which stops at marked objects, is
\* interleaved with frames, which leave what is hidden marked, and with objects that
\* come into the tree marked (render.go:91-108, 305-310, pipeline.go:213-242).
THEOREM PaintRequested ==
  ASSUME ~Detached
  PROVE  PipelineSpec => []PaintIsRequested
<1>1. PipelineInit => PipelineInv
  BY PipelineInitInv DEF FreshInv, PipelineInv
<1>2. PipelineInv /\ [PipelineNext]_pipelineVars => PipelineInv'
  BY PipelineStepInv DEF Steps
<1>3. PipelineInv => PaintIsRequested
  <2> SUFFICES ASSUME PipelineInv, NEW o \in Seen(State, hidden), h[o].needsPaint
               PROVE  h[View].needsPaint /\ requested
    BY DEF PaintIsRequested
  <2>1. PaintClosed(State) /\ PaintAsked(State) /\ Parented(State)
    BY StateFields DEF PipelineInv, Kept, Good
  <2>2. o \in Objects /\ View \in Above(State, o) /\ Above(State, o) \cap hidden \subseteq {o}
    BY DEF Seen
  <2>3. State.h[View].needsPaint
    BY <2>1, <2>2, PaintedUp, StateParts
  <2> QED BY <2>1, <2>3, StateParts DEF PaintAsked
<1> QED BY <1>1, <1>2, <1>3, PTL DEF PipelineSpec

\* Theorem: until an object is put back that was removed with a boundary, a mark or
\* children of its own, which the widgets never do, every object of the tree that
\* is its own boundary and needs layout is listed for the frame that has been
\* requested (render.go:109-134): boundaries that are handed down while objects are
\* laid out make no other object dirty (render.go:338-396).
THEOREM RequestsListed ==
  ASSUME ~Detached
  PROVE  PipelineSpec => []DirtyBoundaryIsListed
<1>1. PipelineInit => FreshInv
  BY PipelineInitInv
<1>2. FreshInv /\ [PipelineNext]_pipelineVars => FreshInv'
  BY PipelineStepInv DEF FreshInv, PipelineInv, Steps
<1>3. FreshInv => DirtyBoundaryIsListed
  BY StateParts DEF FreshInv, Fresh, Listed, Dirty, DirtyBoundaryIsListed, Tree
<1> QED BY <1>1, <1>2, <1>3, PTL DEF PipelineSpec

\* Theorem: requests for layout and for paint are kept until the frame that serves
\* them, in any tree of any number of objects.
THEOREM RequestsKept ==
  ASSUME ~Detached
  PROVE  PipelineSpec => []RequestsAreKept
<1>1. DirtyBoundaryIsListed /\ PaintIsRequested => RequestsAreKept
  BY DEF RequestsAreKept
<1> QED BY <1>1, PaintRequested, RequestsListed, PTL

-----------------------------------------------------------------------------
(* The concurrent renderer. *)

\* Each action of a goroutine or of the caller, with the operators the
\* invariant mentions, is expanded leaf by leaf.

LEMMA TaskFacts ==
  /\ NoTask \notin Task
  /\ \A t \in Task : t.id \in 1..MaxCalls /\ t.kind \in Kinds /\ t # NoTask
BY DEF Task, NoTask

LEMMA InitIInv == Init => IInv
<1> SUFFICES ASSUME Init PROVE IInv
  OBVIOUS
<1>1. TypeOK
  <2>1. <<>> \in Seq(Task) /\ Len(<<>>) = 0
    BY EmptySeq
  <2>2. pc \in Pcs /\ call \in Task \cup {NoTask} /\ cur \in Task \cup {NoTask}
    BY DEF Init, Pcs
  <2>3. calls \in 0..MaxCalls /\ resets \in 0..MaxResets /\ Len(tasks) <= Parallelism
    BY <2>1, RendererAssumption DEF Init, RendererAssumption
  <2> QED BY <2>1, <2>2, <2>3 DEF Init, TypeOK
<1>2. NumPending = 0 /\ Sent = 0
  BY DEF Init, NumPending, Sent, Holding
<1>3. CallerInv /\ WorkerInv
  BY TaskFacts DEF Init, CallerInv, WorkerInv, Holding
<1>4. OrderInv /\ PathInv
  BY <1>2, TaskFacts DEF Init, OrderInv, PathInv, Holding
<1> QED BY <1>1, <1>3, <1>4 DEF IInv

LEMMA StutterIInv == IInv /\ UNCHANGED vars => IInv'
<1> SUFFICES ASSUME IInv, UNCHANGED vars PROVE IInv'
  OBVIOUS
<1> USE DEF vars
<1>1. TypeOK'
  BY DEF IInv, TypeOK
<1>2. Sent' = Sent /\ NumPending' = NumPending /\ Holding' = Holding
  BY DEF Sent, NumPending, Holding
<1>3. CallerInv' /\ WorkerInv'
  BY <1>2 DEF IInv, CallerInv, WorkerInv
<1>4. OrderInv' /\ PathInv'
  BY <1>2 DEF IInv, OrderInv, PathInv
<1> QED BY <1>1, <1>3, <1>4 DEF IInv

LEMMA CallIInv ==
  ASSUME IInv, NEW kind \in Kinds, Call(kind)
  PROVE  IInv'
<1> USE RendererAssumption DEF RendererAssumption
<1>1. call = NoTask /\ call' = [id |-> calls + 1, kind |-> kind] /\ call' \in Task
  BY DEF IInv, TypeOK, CallerInv, Call, Task, NoTask
<1>2. Sent' = Sent /\ NumPending' = NumPending /\ Sent \in 0..calls
  BY <1>1, TaskFacts DEF IInv, TypeOK, CallerInv, Call, Sent, NumPending, Holding, workerVars
<1>3. TypeOK'
  BY <1>1 DEF IInv, TypeOK, Call, workerVars, Pcs
<1>4. CallerInv'
  BY <1>1, <1>2 DEF IInv, TypeOK, CallerInv, Call, workerVars
<1>5. WorkerInv'
  BY DEF IInv, WorkerInv, Call, workerVars, Holding
<1>6. OrderInv'
  BY <1>2 DEF IInv, OrderInv, Call, workerVars, Holding
<1>7. PathInv'
  BY <1>1, <1>2 DEF IInv, TypeOK, PathInv, Call, workerVars, Holding
<1> QED BY <1>3, <1>4, <1>5, <1>6, <1>7 DEF IInv

LEMMA SendIInv ==
  ASSUME IInv, Send
  PROVE  IInv'
<1> USE RendererAssumption DEF RendererAssumption
<1>1. call \in Task /\ call.id = calls /\ pc = "send" /\ Sent = calls - 1
  BY TaskFacts DEF IInv, CallerInv, Send, Sent
<1>2. CASE closed
  <2>1. Sent' = Sent /\ NumPending' = NumPending
    BY <1>1, <1>2, TaskFacts DEF Send, Sent, NumPending, Holding, workerVars
  <2>2. TypeOK'
    BY <1>1, <1>2 DEF IInv, TypeOK, Send, workerVars, Pcs
  <2>3. CallerInv' /\ WorkerInv'
    BY <1>1, <1>2 DEF IInv, CallerInv, WorkerInv, Send, workerVars, Holding
  <2>4. OrderInv' /\ PathInv'
    BY <1>1, <1>2, <2>1 DEF IInv, OrderInv, PathInv, Send, workerVars, Holding
  <2> QED BY <2>2, <2>3, <2>4 DEF IInv
<1>3. CASE ~closed
  <2>1. /\ tasks' = Append(tasks, call)
        /\ tasks' \in Seq(Task)
        /\ Len(tasks') = Len(tasks) + 1
        /\ \A i \in 1..Len(tasks') :
              tasks'[i] = IF i = Len(tasks) + 1 THEN call ELSE tasks[i]
    <3>1. tasks \in Seq(Task) /\ tasks' = Append(tasks, call)
      BY <1>3 DEF IInv, TypeOK, Send
    <3>2. Len(tasks) \in Nat
      BY <3>1, LenProperties
    <3> QED BY <1>1, <3>1, <3>2, AppendProperties
  <2>2. /\ Sent' = calls
        /\ NumPending' = NumPending + 1 /\ NumPending' > 0
        /\ Holding' = Holding
    BY <1>1, <1>3, <2>1, TaskFacts
       DEF IInv, TypeOK, Send, Sent, NumPending, Holding, workerVars
  <2>3. TypeOK'
    BY <1>1, <1>3, <2>1 DEF IInv, TypeOK, Send, workerVars, Pcs
  <2>4. CallerInv' /\ WorkerInv'
    BY <1>1, <1>3, <2>1, <2>2, TaskFacts
       DEF IInv, TypeOK, CallerInv, WorkerInv, Send, workerVars
  <2>5. OrderInv'
    <3>1. Len(tasks) \in Nat /\ Len(canvas) \in Nat /\ NumPending \in Nat
      BY LenProperties DEF IInv, TypeOK, NumPending
    <3>2. \A i \in 1..Len(tasks') : tasks'[i].id = Sent' - Len(tasks') + i
      <4>1. ASSUME NEW i \in 1..Len(tasks')
            PROVE  tasks'[i].id = Sent' - Len(tasks') + i
        <5>1. CASE i = Len(tasks) + 1
          <6>1. tasks'[i] = call
            BY <2>1, <5>1
          <6>2. calls \in Nat
            BY DEF IInv, TypeOK
          <6> QED BY <1>1, <2>1, <2>2, <3>1, <5>1, <6>1, <6>2
        <5>2. CASE i \in 1..Len(tasks)
          <6>1. tasks'[i] = tasks[i]
            BY <2>1, <3>1, <5>2
          <6>2. calls \in Nat /\ tasks[i].id = Sent - Len(tasks) + i
            BY <5>2 DEF IInv, TypeOK, OrderInv
          <6> QED BY <1>1, <2>1, <2>2, <3>1, <5>2, <6>1, <6>2
        <5> QED BY <2>1, <3>1, <5>1, <5>2
      <4> QED BY <4>1
    <3>3. Holding' => cur'.id = Sent' - Len(tasks')
      BY <1>1, <2>1, <2>2, <3>1 DEF IInv, TypeOK, OrderInv, Send, workerVars
    <3>4. canvas' = canvas /\ resets' = resets
      BY DEF Send
    <3>5. \A i \in 1..Len(canvas') :
            canvas'[i].id = Sent' - NumPending' - Len(canvas') + i
      BY <1>1, <2>2, <3>1, <3>4 DEF IInv, TypeOK, OrderInv
    <3>6. resets' = 0 => Len(canvas') + NumPending' = Sent'
      <4>1. calls \in Nat /\ (resets = 0 => Len(canvas) + NumPending = Sent)
        BY DEF IInv, TypeOK, OrderInv
      <4> QED BY <1>1, <2>2, <3>1, <3>4, <4>1
    <3> QED BY <3>2, <3>3, <3>5, <3>6 DEF OrderInv
  <2>6. PathInv'
    <3>1. (pc' = "go" /\ worker' = "apply") => cur'.id # call'.id
      BY <1>1, <1>3 DEF IInv, TypeOK, OrderInv, Send, workerVars, Holding
    <3>2. NumPending \in Nat
      BY LenProperties DEF IInv, TypeOK, NumPending
    <3>3. UNCHANGED <<compiling, ready, worker, cur, calls>>
      BY DEF Send, workerVars
    <3>4. call' \in Task => call' = call
      BY <1>1, <1>3, TaskFacts DEF Send
    <3> QED
      BY <1>1, <2>2, <3>1, <3>2, <3>3, <3>4 DEF IInv, TypeOK, PathInv
  <2> QED BY <2>3, <2>4, <2>5, <2>6 DEF IInv
<1> QED BY <1>2, <1>3

LEMMA GoIInv ==
  ASSUME IInv, Go
  PROVE  IInv'
<1>1. /\ call \in Task /\ call.id = calls /\ call.kind \in PathKinds
      /\ calls \in 1..MaxCalls /\ ~closed /\ NumPending > 0 /\ call' = NoTask
  BY TaskFacts DEF IInv, TypeOK, CallerInv, Go
<1>2. Sent = calls /\ Sent' = calls /\ NumPending' = NumPending /\ Holding' = Holding
  BY <1>1 DEF Go, Sent, NumPending, Holding, workerVars
<1>3. TypeOK'
  BY <1>1 DEF IInv, TypeOK, Go, workerVars, Pcs
<1>4. CallerInv' /\ WorkerInv'
  BY <1>1, <1>2, TaskFacts DEF IInv, CallerInv, WorkerInv, Go, workerVars
<1>5. OrderInv'
  BY <1>2 DEF IInv, OrderInv, Go, workerVars
<1>6. PathInv'
  <2>1. Sent - NumPending < call.id
    BY <1>1, <1>2 DEF IInv, TypeOK, NumPending
  <2>2. worker = "apply" => cur.id \notin compiling'
    BY DEF IInv, PathInv, Go
  <2>3. compiling' \cap ready = {}
    BY <1>1 DEF IInv, PathInv, Go
  <2> QED BY <1>1, <1>2, <2>1, <2>2, <2>3, TaskFacts
          DEF IInv, TypeOK, PathInv, Go, workerVars
<1> QED BY <1>3, <1>4, <1>5, <1>6 DEF IInv

LEMMA ResetIInv ==
  ASSUME IInv, Reset
  PROVE  IInv'
<1>1. Sent' = Sent /\ NumPending' = NumPending /\ Holding' = Holding
  BY DEF Reset, Sent, NumPending, Holding, workerVars
<1>2. TypeOK'
  BY RendererAssumption, EmptySeq DEF IInv, TypeOK, Reset, workerVars, RendererAssumption
<1>3. CallerInv' /\ WorkerInv'
  BY <1>1 DEF IInv, CallerInv, WorkerInv, Reset, workerVars
<1>4. OrderInv' /\ PathInv'
  BY <1>1 DEF IInv, TypeOK, OrderInv, PathInv, Reset, workerVars
<1> QED BY <1>2, <1>3, <1>4 DEF IInv

LEMMA CallerEndsIInv ==
  ASSUME IInv, PushLayer \/ Stopped \/ (\E then \in {"stop", "render"} : Stop(then))
  PROVE  IInv'
<1>1. call = NoTask /\ call' = NoTask
  BY DEF IInv, TypeOK, CallerInv, PushLayer, Stopped, Stop
<1>2. Sent' = Sent /\ NumPending' = NumPending /\ Holding' = Holding
  BY <1>1 DEF PushLayer, Stopped, Stop, Sent, NumPending, Holding, workerVars
<1>3. TypeOK'
  BY DEF IInv, TypeOK, PushLayer, Stopped, Stop, workerVars, Pcs
<1>4. CallerInv' /\ WorkerInv'
  BY <1>1, <1>2, TaskFacts
     DEF IInv, CallerInv, WorkerInv, PushLayer, Stopped, Stop, workerVars
<1>5. OrderInv' /\ PathInv'
  BY <1>1, <1>2, TaskFacts
     DEF IInv, OrderInv, PathInv, PushLayer, Stopped, Stop, workerVars
<1> QED BY <1>3, <1>4, <1>5 DEF IInv

LEMMA CompiledIInv ==
  ASSUME IInv, NEW id \in compiling, Compiled(id)
  PROVE  IInv'
<1>1. Sent' = Sent /\ NumPending' = NumPending /\ Holding' = Holding
  BY DEF Compiled, Sent, NumPending, Holding, callerVars, workerVars
<1>2. TypeOK'
  BY DEF IInv, TypeOK, Compiled, callerVars, workerVars
<1>3. CallerInv' /\ WorkerInv'
  BY <1>1 DEF IInv, CallerInv, WorkerInv, Compiled, callerVars, workerVars
<1>4. OrderInv'
  BY <1>1 DEF IInv, OrderInv, Compiled, callerVars, workerVars
<1>5. id <= calls
  BY DEF IInv, TypeOK, PathInv, Sent
<1>6. PathInv'
  BY <1>1, <1>5 DEF IInv, TypeOK, PathInv, Compiled, callerVars, workerVars
<1> QED BY <1>2, <1>3, <1>4, <1>6 DEF IInv

LEMMA ReceiveIInv ==
  ASSUME IInv, Receive
  PROVE  IInv'
<1>1. /\ tasks \in Seq(Task) /\ tasks # <<>>
      /\ cur' = Head(tasks) /\ cur' \in Task /\ cur' = tasks[1]
      /\ tasks' \in Seq(Task) /\ Len(tasks') = Len(tasks) - 1 /\ Len(tasks) > 0
      /\ \A i \in 1..Len(tasks') : tasks'[i] = tasks[i + 1]
  BY HeadTailProperties, EmptySeq DEF IInv, TypeOK, Receive
<1>2. Sent' = Sent /\ NumPending' = NumPending /\ Holding' /\ ~Holding
  BY <1>1 DEF Receive, Sent, NumPending, Holding, callerVars
<1>3. TypeOK'
  <2>1. Len(tasks') <= Parallelism
    BY <1>1, LenProperties, RendererAssumption DEF IInv, TypeOK, RendererAssumption
  <2> QED BY <1>1, <2>1 DEF IInv, TypeOK, Receive, callerVars
<1>4. CallerInv' /\ WorkerInv'
  BY <1>1, <1>2 DEF IInv, CallerInv, WorkerInv, Receive, callerVars
<1>5. OrderInv'
  <2>1. cur'.id = Sent - Len(tasks')
    <3>1. Len(tasks) \in Nat /\ Sent \in Int
      BY LenProperties DEF IInv, TypeOK, Sent
    <3>2. 1 \in 1..Len(tasks)
      BY <1>1, <3>1
    <3>3. tasks[1].id = Sent - Len(tasks) + 1
      BY <3>2 DEF IInv, OrderInv
    <3> QED BY <1>1, <3>1, <3>3
  <2>2. \A i \in 1..Len(tasks') : tasks'[i].id = Sent - Len(tasks') + i
    <3>1. Len(tasks) \in Nat /\ Sent \in Int
      BY LenProperties DEF IInv, TypeOK, Sent
    <3>2. ASSUME NEW i \in 1..Len(tasks')
          PROVE  tasks'[i].id = Sent - Len(tasks') + i
      <4>1. i + 1 \in 1..Len(tasks) /\ tasks'[i] = tasks[i + 1]
        BY <1>1, <3>1, <3>2
      <4>2. tasks[i + 1].id = Sent - Len(tasks) + (i + 1)
        BY <4>1 DEF IInv, OrderInv
      <4> QED BY <1>1, <3>1, <4>1, <4>2
    <3> QED BY <3>2
  <2>3. UNCHANGED <<canvas, resets>>
    BY DEF Receive, callerVars
  <2> QED BY <1>2, <2>1, <2>2, <2>3 DEF IInv, OrderInv
<1>6. PathInv'
  BY <1>2 DEF IInv, PathInv, Receive, callerVars
<1> QED BY <1>3, <1>4, <1>5, <1>6 DEF IInv

LEMMA TakePathIInv ==
  ASSUME IInv, TakePath
  PROVE  IInv'
<1>1. Sent' = Sent /\ NumPending' = NumPending /\ Holding /\ Holding'
  BY DEF TakePath, Sent, NumPending, Holding, callerVars
<1>2. TypeOK'
  BY DEF IInv, TypeOK, TakePath, callerVars
<1>3. CallerInv' /\ WorkerInv'
  BY <1>1 DEF IInv, CallerInv, WorkerInv, TakePath, callerVars
<1>4. OrderInv'
  BY <1>1 DEF IInv, OrderInv, TakePath, callerVars
<1>5. PathInv'
  <2>1. cur.id \in ready /\ ready' \subseteq ready
    BY DEF TakePath
  <2>2. pc = "go" => cur.id # call.id
    BY <2>1 DEF IInv, CallerInv, PathInv
  <2> QED BY <1>1, <2>1, <2>2 DEF IInv, PathInv, TakePath, callerVars
<1> QED BY <1>2, <1>3, <1>4, <1>5 DEF IInv

LEMMA ApplyIInv ==
  ASSUME IInv, Apply
  PROVE  IInv'
<1>1. cur \in Task /\ cur.id = Sent - Len(tasks) /\ cur' = NoTask
  BY DEF IInv, WorkerInv, OrderInv, Apply, Holding
<1>2. /\ canvas' \in Seq(Task)
      /\ Len(canvas') = Len(canvas) + 1
      /\ \A i \in 1..Len(canvas') :
            canvas'[i] = IF i = Len(canvas) + 1 THEN cur ELSE canvas[i]
  BY <1>1, AppendProperties DEF IInv, TypeOK, Apply
<1>3. /\ Sent' = Sent /\ Sent \in Int /\ Holding /\ ~Holding'
      /\ NumPending = Len(tasks) + 1 /\ NumPending' = Len(tasks)
  BY DEF IInv, TypeOK, Apply, Sent, NumPending, Holding, callerVars
<1>4. TypeOK'
  BY <1>1, <1>2 DEF IInv, TypeOK, Apply, callerVars
<1>5. CallerInv'
  <2>1. pc = "go" => NumPending' > 0
    BY <1>1, <1>3, TaskFacts DEF IInv, TypeOK, CallerInv, PathInv, Apply, Sent
  <2> QED BY <1>3, <2>1 DEF IInv, CallerInv, Apply, callerVars
<1>6. WorkerInv'
  BY <1>1, <1>3, TaskFacts DEF IInv, WorkerInv, Apply, callerVars
<1>7. OrderInv'
  <2>1. \A i \in 1..Len(canvas') :
          canvas'[i].id = Sent' - NumPending' - Len(canvas') + i
    <3>1. Len(canvas) \in Nat /\ Len(tasks) \in Nat
      BY LenProperties DEF IInv, TypeOK
    <3>2. ASSUME NEW i \in 1..Len(canvas')
          PROVE  canvas'[i].id = Sent' - NumPending' - Len(canvas') + i
      <4>1. CASE i = Len(canvas) + 1
        BY <1>1, <1>2, <1>3, <3>1, <4>1
      <4>2. CASE i # Len(canvas) + 1
        <5>1. i \in 1..Len(canvas) /\ canvas'[i] = canvas[i]
          BY <1>2, <3>1, <4>2
        <5>2. canvas[i].id = Sent - NumPending - Len(canvas) + i
          BY <5>1 DEF IInv, OrderInv
        <5> QED BY <1>2, <1>3, <3>1, <5>1, <5>2
      <4> QED BY <4>1, <4>2
    <3> QED BY <3>2
  <2>2. Len(canvas) \in Nat /\ Len(tasks) \in Nat
    BY LenProperties DEF IInv, TypeOK
  <2>3. tasks' = tasks /\ resets' = resets
    BY DEF Apply, callerVars
  <2>4. resets' = 0 => Len(canvas') + NumPending' = Sent'
    BY <1>2, <1>3, <2>2, <2>3 DEF IInv, OrderInv
  <2> QED BY <1>3, <2>1, <2>3, <2>4 DEF IInv, OrderInv
<1>8. PathInv'
  BY <1>1, <1>3 DEF IInv, TypeOK, PathInv, Apply, callerVars
<1> QED BY <1>4, <1>5, <1>6, <1>7, <1>8 DEF IInv

LEMMA ExitIInv ==
  ASSUME IInv, Exit
  PROVE  IInv'
<1>1. Sent' = Sent /\ NumPending' = NumPending /\ ~Holding /\ ~Holding'
  BY DEF Exit, Sent, NumPending, Holding, callerVars
<1>2. TypeOK'
  BY DEF IInv, TypeOK, Exit, callerVars
<1>3. CallerInv' /\ WorkerInv'
  BY <1>1 DEF IInv, CallerInv, WorkerInv, Exit, callerVars
<1>4. OrderInv' /\ PathInv'
  BY <1>1 DEF IInv, OrderInv, PathInv, Exit, callerVars
<1> QED BY <1>2, <1>3, <1>4 DEF IInv

LEMMA NextIInv == IInv /\ [Next]_vars => IInv'
<1> SUFFICES ASSUME IInv, [Next]_vars PROVE IInv'
  OBVIOUS
<1>1. CASE Caller
  BY <1>1, CallIInv, SendIInv, GoIInv, ResetIInv, CallerEndsIInv DEF Caller
<1>2. CASE Worker
  BY <1>2, ReceiveIInv, TakePathIInv, ApplyIInv, ExitIInv DEF Worker
<1>3. CASE Compilers
  BY <1>3, CompiledIInv DEF Compilers
<1>4. CASE UNCHANGED vars
  BY <1>4, StutterIInv
<1> QED BY <1>1, <1>2, <1>3, <1>4 DEF Next

\* The state of the pipeline is always consistent: see ConcurrentRendererInv.
THEOREM Invariance == Spec => []IInv
BY InitIInv, NextIInv, PTL DEF Spec

\* The values of the variables have their types and the channel never holds
\* more than its capacity.
THEOREM TypeCorrect == Spec => []TypeOK
BY Invariance, PTL DEF IInv

LEMMA PendingFacts ==
  ASSUME IInv
  PROVE  /\ Len(tasks) \in Nat /\ Len(canvas) \in Nat /\ Sent \in Int
         /\ Held \in Seq(Task) /\ Pending \in Seq(Task)
         /\ Len(Pending) = NumPending
         /\ \A i \in 1..Len(Pending) : Pending[i].id = Sent - NumPending + i
<1>1. Len(tasks) \in Nat /\ Len(canvas) \in Nat /\ Sent \in Int
  BY LenProperties DEF IInv, TypeOK, Sent
<1>2. CASE Holding
  <2>1. Held = <<cur>> /\ cur \in Task /\ tasks \in Seq(Task)
    BY <1>2 DEF IInv, TypeOK, WorkerInv, Held, Holding
  <2>2. Held \in Seq(Task) /\ Len(Held) = 1 /\ Held[1] = cur
    BY <2>1
  <2>3. /\ Pending \in Seq(Task) /\ Len(Pending) = 1 + Len(tasks)
        /\ \A i \in 1..1 + Len(tasks) :
              Pending[i] = IF i <= 1 THEN cur ELSE tasks[i - 1]
    BY <2>1, <2>2, ConcatProperties DEF Pending
  <2>4. NumPending = Len(tasks) + 1
    BY <1>2 DEF NumPending
  <2>5. ASSUME NEW i \in 1..Len(Pending)
        PROVE  Pending[i].id = Sent - NumPending + i
    <3>1. CASE i = 1
      BY <1>1, <1>2, <2>3, <2>4, <3>1 DEF IInv, OrderInv
    <3>2. CASE i # 1
      <4>1. i - 1 \in 1..Len(tasks) /\ Pending[i] = tasks[i - 1]
        BY <1>1, <2>3, <3>2
      <4>2. tasks[i - 1].id = Sent - Len(tasks) + (i - 1)
        BY <4>1 DEF IInv, OrderInv
      <4> QED BY <1>1, <2>4, <4>1, <4>2
    <3> QED BY <3>1, <3>2
  <2> QED BY <1>1, <2>2, <2>3, <2>4, <2>5
<1>3. CASE ~Holding
  <2>1. Held = <<>> /\ tasks \in Seq(Task)
    BY <1>3 DEF IInv, TypeOK, Held, Holding
  <2>2. Pending = tasks /\ Held \in Seq(Task)
    BY <2>1, ConcatEmptySeq, EmptySeq DEF Pending
  <2>3. NumPending = Len(tasks)
    BY <1>1, <1>3 DEF NumPending
  <2> QED BY <1>1, <2>1, <2>2, <2>3 DEF IInv, OrderInv
<1> QED BY <1>2, <1>3

LEMMA InOrderFact == IInv => DrawnInOrder
<1> SUFFICES ASSUME IInv PROVE DrawnInOrder
  OBVIOUS
<1> DEFINE drawn == canvas \o Pending
<1>1. /\ canvas \in Seq(Task) /\ Pending \in Seq(Task)
      /\ Len(canvas) \in Nat /\ Len(Pending) = NumPending /\ Len(Pending) \in Nat
      /\ Sent \in Int
  BY PendingFacts, LenProperties DEF IInv, TypeOK
<1>2. /\ Len(drawn) = Len(canvas) + NumPending
      /\ \A i \in 1..Len(drawn) :
           drawn[i] = IF i <= Len(canvas) THEN canvas[i] ELSE Pending[i - Len(canvas)]
  BY <1>1, ConcatProperties
<1>3. ASSUME NEW i \in 1..Len(drawn)
      PROVE  drawn[i].id = Sent - NumPending - Len(canvas) + i
  <2>1. CASE i <= Len(canvas)
    <3>1. i \in 1..Len(canvas) /\ drawn[i] = canvas[i]
      BY <1>1, <1>2, <2>1
    <3>2. canvas[i].id = Sent - NumPending - Len(canvas) + i
      BY <3>1 DEF IInv, OrderInv
    <3> QED BY <3>1, <3>2
  <2>2. CASE ~(i <= Len(canvas))
    <3>1. i - Len(canvas) \in 1..Len(Pending) /\ drawn[i] = Pending[i - Len(canvas)]
      BY <1>1, <1>2, <2>2
    <3>2. Pending[i - Len(canvas)].id = Sent - NumPending + (i - Len(canvas))
      BY <3>1, PendingFacts
    <3> QED BY <1>1, <3>1, <3>2
  <2> QED BY <2>1, <2>2
<1>4. ASSUME NEW i \in 1..Len(drawn)
      PROVE  drawn[i].id = drawn[1].id + i - 1
  <2>1. 1 \in 1..Len(drawn) /\ i \in Int /\ NumPending \in Int
    BY <1>1, <1>2
  <2> HIDE DEF drawn
  <2> QED BY <1>1, <1>3, <2>1
<1> QED BY <1>4 DEF DrawnInOrder

\* Operations reach the canvas in the order of the calls, none is skipped and
\* none repeated, whatever order the path compilations finish in.
THEOREM InOrder == Spec => []DrawnInOrder
BY Invariance, InOrderFact, PTL

LEMMA StopDrainsFact == IInv => StopDrains
<1> SUFFICES ASSUME IInv, pc = "stopped"
             PROVE  /\ Pending = <<>>
                    /\ resets = 0 => \A id \in 1..Sent :
                                       \E i \in 1..Len(canvas) : canvas[i].id = id
  BY DEF StopDrains
<1>1. NumPending = 0 /\ ~Holding
  BY DEF IInv, CallerInv, WorkerInv, Holding, NumPending
<1>2. Pending = <<>>
  BY <1>1, PendingFacts, EmptySeq
<1>3. ASSUME resets = 0, NEW id \in 1..Sent
      PROVE  \E i \in 1..Len(canvas) : canvas[i].id = id
  <2>1. Len(canvas) = Sent /\ Len(canvas) \in Nat
    BY <1>1, <1>3, PendingFacts DEF IInv, OrderInv
  <2>2. id \in 1..Len(canvas)
    BY <2>1
  <2>3. canvas[id].id = Sent - NumPending - Len(canvas) + id
    BY <2>2 DEF IInv, OrderInv
  <2>4. canvas[id].id = id
    BY <1>1, <2>1, <2>3
  <2> QED BY <2>2, <2>4
<1> QED BY <1>2, <1>3

\* Stop, and with it RenderToPixmap, loses no operation.
THEOREM Drains == Spec => []StopDrains
BY Invariance, StopDrainsFact, PTL

LEMMA CompilationFact == IInv => NoStrayCompilation /\ BoundedCompilation
<1> SUFFICES ASSUME IInv PROVE NoStrayCompilation /\ BoundedCompilation
  OBVIOUS
<1>1. NumPending \in Nat /\ Sent \in Int /\ NumPending <= Parallelism + 1
  BY PendingFacts, RendererAssumption DEF IInv, TypeOK, NumPending, RendererAssumption
<1>2. compiling \subseteq (Sent - NumPending + 1)..Sent
  BY <1>1 DEF IInv, TypeOK, PathInv
<1>3. done => compiling = {}
  <2> SUFFICES ASSUME done PROVE compiling = {}
    OBVIOUS
  <2>1. NumPending = 0
    BY DEF IInv, WorkerInv, NumPending, Holding
  <2> QED BY <1>1, <1>2, <2>1
<1>4. ASSUME NEW id \in compiling
      PROVE  \E i \in 1..Len(Pending) : Pending[i].id = id
  <2>1. id - (Sent - NumPending) \in 1..Len(Pending)
    BY <1>1, <1>2, PendingFacts
  <2>2. Pending[id - (Sent - NumPending)].id = Sent - NumPending + (id - (Sent - NumPending))
    BY <2>1, PendingFacts
  <2>3. id \in Int
    BY DEF IInv, TypeOK
  <2> QED BY <1>1, <2>1, <2>2, <2>3
<1>5. BoundedCompilation
  <2>1. /\ IsFiniteSet((Sent - NumPending + 1)..Sent)
        /\ Cardinality((Sent - NumPending + 1)..Sent) = NumPending
    <3> DEFINE low == Sent - NumPending + 1
    <3>1. low \in Int
      BY <1>1
    <3>2. NumPending = IF low > Sent THEN 0 ELSE Sent - low + 1
      BY <1>1
    <3> HIDE DEF low
    <3>3. /\ IsFiniteSet(low..Sent)
          /\ Cardinality(low..Sent) = IF low > Sent THEN 0 ELSE Sent - low + 1
      BY <1>1, <3>1, FS_Interval
    <3> QED BY <3>2, <3>3 DEF low
  <2>2. Cardinality(compiling) <= NumPending /\ IsFiniteSet(compiling)
    BY <1>2, <2>1, FS_Subset
  <2>3. Cardinality(compiling) \in Nat
    BY <2>2, FS_CardinalityType
  <2> QED BY <1>1, <2>2, <2>3, RendererAssumption
          DEF BoundedCompilation, RendererAssumption
<1> QED BY <1>3, <1>4, <1>5 DEF NoStrayCompilation

\* No compilation goroutine survives Stop or works for a drawn operation.
THEOREM NoStray == Spec => []NoStrayCompilation
BY Invariance, CompilationFact, PTL

\* At most one more compilation than the channel's capacity runs at a time.
THEOREM Bounded == Spec => []BoundedCompilation
BY Invariance, CompilationFact, PTL

-----------------------------------------------------------------------------
(***************************************************************************)
(* The renderer implements the draw queue.                                 *)
(***************************************************************************)

LEMMA QueueInit == Init => Queue!DInit
<1> SUFFICES ASSUME Init PROVE Queue!DInit
  OBVIOUS
<1>1. Held = <<>> /\ tasks = <<>>
  BY DEF Init, Held
<1>2. Pending = <<>>
  <2>1. <<>> \in Seq(Task)
    BY EmptySeq
  <2> QED BY <1>1, <2>1, ConcatEmptySeq DEF Pending
<1> QED BY <1>2 DEF Init, Queue!DInit

\* The steps that change neither the queued operations nor the canvas.
LEMMA QueueStutter ==
  ASSUME UNCHANGED <<tasks, worker, cur, closed, done, canvas>>
  PROVE  UNCHANGED Queue!dvars
BY DEF Queue!dvars, Pending, Held

LEMMA QueueSend ==
  ASSUME IInv, Send
  PROVE  [Queue!DNext]_(Queue!dvars)
<1>1. CASE closed
  BY <1>1, QueueStutter DEF Send, workerVars
<1>2. CASE ~closed
  <2>1. call \in Task /\ tasks \in Seq(Task) /\ Held \in Seq(Task)
    BY PendingFacts DEF IInv, TypeOK, CallerInv, Send
  <2>2. tasks' = Append(tasks, call) /\ Held' = Held
    BY <1>2 DEF Send, Held, workerVars
  <2>3. Pending' = Append(Pending, call)
    <3>1. Append(tasks, call) = tasks \o <<call>>
      BY <2>1, AppendIsConcat
    <3>2. Append(Pending, call) = Pending \o <<call>>
      BY <2>1, PendingFacts, AppendIsConcat
    <3>3. <<call>> \in Seq(Task)
      BY <2>1
    <3>4. Held \o (tasks \o <<call>>) = (Held \o tasks) \o <<call>>
      BY <2>1, <3>3, ConcatAssociative
    <3> QED BY <2>2, <3>1, <3>2, <3>4 DEF Pending
  <2>4. Len(Pending) < Parallelism + 1
    BY <1>2, PendingFacts, RendererAssumption
       DEF Send, NumPending, RendererAssumption
  <2>5. Queue!Enqueue(call)
    BY <1>2, <2>3, <2>4 DEF Send, Queue!Enqueue
  <2> QED BY <2>1, <2>5 DEF Queue!DNext
<1> QED BY <1>1, <1>2

LEMMA QueueReceive ==
  ASSUME IInv, Receive
  PROVE  [Queue!DNext]_(Queue!dvars)
<1>1. tasks \in Seq(Task) /\ tasks # <<>> /\ Held = <<>> /\ Held' = <<Head(tasks)>>
  BY DEF IInv, TypeOK, Receive, Held
<1>2. tasks = <<Head(tasks)>> \o Tail(tasks)
  <2>1. /\ Head(tasks) \in Task /\ Tail(tasks) \in Seq(Task) /\ Head(tasks) = tasks[1]
        /\ Len(Tail(tasks)) = Len(tasks) - 1 /\ Len(tasks) \in Nat
        /\ \A i \in 1..Len(Tail(tasks)) : Tail(tasks)[i] = tasks[i + 1]
    BY <1>1, HeadTailProperties, LenProperties
  <2> DEFINE whole == <<Head(tasks)>> \o Tail(tasks)
  <2>2. /\ whole \in Seq(Task) /\ Len(whole) = 1 + Len(Tail(tasks))
        /\ \A i \in 1..1 + Len(Tail(tasks)) :
              whole[i] = IF i <= 1 THEN Head(tasks) ELSE Tail(tasks)[i - 1]
    BY <2>1, ConcatProperties
  <2> HIDE DEF whole
  <2>3. ASSUME NEW i \in 1..Len(tasks) PROVE tasks[i] = whole[i]
    <3>1. CASE i = 1
      BY <2>1, <2>2, <3>1
    <3>2. CASE i # 1
      BY <2>1, <2>2, <3>2
    <3> QED BY <3>1, <3>2
  <2>4. tasks = whole
    BY <1>1, <2>1, <2>2, <2>3, SeqEqual
  <2> QED BY <2>4 DEF whole
<1>3. Pending' = Pending
  BY <1>1, <1>2, ConcatEmptySeq DEF Pending, Receive
<1> QED BY <1>3 DEF Receive, callerVars, Queue!dvars

LEMMA QueueApply ==
  ASSUME IInv, Apply
  PROVE  [Queue!DNext]_(Queue!dvars)
<1>1. cur \in Task /\ tasks \in Seq(Task) /\ Held = <<cur>> /\ Held' = <<>> /\ tasks' = tasks
  BY DEF IInv, TypeOK, WorkerInv, Apply, Held, Holding, callerVars
<1>2. Pending' = tasks
  BY <1>1, ConcatEmptySeq DEF Pending
<1>3. Head(Pending) = cur /\ Tail(Pending) = tasks /\ Pending # <<>>
  <2>1. Pending \in Seq(Task) /\ Len(Pending) = 1 + Len(tasks) /\ Len(tasks) \in Nat
        /\ \A i \in 1..1 + Len(tasks) :
              Pending[i] = IF i <= 1 THEN cur ELSE tasks[i - 1]
    BY <1>1, ConcatProperties, LenProperties DEF Pending
  <2>2. Pending # <<>>
    BY <2>1, EmptySeq
  <2>3. Head(Pending) = cur
    BY <2>1, <2>2
  <2>4. /\ Tail(Pending) \in Seq(Task) /\ Len(Tail(Pending)) = Len(tasks)
        /\ \A i \in 1..Len(tasks) : Tail(Pending)[i] = Pending[i + 1]
    BY <2>1, <2>2, HeadTailProperties
  <2>5. \A i \in 1..Len(tasks) : Pending[i + 1] = tasks[i]
    BY <2>1
  <2>6. Tail(Pending) = tasks
    BY <1>1, <2>4, <2>5, SeqEqual
  <2> QED BY <2>2, <2>3, <2>6
<1>4. Queue!Draw
  BY <1>2, <1>3 DEF Apply, callerVars, Queue!Draw
<1> QED BY <1>4 DEF Queue!DNext

LEMMA QueueOther ==
  ASSUME IInv, Reset \/ Exit \/ (\E then \in {"stop", "render"} : Stop(then))
  PROVE  [Queue!DNext]_(Queue!dvars)
<1>1. CASE Reset
  BY <1>1 DEF Reset, workerVars, Pending, Held, Queue!Clear, Queue!DNext
<1>2. CASE Exit
  <2>1. Held = <<>> /\ tasks = <<>> /\ Held' = <<>> /\ tasks' = <<>>
    BY <1>2 DEF Exit, Held
  <2>2. Pending = <<>> /\ Pending' = <<>>
    <3>1. <<>> \in Seq(Task)
      BY EmptySeq
    <3> QED BY <2>1, <3>1, ConcatEmptySeq DEF Pending
  <2>3. ~done
    BY <1>2 DEF IInv, WorkerInv, Exit
  <2> QED BY <1>2, <2>2, <2>3 DEF Exit, Queue!Finish, Queue!DNext
<1>3. CASE \E then \in {"stop", "render"} : Stop(then)
  BY <1>3, QueueStutter DEF Stop, workerVars, Pending, Held, Queue!Close, Queue!DNext
<1> QED BY <1>1, <1>2, <1>3

\* Queueing and drawing through goroutines and channels is queueing and
\* drawing in order: every step of the renderer is a step of the draw queue or
\* leaves it unchanged.
THEOREM Refinement == Spec => SafelyImplementsDrawQueue
<1>1. Init => Queue!DInit
  BY QueueInit
<1>2. IInv /\ [Next]_vars => [Queue!DNext]_(Queue!dvars)
  <2> SUFFICES ASSUME IInv, [Next]_vars PROVE [Queue!DNext]_(Queue!dvars)
    OBVIOUS
  <2>1. CASE Caller
    <3>1. ASSUME NEW kind \in Kinds, Call(kind) PROVE UNCHANGED Queue!dvars
      BY <3>1, QueueStutter DEF Call, workerVars
    <3>2. CASE Go \/ PushLayer \/ Stopped
      BY <3>2, QueueStutter DEF Go, PushLayer, Stopped, workerVars
    <3> QED BY <2>1, <3>1, <3>2, QueueSend, QueueOther DEF Caller
  <2>2. CASE Worker
    <3>1. CASE TakePath
      <4>1. Held' = Held /\ tasks' = tasks
        BY <3>1 DEF TakePath, Held
      <4> QED BY <3>1, <4>1 DEF TakePath, callerVars, Pending, Queue!dvars
    <3> QED BY <2>2, <3>1, QueueReceive, QueueApply, QueueOther DEF Worker
  <2>3. CASE Compilers
    BY <2>3, QueueStutter DEF Compilers, Compiled, callerVars, workerVars
  <2>4. CASE UNCHANGED vars
    BY <2>4, QueueStutter DEF vars
  <2> QED BY <2>1, <2>2, <2>3, <2>4 DEF Next
<1> QED BY <1>1, <1>2, Invariance, PTL
        DEF Spec, SafelyImplementsDrawQueue, Queue!DSafety

=============================================================================

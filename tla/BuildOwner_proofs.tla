---------------------------- MODULE BuildOwner_proofs ----------------------------
(***************************************************************************)
(* Proofs about BuildOwner: the tree stays a tree with depths that rise      *)
(* downwards, and BuildScope builds everything that is dirty, parents before *)
(* children, for trees of any size, if at most one listed element moves in a *)
(* frame.                                                                  *)
(***************************************************************************)
EXTENDS BuildOwner, FiniteSetTheorems, SequenceTheorems, WellFoundedInduction, TLAPS

\* What holds of the tree: every element but the root hangs from one that is in
\* the same state and less deep, or from none, and then it is not active.
TreeInv ==
  /\ parent[Root] = None /\ Active(Root)
  /\ \A x \in Elements :
       /\ parent[x] = None /\ Active(x) => x = Root
       /\ parent[x] # None =>
            life[x] = life[parent[x]] /\ depth[x] > depth[parent[x]]
       /\ life[x] = "unmounted" => parent[x] = None

\* The builds in progress: of active elements, each a child of the one before.
StackInv ==
  /\ stack # <<>> => phase = "scope"
  /\ \A i \in 1..Len(stack) :
       /\ Active(stack[i].el)
       /\ i > 1 => /\ parent[stack[i].el] = stack[i - 1].el
                   /\ depth[stack[i].el] > depth[stack[1].el]

\* inDirtyList agrees with the list, which is empty outside of frames but for
\* what the program has marked.
ListInv ==
  /\ listed = Range(list)
  /\ \A x \in listed : life[x] # "unmounted"
  /\ phase = "idle" => Root \notin listed
  /\ phase = "late" => listed = {}

IInv == TypeOK /\ TreeInv /\ StackInv /\ ListInv

Waits(e) == e \in dirty /\ Active(e)

\* What waits to be built is listed, and after the BuildScope nothing waits.
Listed == \A e \in Elements : Waits(e) => e \in listed \cup Building
LateInv == phase = "late" => \A e \in Elements : ~Waits(e)
WaitInv == Listed /\ LateInv

Ascends(s) == \A i, j \in 1..Len(s) : i < j => depth[s[i]] <= depth[s[j]]

\* BuildScope between two elements of the list.
BetweenInv ==
  /\ count = Len(list) /\ ~resort
  /\ Ascends(list)
  /\ \A k \in 1..index - 1 : ~Waits(list[k])

\* BuildScope within rebuild: what was left of the index stays built unless it
\* moves, at most one does, and what moves is below the element being rebuilt.
WithinInv ==
  LET top == depth[stack[1].el] IN
  /\ index <= count /\ list[index] = stack[1].el
  /\ \A k \in 1..index - 1 :
       /\ depth[list[k]] > top => list[k] \in moved
       /\ depth[list[k]] <= top => ~Waits(list[k])
  /\ \A k, j \in 1..index - 1 :
       depth[list[k]] > top /\ depth[list[j]] > top => k = j
  /\ \A k \in index + 1..Len(list) : depth[list[k]] >= top
  /\ count = Len(list) /\ ~resort => Ascends(list)

ScopeInv ==
  phase = "scope" =>
    /\ index <= count + 1 /\ count <= Len(list)
    /\ IF stack = <<>> THEN BetweenInv ELSE WithinInv

-----------------------------------------------------------------------------
(* Numbers and sets *)

LEMMA LeastElement ==
  ASSUME NEW T \in SUBSET Nat, T # {}
  PROVE  \E x \in T : \A y \in T : x <= y
<1>1. PICK x \in T : \A y \in T : ~(<<y, x>> \in OpToRel(<, Nat))
  BY WFMin, NatLessThanWellFounded, Zenon
<1>2. \A y \in T : ~(y < x)
  BY <1>1 DEF OpToRel
<1> QED BY <1>2

LEMMA GreatestElement ==
  ASSUME NEW n \in Nat, NEW T \in SUBSET (0..n), T # {}
  PROVE  Max(T) \in T /\ \A y \in T : y <= Max(T)
<1> DEFINE U == {n - y : y \in T}
<1>1. U \in SUBSET Nat /\ U # {}
  <2>1. PICK y \in T : TRUE
    OBVIOUS
  <2>2. n - y \in U
    OBVIOUS
  <2>3. \A z \in T : n - z \in Nat
    OBVIOUS
  <2> QED BY <2>2, <2>3
<1>2. PICK u \in U : \A y \in U : u <= y
  <2> HIDE DEF U
  <2> QED BY <1>1, LeastElement
<1>3. PICK x \in T : u = n - x
  OBVIOUS
<1>4. \A y \in T : x >= y
  <2>1. ASSUME NEW y \in T
        PROVE  x >= y
    <3>1. n - y \in U
      OBVIOUS
    <3>2. n - x <= n - y
      BY <1>2, <1>3, <3>1
    <3> QED BY <3>2
  <2> QED BY <2>1
<1>5. Max(T) \in T /\ \A y \in T : Max(T) >= y
  BY <1>4 DEF Max
<1> QED BY <1>5

\* A set of at most one element.
LEMMA AtMostOne ==
  ASSUME NEW S, IsFiniteSet(S), Cardinality(S) <= 1, NEW x \in S, NEW y \in S
  PROVE  x = y
<1>1. Cardinality(S) \in Nat /\ Cardinality(S) # 0
  BY FS_CardinalityType, FS_EmptySet
<1>2. Cardinality(S) = 1
  BY <1>1
<1>3. \E z : S = {z}
  BY <1>2, FS_Singleton
<1> QED BY <1>3

-----------------------------------------------------------------------------
(* Paths *)

\* Every element hangs from another or from none, and none from itself.
Forest ==
  /\ parent \in [Elements -> Elements \cup {None}]
  /\ WellFounded(parent)

LEMMA Members == IsFiniteSet(Elements) /\ Root \in Elements /\ None \notin Elements
  BY BuildOwnerAssumption

\* The recursive function that defines Path exists: the elements above x are
\* those in every set that has x and, with an element, its parent.
LEMMA PathOf ==
  ASSUME Forest
  PROVE  /\ Path(None) = {}
         /\ \A x \in Elements : Path(x) = {x} \cup Path(parent[x])
<1> DEFINE D == Elements \cup {None}
           Fits(g) == g = [x \in D |-> IF x = None THEN {} ELSE {x} \cup g[parent[x]]]
           Closed(S) == \A y \in S : parent[y] # None => parent[y] \in S
           Above(x) == {a \in Elements :
                          \A S \in SUBSET Elements : x \in S /\ Closed(S) => a \in S}
           f == [x \in D |-> IF x = None THEN {} ELSE Above(x)]
           p == CHOOSE g : Fits(g)
<1>1. \A x \in Elements : parent[x] \in D /\ x # None
  BY Members DEF Forest
<1>2. ASSUME NEW x \in Elements
      PROVE  Above(x) = {x} \cup f[parent[x]]
  <2> DEFINE q == parent[x]
             T == {x} \cup f[q]
  <2>1. f[q] \subseteq Elements
    BY <1>1
  <2>2. T \subseteq Above(x)
    <3>1. x \in Above(x)
      OBVIOUS
    <3>2. ASSUME q # None, NEW a \in f[q]
          PROVE  a \in Above(x)
      <4>1. q \in Elements /\ a \in Above(q)
        BY <1>1, <3>2
      <4>2. \A S \in SUBSET Elements : x \in S /\ Closed(S) => q \in S
        BY <3>2
      <4> QED BY <4>1, <4>2
    <3>3. q = None => f[q] = {}
      BY <1>1
    <3> QED BY <3>1, <3>2, <3>3
  <2>3. x \in T /\ T \in SUBSET Elements
    BY <2>1
  <2>4. ASSUME NEW y \in T, parent[y] # None
        PROVE  parent[y] \in T
    <3>1. CASE y = x
      <4>1. q \in Elements
        BY <1>1, <2>4, <3>1
      <4>2. q \in Above(q)
        BY <4>1
      <4> QED BY <1>1, <3>1, <4>1, <4>2
    <3>2. CASE y \in f[q]
      <4>1. q # None /\ q \in Elements /\ y \in Above(q)
        BY <1>1, <3>2
      <4>2. parent[y] \in Elements
        BY <1>1, <2>4, <4>1
      <4>3. parent[y] \in Above(q)
        BY <2>4, <4>1, <4>2
      <4> QED BY <1>1, <4>1, <4>3
    <3> QED BY <3>1, <3>2
  <2>5. Above(x) \subseteq T
    <3>1. Closed(T)
      BY <2>4
    <3> HIDE DEF T
    <3> QED BY <2>3, <3>1
  <2> QED BY <2>2, <2>5
<1>3. Fits(f)
  <2>1. \A x \in D : f[x] = IF x = None THEN {} ELSE {x} \cup f[parent[x]]
    BY <1>1, <1>2
  <2>2. f = [x \in D |-> f[x]]
    OBVIOUS
  <2> HIDE DEF f
  <2> QED BY <2>1, <2>2
<1>4. Fits(p)
  <2> HIDE DEF Fits, f
  <2> QED BY <1>3
<1>5. \A x : Path(x) = p[x]
  BY DEF Path
<1> HIDE DEF p, D
<1>6. /\ p[None] = {}
      /\ \A x \in Elements : p[x] = {x} \cup p[parent[x]]
  BY <1>1, <1>4 DEF D
<1> QED BY <1>5, <1>6

\* An element is on its path, with all that is above what is on it.
LEMMA PathHas ==
  ASSUME Forest, NEW x \in Elements
  PROVE  x \in Path(x) /\ Path(x) \subseteq Elements
<1> DEFINE S == {y \in Elements : ~(Path(y) \subseteq Elements)}
<1>1. ASSUME S # {}
      PROVE  FALSE
  <2>1. PICK e \in S : parent[e] \notin S
    BY <1>1 DEF Forest, WellFounded
  <2>2. Path(e) = {e} \cup Path(parent[e]) /\ Path(None) = {}
    BY PathOf
  <2>3. parent[e] \in Elements \cup {None}
    BY DEF Forest
  <2> QED BY <2>1, <2>2, <2>3
<1>2. x \in Path(x)
  BY PathOf
<1> QED BY <1>1, <1>2

LEMMA PathIsFinite ==
  ASSUME Forest, NEW x \in Elements \cup {None}
  PROVE  IsFiniteSet(Path(x))
<1>1. CASE x \in Elements
  BY <1>1, PathHas, Members, FS_Subset
<1>2. CASE x = None
  BY <1>2, PathOf, FS_EmptySet
<1> QED BY <1>1, <1>2

LEMMA PathWithin ==
  ASSUME Forest, NEW x \in Elements, NEW a \in Path(x)
  PROVE  Path(a) \subseteq Path(x)
<1> DEFINE S == {y \in Elements : a \in Path(y) /\ ~(Path(a) \subseteq Path(y))}
<1>1. ASSUME S # {}
      PROVE  FALSE
  <2>1. PICK e \in S : parent[e] \notin S
    BY <1>1 DEF Forest, WellFounded
  <2>2. Path(e) = {e} \cup Path(parent[e]) /\ Path(None) = {}
    BY PathOf
  <2>3. parent[e] \in Elements \cup {None}
    BY DEF Forest
  <2> QED BY <2>1, <2>2, <2>3
<1> QED BY <1>1

\* What is above an element, other than itself, is above its parent.
LEMMA PathStep ==
  ASSUME Forest, NEW x \in Elements, NEW c
  PROVE  /\ IsIn(x, c) <=> c = x \/ (parent[x] # None /\ IsIn(parent[x], c))
         /\ parent[x] # None => parent[x] \in Elements
         /\ IsIn(x, c) => c \in Elements
<1>1. Path(x) = {x} \cup Path(parent[x]) /\ Path(None) = {}
  BY PathOf
<1>2. parent[x] \in Elements \cup {None}
  BY DEF Forest
<1> QED BY <1>1, <1>2, PathHas DEF IsIn

LEMMA NoLoop ==
  ASSUME Forest, NEW x \in Elements
  PROVE  x \notin Path(parent[x])
<1> SUFFICES ASSUME x \in Path(parent[x])
             PROVE  FALSE
  OBVIOUS
<1> DEFINE S == {a \in Elements : x \in Path(a) /\ a \in Path(x)}
<1>1. x \in S
  BY PathHas
<1>2. PICK e \in S : parent[e] \notin S
  BY <1>1 DEF Forest, WellFounded
<1>3. Path(e) = {e} \cup Path(parent[e]) /\ Path(None) = {}
  BY PathOf
<1>4. x \in Path(parent[e]) /\ parent[e] \in Elements
  BY <1>2, <1>3 DEF Forest
<1>5. parent[e] \in Path(e)
  BY <1>3, <1>4, PathHas
<1>6. Path(e) \subseteq Path(x)
  BY <1>2, PathWithin
<1> QED BY <1>2, <1>4, <1>5, <1>6

\* How far an element is below another.
LEMMA DistanceStep ==
  ASSUME Forest, NEW x \in Elements, NEW c \in Path(x)
  PROVE  /\ Distance(c, x) \in Nat /\ Distance(c, c) = 0
         /\ c # x => Distance(c, x) = Distance(c, parent[x]) + 1
<1>1. c \in Elements
  BY PathHas
<1>2. /\ Cardinality(Path(c)) \in Nat /\ Cardinality(Path(x)) \in Nat
      /\ Cardinality(Path(parent[x])) \in Nat /\ IsFiniteSet(Path(parent[x]))
      /\ IsFiniteSet(Path(x))
  <2>1. parent[x] \in Elements \cup {None}
    BY DEF Forest
  <2> QED BY <1>1, <2>1, PathIsFinite, FS_CardinalityType
<1>3. Cardinality(Path(c)) <= Cardinality(Path(x))
  BY <1>2, PathWithin, FS_Subset
<1>4. Cardinality(Path(x)) = Cardinality(Path(parent[x])) + 1
  <2>1. Path(x) = Path(parent[x]) \cup {x}
    BY PathOf
  <2> QED BY <1>2, <2>1, NoLoop, FS_AddElement
<1> QED BY <1>2, <1>3, <1>4 DEF Distance

-----------------------------------------------------------------------------
(* The tree of a state that satisfies the invariant *)

LEMMA TreeIsForest ==
  ASSUME TypeOK, TreeInv
  PROVE  Forest
<1>1. ASSUME NEW S \in SUBSET Elements, S # {}
      PROVE  \E e \in S : parent[e] \notin S
  <2> DEFINE T == {depth[e] : e \in S}
  <2>1. T \in SUBSET Nat /\ T # {}
    <3>1. PICK e \in S : TRUE
      BY <1>1
    <3>2. depth[e] \in T
      OBVIOUS
    <3> QED BY <3>2 DEF TypeOK
  <2>2. PICK d \in T : \A y \in T : d <= y
    <3> HIDE DEF T
    <3> QED BY <2>1, LeastElement
  <2>3. PICK e \in S : d = depth[e]
    OBVIOUS
  <2>4. ASSUME parent[e] \in S
        PROVE  FALSE
    <3>1. depth[e] <= depth[parent[e]]
      BY <2>2, <2>3, <2>4
    <3>2. depth[e] > depth[parent[e]]
      BY <2>4, Members DEF TreeInv
    <3>3. depth[e] \in Nat /\ depth[parent[e]] \in Nat
      BY <2>4 DEF TypeOK
    <3> QED BY <3>1, <3>2, <3>3
  <2> QED BY <2>4
<1> QED BY <1>1 DEF Forest, TypeOK, WellFounded

\* What is above an element is less deep and in the same state.
LEMMA AboveFacts ==
  ASSUME TypeOK, TreeInv, NEW x \in Elements, NEW a \in Path(x)
  PROVE  /\ depth[a] <= depth[x] /\ (a # x => depth[a] < depth[x])
         /\ life[a] = life[x]
<1>1. Forest
  BY TreeIsForest
<1> DEFINE S == {y \in Elements : /\ a \in Path(y)
                                  /\ ~(/\ depth[a] <= depth[y] /\ (a # y => depth[a] < depth[y])
                                       /\ life[a] = life[y])}
<1>2. ASSUME S # {}
      PROVE  FALSE
  <2>1. PICK e \in S : parent[e] \notin S
    BY <1>1, <1>2 DEF Forest, WellFounded
  <2>2. a \in Elements /\ (a = e \/ (parent[e] # None /\ a \in Path(parent[e]) /\ parent[e] \in Elements))
    BY <1>1, PathStep DEF IsIn
  <2>3. a # e
    BY <2>1, <2>2 DEF TypeOK
  <2>4. life[e] = life[parent[e]] /\ depth[e] > depth[parent[e]]
    BY <2>2, <2>3 DEF TreeInv
  <2>5. depth[a] <= depth[parent[e]] /\ life[a] = life[parent[e]]
    BY <2>1, <2>2, <2>3
  <2>6. depth[a] \in Nat /\ depth[e] \in Nat /\ depth[parent[e]] \in Nat
    BY <2>2, <2>3 DEF TypeOK
  <2> QED BY <2>1, <2>4, <2>5, <2>6
<1> QED BY <1>2

\* The active elements are those below the root.
LEMMA ActiveIsBelowRoot ==
  ASSUME TypeOK, TreeInv, NEW x \in Elements
  PROVE  Active(x) <=> IsIn(x, Root)
<1>1. Forest
  BY TreeIsForest
<1> DEFINE S == {y \in Elements : Active(y) /\ ~IsIn(y, Root)}
<1>2. ASSUME S # {}
      PROVE  FALSE
  <2>1. PICK e \in S : parent[e] \notin S
    BY <1>1, <1>2 DEF Forest, WellFounded
  <2>2. IsIn(e, Root) <=> Root = e \/ (parent[e] # None /\ IsIn(parent[e], Root))
    BY <1>1, PathStep
  <2>3. parent[e] # None => parent[e] \in Elements /\ Active(parent[e])
    BY <1>1, <2>1, PathStep DEF TreeInv, Active
  <2> QED BY <2>1, <2>2, <2>3 DEF TreeInv
<1>3. IsIn(x, Root) => Active(x)
  BY AboveFacts DEF IsIn, TreeInv, Active
<1> QED BY <1>2, <1>3

-----------------------------------------------------------------------------
(* Lists without repetition *)

LEMMA Indices ==
  ASSUME NEW S, NEW s \in Seq(S)
  PROVE  /\ Len(s) \in Nat /\ DOMAIN s = 1..Len(s)
         /\ \A k \in 1..Len(s) : s[k] \in S /\ s[k] \in Range(s)
         /\ \A x \in Range(s) : \E k \in 1..Len(s) : x = s[k]
<1>1. Len(s) \in Nat /\ DOMAIN s = 1..Len(s)
  BY LenProperties
<1> QED BY <1>1, ElementOfSeq DEF Range

\* As many places as there are members.
LEMMA LengthOfList ==
  ASSUME NEW S, IsFiniteSet(S), NEW n \in Nat, NEW t \in [1..n -> S], IsInjective(t)
  PROVE  n <= Cardinality(S) /\ (n = Cardinality(S) <=> Range(t) = S)
<1>1. t \in Injection(1..n, S)
  BY Zenon DEF Injection
<1>2. Cardinality(1..n) = n
  <2>1. 1 \in Int /\ n \in Int
    OBVIOUS
  <2>2. Cardinality(1..n) = IF 1 > n THEN 0 ELSE n - 1 + 1
    BY <2>1, FS_Interval, Zenon
  <2> QED BY <2>2
<1>3. Cardinality(1..n) <= Cardinality(S) /\ (Cardinality(1..n) = Cardinality(S) <=> t \in Surjection(1..n, S))
  BY <1>1, FS_Injection, Zenon
<1>4. t \in Surjection(1..n, S) <=> Range(t) = S
  <2>1. DOMAIN t = 1..n /\ Range(t) \subseteq S
    BY DEF Range
  <2>2. t \in Surjection(1..n, S) <=> \A x \in S : \E i \in 1..n : t[i] = x
    BY Zenon DEF Surjection
  <2> QED BY <2>1, <2>2 DEF Range
<1> QED BY <1>2, <1>3, <1>4

LEMMA ListingFacts ==
  ASSUME NEW S \in SUBSET Elements, NEW t \in Listings(S)
  PROVE  /\ t \in Seq(Elements) /\ t \in [1..Len(t) -> S] /\ IsInjective(t)
         /\ Len(t) = Cardinality(S) /\ Range(t) = S
<1>1. IsFiniteSet(S) /\ Cardinality(S) \in Nat
  BY Members, FS_Subset, FS_CardinalityType
<1>2. t \in [1..Cardinality(S) -> S] /\ IsInjective(t)
  BY DEF Listings
<1>3. t \in Seq(S) /\ Len(t) = Cardinality(S)
  BY <1>1, <1>2, IsASeq, LenProperties
<1>4. t \in Seq(Elements)
  BY <1>1, <1>2, IsASeq
<1>5. Range(t) = S
  BY <1>1, <1>2, LengthOfList
<1> QED BY <1>2, <1>3, <1>4, <1>5

\* What sortElements can make of a list.
LEMMA SortingFacts ==
  ASSUME NEW s \in Seq(Elements), IsInjective(s), NEW d, NEW D, NEW t \in Sortings(s, d, D)
  PROVE  /\ t \in Seq(Elements) /\ IsInjective(t)
         /\ Len(t) = Len(s) /\ Range(t) = Range(s)
         /\ \A i, j \in 1..Len(t) : i < j =>
              /\ d[t[i]] <= d[t[j]]
              /\ d[t[i]] = d[t[j]] => t[i] \notin D \/ t[j] \in D
<1>1. Range(s) \in SUBSET Elements /\ Len(s) \in Nat /\ s \in [1..Len(s) -> Range(s)]
  <2>1. s \in [1..Len(s) -> Range(s)]
    BY Indices, LenProperties
  <2> QED BY <2>1, Indices
<1>2. IsFiniteSet(Range(s))
  BY <1>1, Members, FS_Subset
<1>3. Len(s) = Cardinality(Range(s))
  BY <1>1, <1>2, LengthOfList
<1>4. t \in Listings(Range(s))
  BY DEF Sortings
<1>5. /\ t \in Seq(Elements) /\ IsInjective(t)
      /\ Len(t) = Cardinality(Range(s)) /\ Range(t) = Range(s)
  BY <1>1, <1>4, ListingFacts
<1>6. DOMAIN t = 1..Len(t)
  BY <1>5, LenProperties
<1> QED BY <1>3, <1>5, <1>6 DEF Sortings

InSync == list \in Seq(Elements) /\ IsInjective(list) /\ listed = Range(list)

\* Scheduling appends what is not listed and otherwise asks for a new sort.
LEMMA ScheduleFacts ==
  ASSUME InSync, NEW S \in SUBSET Elements, Schedule(S)
  PROVE  /\ InSync' /\ listed' = listed \cup S
         /\ Len(list) <= Len(list')
         /\ \A k \in 1..Len(list) : list'[k] = list[k]
         /\ \A k \in Len(list) + 1..Len(list') : list'[k] \in S
         /\ Len(list') = Len(list) => S \subseteq listed
         /\ ~resort' => ~resort /\ S \cap listed = {}
<1>1. PICK s \in Listings(S \ listed) : list' = list \o s
  BY DEF Schedule
<1>2. /\ s \in Seq(Elements) /\ s \in [1..Len(s) -> S \ listed] /\ IsInjective(s)
      /\ Len(s) = Cardinality(S \ listed) /\ Range(s) = S \ listed
  <2>1. S \ listed \in SUBSET Elements
    OBVIOUS
  <2> QED BY <2>1, <1>1, ListingFacts
<1>3. listed' = listed \cup S /\ (~resort' => ~resort /\ S \cap listed = {})
  BY DEF Schedule
<1>4. /\ list' \in Seq(Elements) /\ Len(list') = Len(list) + Len(s)
      /\ \A k \in 1..Len(list) + Len(s) :
           list'[k] = IF k <= Len(list) THEN list[k] ELSE s[k - Len(list)]
  <2>1. list \in Seq(Elements)
    BY DEF InSync
  <2>2. /\ list \o s \in Seq(Elements) /\ Len(list \o s) = Len(list) + Len(s)
        /\ \A k \in 1..Len(list) + Len(s) :
             (list \o s)[k] = IF k <= Len(list) THEN list[k] ELSE s[k - Len(list)]
    BY <1>2, <2>1, ConcatProperties
  <2> QED BY <1>1, <2>2
<1>5. Len(list) \in Nat /\ Len(s) \in Nat /\ DOMAIN list = 1..Len(list)
  BY <1>2, LenProperties DEF InSync
<1>6. /\ \A k \in 1..Len(list) : list'[k] = list[k] /\ list[k] \in listed
      /\ \A k \in Len(list) + 1..Len(list') :
           k - Len(list) \in 1..Len(s) /\ list'[k] = s[k - Len(list)]
  BY <1>4, <1>5, Indices DEF InSync
<1>7. \A k \in Len(list) + 1..Len(list') : list'[k] \in S \ listed
  BY <1>2, <1>6
<1>8. IsInjective(list')
  <2>1. DOMAIN list' = 1..Len(list')
    BY <1>4, LenProperties
  <2>2. ASSUME NEW i \in 1..Len(list'), NEW j \in 1..Len(list'), list'[i] = list'[j]
        PROVE  i = j
    <3>1. CASE i <= Len(list) /\ j <= Len(list)
      <4>1. i \in 1..Len(list) /\ j \in 1..Len(list)
        BY <1>5, <3>1
      <4> QED BY <1>5, <1>6, <2>2, <4>1 DEF InSync, IsInjective
    <3>2. CASE i > Len(list) /\ j > Len(list)
      <4>1. i \in Len(list) + 1..Len(list') /\ j \in Len(list) + 1..Len(list')
        BY <1>4, <1>5, <3>2
      <4>2. s[i - Len(list)] = s[j - Len(list)] /\ DOMAIN s = 1..Len(s)
        BY <1>2, <1>6, <2>2, <4>1
      <4>3. i - Len(list) = j - Len(list)
        BY <1>2, <1>6, <4>1, <4>2 DEF IsInjective
      <4> QED BY <1>5, <4>1, <4>3
    <3>3. CASE i <= Len(list) /\ j > Len(list)
      <4>1. i \in 1..Len(list) /\ j \in Len(list) + 1..Len(list')
        BY <1>4, <1>5, <3>3
      <4> QED BY <1>6, <1>7, <2>2, <4>1
    <3>4. CASE i > Len(list) /\ j <= Len(list)
      <4>1. j \in 1..Len(list) /\ i \in Len(list) + 1..Len(list')
        BY <1>4, <1>5, <3>4
      <4> QED BY <1>6, <1>7, <2>2, <4>1
    <3> QED BY <1>4, <1>5, <3>1, <3>2, <3>3, <3>4
  <2> QED BY <2>1, <2>2 DEF IsInjective
<1>9. Range(list') = Range(list) \cup Range(s)
  BY <1>1, <1>2, RangeConcatenation DEF InSync
<1>10. Len(list') = Len(list) => S \subseteq listed
  <2>1. ASSUME Len(list') = Len(list)
        PROVE  S \ listed = {}
    <3>1. Cardinality(S \ listed) = 0
      BY <1>2, <1>4, <1>5, <2>1
    <3>2. IsFiniteSet(S \ listed)
      BY Members, FS_Subset
    <3> QED BY <3>1, <3>2, FS_EmptySet
  <2> QED BY <2>1
<1>11. InSync'
  BY <1>2, <1>3, <1>4, <1>8, <1>9 DEF InSync
<1>12. Len(list) <= Len(list')
  BY <1>4, <1>5
<1>13. /\ \A k \in 1..Len(list) : list'[k] = list[k]
       /\ \A k \in Len(list) + 1..Len(list') : list'[k] \in S
  BY <1>6, <1>7
<1> QED BY <1>3, <1>10, <1>11, <1>12, <1>13, Zenon

-----------------------------------------------------------------------------
(* The builds in progress *)

Frames == [el : Elements, todo : SUBSET Elements]

LEMMA TopOfStack ==
  ASSUME TypeOK
  PROVE  /\ Len(stack) \in Nat
         /\ \A i \in 1..Len(stack) : stack[i] \in Frames /\ stack[i].el \in Elements
         /\ stack # <<>> => Len(stack) \in 1..Len(stack)
         /\ stack = <<>> => Len(stack) = 0
         /\ \A e : Builds(e) => /\ stack # <<>> /\ e = stack[Len(stack)].el /\ e \in Elements
<1>1. stack \in Seq(Frames)
  BY DEF TypeOK, Frames
<1>2. Len(stack) \in Nat /\ \A i \in 1..Len(stack) : stack[i] \in Frames
  BY <1>1, ElementOfSeq, LenProperties
<1>3. \A i \in 1..Len(stack) : stack[i].el \in Elements
  BY <1>2 DEF Frames
<1>4. stack # <<>> => Len(stack) # 0
  BY <1>1, EmptySeq, LenProperties
<1>5. stack # <<>> => Len(stack) \in 1..Len(stack)
  BY <1>2, <1>4
<1>6. stack = <<>> => Len(stack) = 0
  BY EmptySeq
<1> QED BY <1>2, <1>3, <1>5, <1>6 DEF Builds

LEMMA DoneFacts ==
  ASSUME TypeOK, stack # <<>>, NEW c
  PROVE  /\ Done(c) \in Seq(Frames) /\ Len(Done(c)) = Len(stack)
         /\ \A i \in 1..Len(stack) : Done(c)[i].el = stack[i].el
<1> DEFINE n == Len(stack)
           f == [stack[n] EXCEPT !.todo = @ \ {c}]
<1>1. n \in 1..n /\ stack \in Seq(Frames) /\ stack[n] \in Frames
  BY TopOfStack DEF TypeOK, Frames
<1>2. f \in Frames /\ f.el = stack[n].el
  BY <1>1 DEF Frames
<1>3. Done(c) = [stack EXCEPT ![n] = f]
  BY DEF Done
<1> HIDE DEF f, n
<1>4. /\ Done(c) \in Seq(Frames) /\ Len(Done(c)) = Len(stack)
      /\ \A i \in 1..Len(stack) : Done(c)[i] = IF i = n THEN f ELSE stack[i]
  BY <1>1, <1>2, <1>3, ExceptSeq DEF n
<1> QED BY <1>2, <1>4

LEMMA PushFacts ==
  ASSUME TypeOK, NEW r \in Seq(Frames), Len(r) = Len(stack),
         \A i \in 1..Len(stack) : r[i].el = stack[i].el,
         NEW f \in Frames, stack' = Append(r, f)
  PROVE  /\ stack' \in Seq(Frames) /\ Len(stack') = Len(stack) + 1 /\ stack' # <<>>
         /\ \A i \in 1..Len(stack) : stack'[i].el = stack[i].el
         /\ stack'[Len(stack) + 1].el = f.el
<1>1. /\ stack' \in Seq(Frames) /\ Len(stack') = Len(stack) + 1
      /\ \A i \in 1..Len(stack) : stack'[i] = r[i]
      /\ stack'[Len(stack) + 1] = f
  BY AppendProperties
<1>2. Len(stack) \in Nat
  BY TopOfStack
<1>3. stack' # <<>>
  BY <1>1, <1>2, EmptySeq
<1> QED BY <1>1, <1>3

LEMMA PopFacts ==
  ASSUME TypeOK, stack # <<>>, stack' = SubSeq(stack, 1, Len(stack) - 1)
  PROVE  /\ stack' \in Seq(Frames) /\ Len(stack') = Len(stack) - 1
         /\ \A i \in 1..Len(stack) - 1 : stack'[i].el = stack[i].el
         /\ Len(stack) = 1 <=> stack' = <<>>
<1>1. Len(stack) \in Nat /\ Len(stack) # 0 /\ stack \in Seq(Frames)
  BY TopOfStack DEF TypeOK, Frames
<1>2. /\ stack' \in Seq(Frames) /\ Len(stack') = Len(stack) - 1
      /\ \A i \in 1..Len(stack) - 1 : stack'[i] = stack[i]
  <2> DEFINE n == Len(stack) - 1
             r == SubSeq(stack, 1, n)
  <2>1. \A i \in 1..n : stack[i] \in Frames
    BY <1>1, ElementOfSeq
  <2>2. 1 \in Int /\ n \in Int /\ n \in Nat /\ n = Len(stack) - 1
    BY <1>1
  <2> HIDE DEF n
  <2>3. /\ r \in Seq(Frames) /\ Len(r) = IF 1 <= n THEN n - 1 + 1 ELSE 0
        /\ \A i \in 1..n - 1 + 1 : r[i] = stack[1 + i - 1]
    BY <2>1, <2>2, SubSeqProperties
  <2>4. \A i \in 1..n : i \in 1..n - 1 + 1 /\ 1 + i - 1 = i
    BY <2>2
  <2> HIDE DEF r
  <2>5. Len(r) = n
    BY <2>2, <2>3
  <2>6. \A i \in 1..n : r[i] = stack[i]
    BY <2>3, <2>4
  <2>7. stack' = r
    BY <2>2 DEF r
  <2> QED BY <2>2, <2>3, <2>5, <2>6, <2>7
<1>3. Len(stack) = 1 <=> stack' = <<>>
  <2>1. stack' = <<>> <=> Len(stack') = 0
    BY <1>2, EmptySeq
  <2> QED BY <1>1, <1>2, <2>1
<1> QED BY <1>2, <1>3

\* The innermost builds keep their places while one ends or another begins.
LEMMA StackStays ==
  ASSUME TypeOK, StackInv, phase' = "scope", NEW m \in 0..Len(stack),
         Len(stack') \in {m, m + 1},
         \A i \in 1..m : LET e == stack[i].el IN
           stack'[i].el = e /\ life'[e] = life[e] /\ depth'[e] = depth[e]
             /\ parent'[e] = parent[e],
         Len(stack') = m + 1 =>
           LET c == stack'[m + 1].el IN
             /\ life'[c] = "active" /\ depth'[c] \in Nat
             /\ m > 0 => parent'[c] = stack[m].el /\ depth'[c] > depth[stack[m].el]
  PROVE  StackInv'
<1>1. Len(stack) \in Nat /\ \A i \in 1..Len(stack) : stack[i].el \in Elements
  BY TopOfStack
<1>2. ASSUME NEW i \in 1..m
      PROVE  /\ life'[stack'[i].el] = "active"
             /\ i > 1 => /\ parent'[stack'[i].el] = stack'[i - 1].el
                         /\ depth'[stack'[i].el] > depth'[stack'[1].el]
  <2>1. i \in 1..Len(stack) /\ 1 \in 1..m /\ (i > 1 => i - 1 \in 1..m)
    BY <1>1
  <2> QED BY <2>1 DEF StackInv, Active
<1>3. ASSUME Len(stack') = m + 1
      PROVE  /\ life'[stack'[m + 1].el] = "active"
             /\ m + 1 > 1 => /\ parent'[stack'[m + 1].el] = stack'[m].el
                             /\ depth'[stack'[m + 1].el] > depth'[stack'[1].el]
  <2>1. CASE m = 0
    BY <1>3, <2>1 DEF Active
  <2>2. CASE m > 0
    <3>1. m \in 1..m /\ 1 \in 1..m /\ m \in 1..Len(stack) /\ 1 \in 1..Len(stack)
      BY <1>1, <2>2
    <3>2. /\ parent'[stack'[m + 1].el] = stack'[m].el
          /\ depth'[stack'[m + 1].el] > depth[stack[m].el]
          /\ depth'[stack'[1].el] = depth[stack[1].el]
          /\ life'[stack'[m + 1].el] = "active"
      BY <1>3, <2>2, <3>1
    <3>3. depth[stack[m].el] >= depth[stack[1].el]
      <4>1. depth[stack[m].el] \in Nat
        BY <1>1, <3>1 DEF TypeOK
      <4>2. m > 1 => depth[stack[m].el] > depth[stack[1].el]
        BY <3>1 DEF StackInv
      <4>3. depth[stack[1].el] \in Nat
        BY <1>1, <3>1 DEF TypeOK
      <4>4. m = 1 \/ m > 1
        BY <2>2
      <4> QED BY <4>1, <4>2, <4>3, <4>4
    <3>4. depth[stack[m].el] \in Nat /\ depth[stack[1].el] \in Nat /\ depth'[stack'[m + 1].el] \in Nat
      BY <1>1, <1>3, <3>1 DEF TypeOK
    <3> QED BY <3>2, <3>3, <3>4 DEF Active
  <2> QED BY <1>1, <2>1, <2>2
<1>4. ASSUME NEW i \in 1..Len(stack')
      PROVE  /\ life'[stack'[i].el] = "active"
             /\ i > 1 => /\ parent'[stack'[i].el] = stack'[i - 1].el
                         /\ depth'[stack'[i].el] > depth'[stack'[1].el]
  <2>1. i \in 1..m \/ (i = m + 1 /\ Len(stack') = m + 1 /\ i - 1 = m)
    OBVIOUS
  <2> QED BY <1>2, <1>3, <2>1
<1> QED BY <1>4 DEF StackInv, Active

\* What is above a build in progress is above the innermost one.
LEMMA StackAbove ==
  ASSUME TypeOK, TreeInv, StackInv, NEW i \in 1..Len(stack), NEW c \in Path(stack[i].el)
  PROVE  c \in Path(stack[Len(stack)].el)
<1> DEFINE n == Len(stack)
           S == {j \in 1..n : c \in Path(stack[j].el)}
<1>1. n \in Nat /\ S \in SUBSET (0..n) /\ i \in S
  BY TopOfStack
<1> DEFINE m == Max(S)
<1>2. m \in S /\ \A y \in S : y <= m
  <2> HIDE DEF S, n
  <2> QED BY <1>1, GreatestElement
<1>3. ASSUME m < n
      PROVE  FALSE
  <2>1. m + 1 \in 1..n /\ m \in 1..n /\ m + 1 > 1 /\ m = (m + 1) - 1
    BY <1>1, <1>2, <1>3
  <2>2. parent[stack[m + 1].el] = stack[m].el /\ stack[m + 1].el \in Elements
    <3> HIDE DEF m
    <3> QED BY <2>1, TopOfStack DEF StackInv
  <2>3. stack[m].el \in Path(stack[m + 1].el) /\ Forest
    BY <2>2, TreeIsForest, PathOf, <2>1, TopOfStack, PathHas
  <2>4. c \in Path(stack[m + 1].el)
    BY <1>2, <2>2, <2>3, PathWithin
  <2>5. m + 1 \in S
    BY <2>1, <2>4
  <2> QED BY <1>1, <1>2, <2>1, <2>5
<1>4. m = n
  BY <1>1, <1>2, <1>3
<1> QED BY <1>2, <1>4

\* The builds in progress are at least as deep as the outermost.
LEMMA StackDepth ==
  ASSUME TypeOK, StackInv, NEW i \in 1..Len(stack)
  PROVE  1 \in 1..Len(stack) /\ depth[stack[1].el] <= depth[stack[i].el]
<1>1. Len(stack) \in Nat /\ 1 \in 1..Len(stack)
  BY TopOfStack
<1>2. depth[stack[i].el] \in Nat /\ depth[stack[1].el] \in Nat
  BY <1>1, TopOfStack DEF TypeOK
<1> QED BY <1>1, <1>2 DEF StackInv

-----------------------------------------------------------------------------
(* How the tree changes *)

\* A subtree has, with an element, what hangs from it.
LEMMA SubtreeFacts ==
  ASSUME TypeOK, TreeInv, NEW c \in Elements
  PROVE  /\ Forest
         /\ \A x \in Elements : x # c => (IsIn(x, c) <=> parent[x] # None /\ IsIn(parent[x], c))
         /\ \A x \in Elements : parent[x] # None => parent[x] \in Elements
         /\ IsIn(c, c) /\ (IsIn(Root, c) => c = Root)
         /\ parent[c] # None => ~IsIn(parent[c], c)
<1>1. Forest
  BY TreeIsForest
<1>2. /\ \A x \in Elements : x # c => (IsIn(x, c) <=> parent[x] # None /\ IsIn(parent[x], c))
      /\ \A x \in Elements : parent[x] # None => parent[x] \in Elements
      /\ IsIn(c, c)
  BY <1>1, PathStep
<1>3. IsIn(Root, c) => c = Root
  BY <1>2, Members DEF TreeInv
<1>4. parent[c] # None => ~IsIn(parent[c], c)
  BY <1>1, NoLoop DEF IsIn
<1> QED BY <1>1, <1>2, <1>3, <1>4

\* A subtree is taken out of the tree.
LEMMA TreeLosesSubtree ==
  ASSUME TypeOK, TreeInv, NEW c \in Elements, parent[c] # None,
         parent' = [parent EXCEPT ![c] = None], depth' = depth,
         life' = [x \in Elements |-> IF IsIn(x, c) THEN "inactive" ELSE life[x]]
  PROVE  TreeInv'
<1>1. c # Root /\ ~IsIn(Root, c)
  BY SubtreeFacts DEF TreeInv
<1>2. \A x \in Elements : parent'[x] = IF x = c THEN None ELSE parent[x]
  BY DEF TypeOK
<1>3. ASSUME NEW x \in Elements
      PROVE  /\ parent'[x] = None /\ life'[x] = "active" => x = Root
             /\ parent'[x] # None =>
                  life'[x] = life'[parent'[x]] /\ depth'[x] > depth'[parent'[x]]
             /\ life'[x] = "unmounted" => parent'[x] = None
  <2>1. CASE x = c
    BY <1>2, <2>1, SubtreeFacts
  <2>2. CASE x # c
    <3>1. parent'[x] = parent[x]
      BY <1>2, <2>2
    <3>2. parent[x] # None => life[x] = life[parent[x]] /\ depth[x] > depth[parent[x]]
                              /\ parent[x] \in Elements
      BY SubtreeFacts DEF TreeInv
    <3>3. IsIn(x, c) <=> parent[x] # None /\ IsIn(parent[x], c)
      BY <2>2, SubtreeFacts
    <3> QED BY <3>1, <3>2, <3>3 DEF TreeInv, Active
  <2> QED BY <2>1, <2>2
<1>4. parent'[Root] = None /\ life'[Root] = "active"
  BY <1>1, <1>2, Members DEF TreeInv, Active
<1> QED BY <1>3, <1>4 DEF TreeInv, Active

\* A new element is hung into the tree.
LEMMA TreeGainsElement ==
  ASSUME TypeOK, TreeInv, NEW c \in Elements, NEW e \in Elements,
         life[c] = "unmounted", Active(e),
         parent' = [parent EXCEPT ![c] = e], depth' = [depth EXCEPT ![c] = depth[e] + 1],
         life' = [life EXCEPT ![c] = "active"]
  PROVE  TreeInv'
<1>1. c # Root /\ c # e /\ e # None
  BY Members DEF TreeInv, Active
<1>2. /\ \A x \in Elements : parent'[x] = IF x = c THEN e ELSE parent[x]
      /\ \A x \in Elements : depth'[x] = IF x = c THEN depth[e] + 1 ELSE depth[x]
      /\ \A x \in Elements : life'[x] = IF x = c THEN "active" ELSE life[x]
  BY DEF TypeOK
<1>3. ASSUME NEW x \in Elements, x # c
      PROVE  parent[x] # c
  <2>1. parent[x] = c => life[x] = life[c] /\ parent[x] # None
    BY Members DEF TreeInv
  <2> QED BY <2>1 DEF TreeInv
<1>4. ASSUME NEW x \in Elements
      PROVE  /\ parent'[x] = None /\ life'[x] = "active" => x = Root
             /\ parent'[x] # None =>
                  life'[x] = life'[parent'[x]] /\ depth'[x] > depth'[parent'[x]]
             /\ life'[x] = "unmounted" => parent'[x] = None
  <2>1. CASE x = c
    <3>1. depth[e] \in Nat
      BY DEF TypeOK
    <3>2. /\ parent'[x] = e /\ depth'[x] = depth[e] + 1 /\ life'[x] = "active"
          /\ depth'[e] = depth[e] /\ life'[e] = life[e]
      BY <1>1, <1>2, <2>1
    <3> QED BY <1>1, <3>1, <3>2 DEF Active
  <2>2. CASE x # c
    <3>1. parent'[x] = parent[x] /\ depth'[x] = depth[x] /\ life'[x] = life[x]
      BY <1>2, <2>2
    <3>2. parent[x] # None => parent[x] \in Elements /\ parent[x] # c
      BY <1>3, <2>2, SubtreeFacts
    <3>3. parent[x] # None => depth'[parent[x]] = depth[parent[x]] /\ life'[parent[x]] = life[parent[x]]
      BY <1>2, <3>2
    <3> QED BY <3>1, <3>3 DEF TreeInv, Active
  <2> QED BY <2>1, <2>2
<1>5. parent'[Root] = None /\ life'[Root] = "active"
  BY <1>1, <1>2, Members DEF TreeInv, Active
<1> QED BY <1>4, <1>5 DEF TreeInv, Active

\* The larger of two numbers.
LEMMA MaxOfTwo ==
  ASSUME NEW a \in Nat, NEW b \in Nat
  PROVE  /\ Max({a, b}) \in Nat /\ Max({a, b}) >= a /\ Max({a, b}) >= b
         /\ Max({a, b}) = a \/ Max({a, b}) = b
<1> DEFINE m == IF a >= b THEN a ELSE b
<1>1. m \in {a, b} /\ \A y \in {a, b} : m >= y
  OBVIOUS
<1>2. Max({a, b}) \in {a, b} /\ \A y \in {a, b} : Max({a, b}) >= y
  BY <1>1 DEF Max
<1> QED BY <1>2

\* updateDepth moves a subtree down as far as it has to.
LEMMA NewDepthFacts ==
  ASSUME TypeOK, TreeInv, NEW c \in Elements, NEW e \in Elements
  PROVE  /\ NewDepth(e, c) \in [Elements -> Nat]
         /\ \A x \in Elements :
              /\ ~IsIn(x, c) => NewDepth(e, c)[x] = depth[x]
              /\ IsIn(x, c) => NewDepth(e, c)[x] > depth[e] /\ NewDepth(e, c)[x] >= depth[x]
              /\ IsIn(x, c) /\ x # c => NewDepth(e, c)[x] > NewDepth(e, c)[parent[x]]
<1> DEFINE d == NewDepth(e, c)
           Low(x) == depth[e] + 1 + Distance(c, x)
<1>1. \A x \in Elements : d[x] = IF IsIn(x, c) THEN Max({depth[x], Low(x)}) ELSE depth[x]
  BY DEF NewDepth
<1>2. ASSUME NEW x \in Elements, IsIn(x, c)
      PROVE  /\ Low(x) \in Nat /\ Low(x) > depth[e] /\ depth[x] \in Nat
             /\ Max({depth[x], Low(x)}) \in Nat
             /\ Max({depth[x], Low(x)}) >= depth[x] /\ Max({depth[x], Low(x)}) >= Low(x)
             /\ Max({depth[x], Low(x)}) = depth[x] \/ Max({depth[x], Low(x)}) = Low(x)
  <2>1. Distance(c, x) \in Nat
    BY <1>2, SubtreeFacts, DistanceStep DEF IsIn
  <2>2. depth[e] \in Nat /\ depth[x] \in Nat
    BY DEF TypeOK
  <2>3. Low(x) \in Nat /\ Low(x) > depth[e]
    BY <2>1, <2>2
  <2> HIDE DEF Low
  <2> QED BY <2>2, <2>3, MaxOfTwo
<1>3. ASSUME NEW x \in Elements, IsIn(x, c)
      PROVE  d[x] \in Nat /\ d[x] > depth[e] /\ d[x] >= depth[x]
  <2>1. d[x] = Max({depth[x], Low(x)}) /\ depth[e] \in Nat
    BY <1>1, <1>3 DEF TypeOK
  <2> HIDE DEF d, Low
  <2> QED BY <1>2, <1>3, <2>1
<1>4. ASSUME NEW x \in Elements, IsIn(x, c), x # c
      PROVE  d[x] > d[parent[x]]
  <2> DEFINE p == parent[x]
  <2>1. p # None /\ p \in Elements /\ IsIn(p, c)
    BY <1>4, SubtreeFacts
  <2>2. Distance(c, x) = Distance(c, p) + 1 /\ Distance(c, p) \in Nat
    BY <1>4, <2>1, SubtreeFacts, DistanceStep DEF IsIn
  <2>3. depth[x] > depth[p] /\ depth[e] \in Nat
    BY <2>1 DEF TreeInv, TypeOK
  <2>4. Low(x) > Low(p)
    BY <2>2, <2>3
  <2>5. d[x] = Max({depth[x], Low(x)}) /\ d[p] = Max({depth[p], Low(p)})
    BY <1>1, <1>4, <2>1
  <2>6. /\ Low(x) \in Nat /\ depth[x] \in Nat /\ d[x] \in Nat
        /\ d[x] >= depth[x] /\ d[x] >= Low(x)
    BY <1>2, <1>4, <2>5
  <2>7. /\ Low(p) \in Nat /\ depth[p] \in Nat
        /\ d[p] = depth[p] \/ d[p] = Low(p)
    BY <1>2, <2>1, <2>5
  <2> HIDE DEF d, Low, p
  <2>8. d[x] > d[p]
    BY <2>3, <2>4, <2>6, <2>7
  <2> QED BY <2>8 DEF p
<1>5. \A x \in Elements : ~IsIn(x, c) => d[x] = depth[x] /\ depth[x] \in Nat
  BY <1>1 DEF TypeOK
<1>6. d \in [Elements -> Nat]
  <2>1. \A x \in Elements : d[x] \in Nat
    BY <1>3, <1>5
  <2>2. d = [x \in Elements |-> d[x]]
    BY DEF NewDepth
  <2> HIDE DEF d
  <2> QED BY <2>1, <2>2
<1> QED BY <1>3, <1>4, <1>5, <1>6

\* A subtree is hung from another place of the tree.
LEMMA TreeMovesSubtree ==
  ASSUME TypeOK, TreeInv, NEW c \in Elements, NEW e \in Elements,
         c # Root, Active(e), ~IsIn(e, c),
         parent' = [parent EXCEPT ![c] = e], depth' = NewDepth(e, c),
         life' = [x \in Elements |-> IF IsIn(x, c) THEN "active" ELSE life[x]]
  PROVE  TreeInv'
<1>1. e # None /\ ~IsIn(Root, c)
  BY SubtreeFacts, Members
<1>2. \A x \in Elements : parent'[x] = IF x = c THEN e ELSE parent[x]
  BY DEF TypeOK
<1>3. ASSUME NEW x \in Elements
      PROVE  /\ parent'[x] = None /\ life'[x] = "active" => x = Root
             /\ parent'[x] # None =>
                  life'[x] = life'[parent'[x]] /\ depth'[x] > depth'[parent'[x]]
             /\ life'[x] = "unmounted" => parent'[x] = None
  <2>1. CASE x = c
    <3>1. IsIn(x, c) /\ parent'[x] = e
      BY <1>2, <2>1, SubtreeFacts
    <3>2. depth'[x] > depth[e] /\ depth'[e] = depth[e]
      BY <3>1, NewDepthFacts
    <3> QED BY <1>1, <3>1, <3>2 DEF Active
  <2>2. CASE x # c
    <3>1. parent'[x] = parent[x]
      BY <1>2, <2>2
    <3>2. parent[x] # None => life[x] = life[parent[x]] /\ depth[x] > depth[parent[x]]
                              /\ parent[x] \in Elements
      BY SubtreeFacts DEF TreeInv
    <3>3. IsIn(x, c) <=> parent[x] # None /\ IsIn(parent[x], c)
      BY <2>2, SubtreeFacts
    <3>4. parent[x] # None => depth'[x] > depth'[parent[x]]
      BY <2>2, <3>2, <3>3, NewDepthFacts
    <3> QED BY <3>1, <3>2, <3>3, <3>4 DEF TreeInv, Active
  <2> QED BY <2>1, <2>2
<1>4. parent'[Root] = None /\ life'[Root] = "active"
  BY <1>1, <1>2, Members DEF TreeInv, Active
<1> QED BY <1>3, <1>4 DEF TreeInv, Active

\* The inactive elements are unmounted.
LEMMA TreeFinalized ==
  ASSUME TypeOK, TreeInv, FinalizeTree
  PROVE  TreeInv'
<1>1. \A x \in Elements :
        /\ life'[x] = IF life[x] = "inactive" THEN "unmounted" ELSE life[x]
        /\ parent'[x] = IF life[x] = "inactive" THEN None ELSE parent[x]
        /\ depth'[x] = IF life[x] = "inactive" THEN 0 ELSE depth[x]
  BY DEF FinalizeTree
<1>2. ASSUME NEW x \in Elements
      PROVE  /\ parent'[x] = None /\ life'[x] = "active" => x = Root
             /\ parent'[x] # None =>
                  life'[x] = life'[parent'[x]] /\ depth'[x] > depth'[parent'[x]]
             /\ life'[x] = "unmounted" => parent'[x] = None
  <2>1. parent[x] # None => life[x] = life[parent[x]] /\ depth[x] > depth[parent[x]]
                            /\ parent[x] \in Elements
    BY DEF TreeInv, TypeOK
  <2> QED BY <1>1, <2>1 DEF TreeInv, Active
<1>3. parent'[Root] = None /\ life'[Root] = "active"
  BY <1>1, Members DEF TreeInv, Active
<1> QED BY <1>2, <1>3 DEF TreeInv, Active

-----------------------------------------------------------------------------
(* BuildScope's list from one step to the next *)

\* Just after the right-most clean element.
LEMMA WalkBackFacts ==
  ASSUME NEW t, NEW D, NEW n \in Nat
  PROVE  \E p \in 0..n : /\ WalkBack(t, n + 1, D) = 1 + p
                         /\ p > 0 => t[p] \notin D
                         /\ \A k \in p + 1..n : t[k] \in D
<1> DEFINE T == {0} \cup {k \in 1..n + 1 - 1 : t[k] \notin D}
<1>1. T \in SUBSET (0..n) /\ T # {} /\ n + 1 - 1 = n
  OBVIOUS
<1>2. Max(T) \in T /\ \A y \in T : y <= Max(T)
  BY <1>1, GreatestElement
<1>3. WalkBack(t, n + 1, D) = 1 + Max(T)
  BY DEF WalkBack
<1>4. \A k \in 1..n : t[k] \notin D => k \in T
  BY <1>1
<1>5. \A m \in T : m \in 0..n /\ (m > 0 => t[m] \notin D)
  BY <1>1
<1> DEFINE p == Max(T)
<1> HIDE DEF T
<1>6. p \in 0..n /\ (p > 0 => t[p] \notin D)
  BY <1>2, <1>5
<1>7. \A k \in p + 1..n : t[k] \in D
  BY <1>2, <1>4, <1>6
<1> QED BY <1>3, <1>6, <1>7

\* The list keeps its members.
LEMMA AdvanceFacts ==
  ASSUME TypeOK, NEW D, Advance(D)
  PROVE  /\ list' \in Seq(Elements) /\ IsInjective(list')
         /\ Len(list') = Len(list) /\ Range(list') = Range(list)
         /\ resort' \in BOOLEAN /\ count' \in Nat /\ index' \in Nat \ {0}
<1>1. list \in Seq(Elements) /\ IsInjective(list) /\ index \in Nat \ {0} /\ count \in Nat
      /\ resort \in BOOLEAN
  BY DEF TypeOK
<1>2. CASE count < Len(list) \/ resort
  <2>1. list' \in Sortings(list, depth, D) /\ resort' = FALSE /\ count' = Len(list)
        /\ index' = WalkBack(list', index + 1, D)
    BY <1>2 DEF Advance
  <2>2. /\ list' \in Seq(Elements) /\ IsInjective(list')
        /\ Len(list') = Len(list) /\ Range(list') = Range(list)
    BY <1>1, <2>1, SortingFacts
  <2>3. PICK p \in 0..index : WalkBack(list', index + 1, D) = 1 + p
    BY <1>1, WalkBackFacts
  <2>4. Len(list) \in Nat
    BY <1>1, LenProperties
  <2>5. resort' \in BOOLEAN /\ count' \in Nat
    BY <2>1, <2>4
  <2>6. index' \in Nat \ {0}
    BY <1>1, <2>1, <2>3
  <2> QED BY <2>2, <2>5, <2>6
<1>3. CASE ~(count < Len(list) \/ resort)
  BY <1>1, <1>3 DEF Advance
<1> QED BY <1>2, <1>3

LEMMA ListStays ==
  ASSUME ListInv, listed' = listed, Range(list') = Range(list),
         \/ phase' = "scope"
         \/ phase' = "callbacks",
         \A x \in listed : life'[x] # "unmounted"
  PROVE  ListInv'
<1>1. \A x \in listed' : life'[x] # "unmounted"
  BY Zenon
<1>2. listed' = Range(list')
  BY DEF ListInv
<1>3. phase' # "idle" /\ phase' # "late"
  OBVIOUS
<1> QED BY <1>1, <1>2, <1>3 DEF ListInv

LEMMA ListGrows ==
  ASSUME TypeOK, ListInv, NEW S \in SUBSET Elements, Schedule(S), phase' = phase,
         phase # "late", Root \in S => phase # "idle",
         \A x \in listed \cup S : life'[x] # "unmounted"
  PROVE  /\ ListInv'
         /\ list' \in Seq(Elements) /\ IsInjective(list') /\ listed' \subseteq Elements
         /\ resort' \in BOOLEAN /\ scheduled' \in BOOLEAN /\ requested' \in BOOLEAN
<1>1. InSync
  BY DEF InSync, TypeOK, ListInv
<1>2. InSync' /\ listed' = listed \cup S
  BY <1>1, ScheduleFacts
<1>3. list' \in Seq(Elements) /\ IsInjective(list') /\ listed' = Range(list')
  BY <1>2 DEF InSync
<1>4. resort' \in BOOLEAN /\ scheduled' \in BOOLEAN /\ requested' \in BOOLEAN
  BY DEF Schedule, TypeOK
<1>5. listed' \subseteq Elements
  BY <1>2 DEF TypeOK
<1>6. phase' = "idle" => Root \notin listed'
  BY <1>2 DEF ListInv
<1>7. \A x \in listed' : life'[x] # "unmounted"
  BY <1>2, Zenon
<1>8. phase' # "late"
  OBVIOUS
<1>9. ListInv'
  BY <1>3, <1>6, <1>7, <1>8 DEF ListInv
<1> QED BY <1>3, <1>4, <1>5, <1>9

\* A build that pushes no frame keeps the stack as it is.
LEMMA StackSame ==
  ASSUME TypeOK, StackInv, phase' = phase, stack' = stack,
         \A i \in 1..Len(stack) : LET e == stack[i].el IN
           life'[e] = life[e] /\ depth'[e] = depth[e] /\ parent'[e] = parent[e]
  PROVE  StackInv'
<1>1. CASE stack = <<>>
  <2>1. stack' = <<>> /\ Len(stack') = 0
    BY <1>1, EmptySeq
  <2> QED BY <2>1 DEF StackInv
<1>2. CASE stack # <<>>
  <2>1. phase' = "scope" /\ Len(stack) \in Nat
    BY <1>2, TopOfStack DEF StackInv
  <2>2. Len(stack) \in 0..Len(stack) /\ Len(stack') = Len(stack)
    BY <2>1
  <2>3. \A i \in 1..Len(stack) : LET e == stack[i].el IN
           stack'[i].el = e /\ life'[e] = life[e] /\ depth'[e] = depth[e]
             /\ parent'[e] = parent[e]
    OBVIOUS
  <2>4. Len(stack') # Len(stack) + 1
    BY <2>1
  <2> QED BY <2>1, <2>2, <2>3, <2>4, StackStays
<1> QED BY <1>1, <1>2

-----------------------------------------------------------------------------
(* IInv is inductive *)

\* The tree that RunApp has mounted.
LEMMA MountedTree ==
  ASSUME Init
  PROVE  TypeOK /\ TreeInv
<1>1. /\ parent \in [Elements -> Elements \cup {None}] /\ parent[Root] = None
      /\ \A e \in Elements : parent[e] \notin {Root, None} => parent[parent[e]] # None
      /\ WellFounded(parent)
  BY BuildOwnerAssumption DEF Init
<1>2. Forest
  BY <1>1 DEF Forest
<1>3. \A x \in Elements : parent[x] # None => parent[x] \in Elements
  BY <1>1
<1>4. IsIn(Root, Root)
  BY <1>2, Members, PathHas DEF IsIn
<1>5. \A x \in Elements : parent[x] # None => IsIn(x, Root)
  <2> DEFINE S == {x \in Elements : parent[x] # None /\ ~IsIn(x, Root)}
  <2> SUFFICES ASSUME S # {} PROVE FALSE
    OBVIOUS
  <2>1. PICK x \in S : parent[x] \notin S
    BY <1>1 DEF WellFounded
  <2>2. x \in Elements /\ parent[x] # None /\ ~IsIn(x, Root) /\ parent[x] \in Elements
    BY <1>3, <2>1
  <2>3. ~IsIn(parent[x], Root)
    BY <1>2, <2>2, PathStep
  <2>4. parent[x] # Root
    BY <1>4, <2>3
  <2>5. parent[parent[x]] # None
    BY <1>1, <2>2, <2>4
  <2> QED BY <2>1, <2>2, <2>3, <2>5
<1>6. \A x \in Elements : IsIn(x, Root) =>
        /\ Distance(Root, x) \in Nat
        /\ x # Root => /\ Distance(Root, x) = Distance(Root, parent[x]) + 1
                       /\ parent[x] # None /\ IsIn(parent[x], Root)
                       /\ Distance(Root, parent[x]) \in Nat
  <2> SUFFICES ASSUME NEW x \in Elements, IsIn(x, Root)
               PROVE  /\ Distance(Root, x) \in Nat
                      /\ x # Root =>
                           /\ Distance(Root, x) = Distance(Root, parent[x]) + 1
                           /\ parent[x] # None /\ IsIn(parent[x], Root)
                           /\ Distance(Root, parent[x]) \in Nat
    OBVIOUS
  <2>1. Root \in Path(x)
    BY DEF IsIn
  <2>2. /\ Distance(Root, x) \in Nat
        /\ x # Root => Distance(Root, x) = Distance(Root, parent[x]) + 1
    BY <1>2, <2>1, DistanceStep
  <2>3. ASSUME x # Root PROVE parent[x] \in Elements /\ parent[x] # None /\ IsIn(parent[x], Root)
    BY <1>2, <1>3, <2>3, PathStep
  <2>4. ASSUME x # Root PROVE Distance(Root, parent[x]) \in Nat
    <3>1. Root \in Path(parent[x]) /\ parent[x] \in Elements
      BY <2>3, <2>4 DEF IsIn
    <3> QED BY <1>2, <3>1, DistanceStep
  <2> QED BY <2>2, <2>3, <2>4
<1>7. \A x \in Elements :
        /\ life[x] = IF IsIn(x, Root) THEN "active" ELSE "unmounted"
        /\ depth[x] = IF IsIn(x, Root) THEN Distance(Root, x) + 1 ELSE 0
  BY DEF Init
<1>8. TypeOK
  <2>1. life \in [Elements -> {"active", "inactive", "unmounted"}]
    BY DEF Init
  <2>2. depth = [x \in Elements |-> depth[x]]
    BY DEF Init
  <2>3. \A x \in Elements : depth[x] \in Nat
    BY <1>6, <1>7
  <2>4. depth \in [Elements -> Nat]
    BY <2>2, <2>3
  <2>5. /\ dirty = {} /\ listed = {} /\ resort = FALSE /\ scheduled = FALSE
        /\ requested = FALSE /\ phase = "idle" /\ index = 1 /\ count = 0 /\ moved = {}
    BY DEF Init
  <2>6. list = <<>> /\ stack = <<>>
    BY DEF Init
  <2>7. list \in Seq(Elements) /\ stack \in Seq([el : Elements, todo : SUBSET Elements])
    BY <2>6, EmptySeq
  <2>8. DOMAIN list = {}
    BY <2>6, EmptySeq
  <2>9. IsInjective(list)
    BY <2>8 DEF IsInjective
  <2>10. /\ dirty \subseteq Elements /\ listed \subseteq Elements
         /\ resort \in BOOLEAN /\ scheduled \in BOOLEAN /\ requested \in BOOLEAN
         /\ phase \in {"idle", "callbacks", "scope", "late"} /\ moved \subseteq Elements
    BY <2>5
  <2>11. index \in Nat \ {0} /\ count \in Nat
    BY <2>5
  <2> QED BY <1>1, <2>1, <2>4, <2>7, <2>9, <2>10, <2>11, Zenon DEF TypeOK
<1>9. TreeInv
  <2>1. Active(Root)
    BY <1>4, <1>7, Members DEF Active
  <2>2. ASSUME NEW x \in Elements
        PROVE  /\ parent[x] = None /\ Active(x) => x = Root
               /\ parent[x] # None =>
                    life[x] = life[parent[x]] /\ depth[x] > depth[parent[x]]
               /\ life[x] = "unmounted" => parent[x] = None
    <3>1. CASE x = Root
      BY <1>1, <2>1, <3>1 DEF Active
    <3>2. CASE x # Root /\ IsIn(x, Root)
      <4>1. /\ Distance(Root, x) = Distance(Root, parent[x]) + 1
            /\ parent[x] # None /\ IsIn(parent[x], Root) /\ parent[x] \in Elements
            /\ Distance(Root, parent[x]) \in Nat
        BY <1>3, <1>6, <3>2
      <4>2. /\ depth[x] = Distance(Root, x) + 1
            /\ depth[parent[x]] = Distance(Root, parent[x]) + 1
            /\ life[x] = "active" /\ life[parent[x]] = "active"
        BY <1>7, <3>2, <4>1
      <4> QED BY <4>1, <4>2
    <3>3. CASE ~IsIn(x, Root)
      BY <1>5, <1>7, <3>3 DEF Active
    <3> QED BY <3>1, <3>2, <3>3
  <2> QED BY <1>1, <2>1, <2>2 DEF TreeInv
<1> QED BY <1>8, <1>9

LEMMA Starts == Init => IInv
<1> SUFFICES ASSUME Init PROVE IInv
  OBVIOUS
<1>1. TypeOK /\ TreeInv
  BY MountedTree
<1>2. list = <<>> /\ stack = <<>> /\ listed = {} /\ phase = "idle"
  BY DEF Init
<1>3. Len(stack) = 0 /\ DOMAIN list = {}
  BY <1>2, EmptySeq
<1>4. StackInv
  BY <1>2, <1>3 DEF StackInv
<1>5. ListInv
  BY <1>2, <1>3 DEF ListInv, Range
<1> QED BY <1>1, <1>4, <1>5 DEF IInv

\* A build in progress is of an active element, in a BuildScope.
LEMMA BuildFacts ==
  ASSUME TypeOK, StackInv, NEW e, Builds(e)
  PROVE  /\ e \in Elements /\ Active(e) /\ phase = "scope" /\ stack # <<>>
         /\ Len(stack) \in 1..Len(stack) /\ stack[Len(stack)].el = e
<1>1. stack # <<>> /\ e = stack[Len(stack)].el /\ e \in Elements /\ Len(stack) \in 1..Len(stack)
  BY TopOfStack
<1> QED BY <1>1 DEF StackInv

\* What is not above the innermost build has no build in progress below it.
LEMMA StackOutside ==
  ASSUME TypeOK, TreeInv, StackInv, NEW e, Builds(e), NEW c, ~IsIn(e, c),
         NEW i \in 1..Len(stack)
  PROVE  ~IsIn(stack[i].el, c) /\ stack[i].el \in Elements
<1>1. e = stack[Len(stack)].el
  BY TopOfStack
<1>2. stack[i].el \in Elements
  BY TopOfStack
<1>3. c \in Path(stack[i].el) => c \in Path(stack[Len(stack)].el)
  BY StackAbove
<1> QED BY <1>1, <1>2, <1>3 DEF IsIn

LEMMA TreeSame ==
  ASSUME TreeInv, UNCHANGED treeVars
  PROVE  TreeInv'
<1>1. parent' = parent /\ life' = life /\ depth' = depth
  BY DEF treeVars
<1> QED BY <1>1 DEF TreeInv, Active

LEMMA MarkKeeps ==
  ASSUME IInv, NEW e \in Elements, Mark(e)
  PROVE  IInv'
<1>1. TypeOK /\ TreeInv /\ StackInv /\ ListInv
  BY DEF IInv
<1>2. /\ parent' = parent /\ life' = life /\ depth' = depth /\ phase' = phase
      /\ index' = index /\ count' = count /\ stack' = stack /\ moved' = moved
      /\ e # Root /\ Active(e) /\ dirty' = dirty \cup {e} /\ Schedule({e})
  BY DEF Mark, MarkNeedsBuild, treeVars, scopeVars
<1>3. phase # "late"
  BY <1>1 DEF Mark, StackInv
<1>4. \A x \in listed \cup {e} : life'[x] # "unmounted"
  BY <1>1, <1>2 DEF ListInv, Active
<1>5. /\ ListInv'
      /\ list' \in Seq(Elements) /\ IsInjective(list') /\ listed' \subseteq Elements
      /\ resort' \in BOOLEAN /\ scheduled' \in BOOLEAN /\ requested' \in BOOLEAN
  <2>1. {e} \in SUBSET Elements /\ (Root \in {e} => phase # "idle")
    BY <1>2
  <2> QED BY <1>1, <1>2, <1>3, <1>4, <2>1, ListGrows
<1>6. TypeOK'
  BY <1>1, <1>2, <1>5 DEF TypeOK
<1>7. TreeInv'
  BY <1>1, <1>2, TreeSame DEF treeVars
<1>8. StackInv'
  BY <1>1, <1>2, StackSame
<1> QED BY <1>5, <1>6, <1>7, <1>8 DEF IInv

LEMMA DrawFrameKeeps ==
  ASSUME IInv, DrawFrame
  PROVE  IInv'
<1>1. TypeOK /\ TreeInv /\ StackInv /\ ListInv
  BY DEF IInv
<1>2. /\ phase = "idle" /\ phase' = "callbacks" /\ requested' = FALSE
      /\ dirty' = dirty \cup {Root} /\ listed' = listed \cup {Root}
      /\ list' = Append(list, Root) /\ moved' = {}
      /\ parent' = parent /\ life' = life /\ depth' = depth
      /\ resort' = resort /\ scheduled' = scheduled /\ index' = index
      /\ count' = count /\ stack' = stack
  BY DEF DrawFrame, treeVars
<1>3. list \in Seq(Elements) /\ IsInjective(list) /\ Root \in Elements
  BY <1>1, Members DEF TypeOK
<1>4. Range(list) = listed /\ Root \notin listed
  BY <1>1, <1>2 DEF ListInv
<1>5. /\ list' \in Seq(Elements) /\ Len(list') = Len(list) + 1
      /\ \A k \in 1..Len(list) : list'[k] = list[k]
      /\ list'[Len(list) + 1] = Root
  BY <1>2, <1>3, AppendProperties
<1>6. Len(list) \in Nat /\ DOMAIN list = 1..Len(list) /\ DOMAIN list' = 1..Len(list) + 1
  BY <1>3, <1>5, LenProperties
<1>7. \A k \in 1..Len(list) : list[k] \in listed
  BY <1>3, <1>4, Indices
<1>8. IsInjective(list')
  <2> SUFFICES ASSUME NEW i \in 1..Len(list) + 1, NEW j \in 1..Len(list) + 1,
                      list'[i] = list'[j]
               PROVE  i = j
    BY <1>6 DEF IsInjective
  <2>1. CASE i \in 1..Len(list) /\ j \in 1..Len(list)
    BY <1>3, <1>5, <1>6, <2>1 DEF IsInjective
  <2>2. CASE i = Len(list) + 1 /\ j \in 1..Len(list)
    BY <1>4, <1>5, <1>7, <2>2
  <2>3. CASE i \in 1..Len(list) /\ j = Len(list) + 1
    BY <1>4, <1>5, <1>7, <2>3
  <2>4. CASE i = Len(list) + 1 /\ j = Len(list) + 1
    BY <2>4
  <2> QED BY <1>6, <2>1, <2>2, <2>3, <2>4
<1>9. listed' = Range(list')
  <2>1. Range(list') = {list'[k] : k \in 1..Len(list) + 1}
    BY <1>6 DEF Range
  <2>2. Range(list) = {list[k] : k \in 1..Len(list)}
    BY <1>6 DEF Range
  <2>3. \A k \in 1..Len(list) + 1 : k \in 1..Len(list) \/ k = Len(list) + 1
    BY <1>6
  <2>4. Range(list') \subseteq Range(list) \cup {Root}
    BY <1>5, <2>1, <2>2, <2>3
  <2>5. \A k \in 1..Len(list) : k \in 1..Len(list) + 1
    BY <1>6
  <2>6. Len(list) + 1 \in 1..Len(list) + 1
    BY <1>6
  <2>7. Range(list) \cup {Root} \subseteq Range(list')
    BY <1>5, <2>1, <2>2, <2>5, <2>6
  <2> QED BY <1>2, <1>4, <2>4, <2>7
<1>10. TypeOK'
  BY <1>1, <1>2, <1>5, <1>8, Members DEF TypeOK
<1>11. TreeInv'
  BY <1>1, <1>2, TreeSame DEF treeVars
<1>12. StackInv'
  <2>1. stack' = <<>> /\ Len(stack') = 0
    BY <1>1, <1>2, EmptySeq DEF StackInv
  <2> QED BY <2>1 DEF StackInv
<1>13. ListInv'
  <2>1. \A x \in listed' : life'[x] # "unmounted"
    BY <1>1, <1>2 DEF ListInv, TreeInv, Active
  <2> QED BY <1>2, <1>9, <2>1 DEF ListInv
<1> QED BY <1>10, <1>11, <1>12, <1>13 DEF IInv

LEMMA BuildScopeKeeps ==
  ASSUME IInv, BuildScope
  PROVE  IInv'
<1>1. TypeOK /\ TreeInv /\ StackInv /\ ListInv
  BY DEF IInv
<1>2. /\ phase = "callbacks" /\ phase' = "scope" /\ scheduled' = TRUE
      /\ list' \in Sortings(list, depth, dirty) /\ resort' = FALSE /\ index' = 1
      /\ count' = Len(list) /\ parent' = parent /\ life' = life /\ depth' = depth
      /\ dirty' = dirty /\ listed' = listed /\ requested' = requested
      /\ stack' = stack /\ moved' = moved
  BY DEF BuildScope, treeVars
<1>3. list \in Seq(Elements) /\ IsInjective(list)
  BY <1>1 DEF TypeOK
<1>4. list' \in Seq(Elements) /\ IsInjective(list') /\ Range(list') = Range(list)
  BY <1>2, <1>3, SortingFacts
<1>5. index' \in Nat \ {0} /\ count' \in Nat /\ scheduled' \in BOOLEAN /\ resort' \in BOOLEAN
      /\ phase' \in {"idle", "callbacks", "scope", "late"}
  <2>1. Len(list) \in Nat
    BY <1>3, LenProperties
  <2>2. index' = 1 /\ count' = Len(list) /\ scheduled' = TRUE /\ resort' = FALSE
        /\ phase' = "scope"
    BY <1>2
  <2>3. index' \in Nat \ {0} /\ count' \in Nat
    BY <2>1, <2>2
  <2>4. scheduled' \in BOOLEAN /\ resort' \in BOOLEAN
        /\ phase' \in {"idle", "callbacks", "scope", "late"}
    BY <2>2, Zenon
  <2> QED BY <2>3, <2>4
<1>6. TypeOK'
  BY <1>1, <1>2, <1>4, <1>5 DEF TypeOK
<1>7. TreeInv'
  BY <1>1, <1>2, TreeSame DEF treeVars
<1>8. StackInv'
  <2>1. stack' = <<>> /\ Len(stack') = 0
    BY <1>1, <1>2, EmptySeq DEF StackInv
  <2> QED BY <2>1 DEF StackInv
<1>9. \A x \in listed : life'[x] # "unmounted"
  BY <1>1, <1>2 DEF ListInv
<1>10. ListInv'
  BY <1>1, <1>2, <1>4, <1>9, ListStays
<1> QED BY <1>6, <1>7, <1>8, <1>10 DEF IInv

\* What rebuild does with an element of the list.
LEMMA RebuildFacts ==
  ASSUME TypeOK, Rebuild
  PROVE  /\ phase = "scope" /\ phase' = "scope" /\ stack = <<>> /\ index <= count
         /\ UNCHANGED <<parent, life, depth, dirty, listed, scheduled, requested, moved>>
         /\ \/ /\ Waits(list[index]) /\ stack' = <<Frame(list[index])>>
               /\ UNCHANGED <<list, resort, count, index>>
            \/ ~Waits(list[index]) /\ Advance(dirty) /\ stack' = stack
<1>1. /\ phase = "scope" /\ stack = <<>> /\ index <= count
      /\ IF Active(list[index]) /\ list[index] \in dirty
         THEN stack' = <<Frame(list[index])>> /\ UNCHANGED <<list, resort, count, index>>
         ELSE Advance(dirty) /\ UNCHANGED stack
      /\ UNCHANGED <<treeVars, dirty, listed, scheduled, requested, phase, moved>>
  BY DEF Rebuild
<1> QED BY <1>1 DEF Waits, treeVars

LEMMA RebuildKeeps ==
  ASSUME IInv, Rebuild
  PROVE  IInv'
<1>1. TypeOK /\ TreeInv /\ StackInv /\ ListInv
  BY DEF IInv
<1>2. /\ phase = "scope" /\ phase' = "scope" /\ stack = <<>>
      /\ parent' = parent /\ life' = life /\ depth' = depth /\ dirty' = dirty
      /\ listed' = listed /\ scheduled' = scheduled /\ requested' = requested
      /\ moved' = moved
  BY <1>1, RebuildFacts
<1>3. /\ list' \in Seq(Elements) /\ IsInjective(list') /\ Range(list') = Range(list)
      /\ resort' \in BOOLEAN /\ count' \in Nat /\ index' \in Nat \ {0}
      /\ \/ stack' = stack
         \/ /\ Waits(list[index]) /\ stack' = <<Frame(list[index])>>
  <2>1. CASE /\ Waits(list[index]) /\ stack' = <<Frame(list[index])>>
             /\ UNCHANGED <<list, resort, count, index>>
    BY <1>1, <2>1 DEF TypeOK
  <2>2. CASE Advance(dirty) /\ stack' = stack
    BY <1>1, <2>2, AdvanceFacts
  <2> QED BY <1>1, <2>1, <2>2, RebuildFacts
<1>4. /\ stack' \in Seq([el : Elements, todo : SUBSET Elements])
      /\ StackInv'
  <2>1. CASE stack' = stack
    <3>1. stack' = <<>> /\ Len(stack') = 0
      BY <1>2, <2>1, EmptySeq
    <3> QED BY <1>1, <2>1, <3>1 DEF StackInv, TypeOK
  <2>2. CASE Waits(list[index]) /\ stack' = <<Frame(list[index])>>
    <3>1. list[index] \in Elements /\ Active(list[index])
      BY <1>1, <2>2 DEF Waits, TypeOK
    <3>2. Frame(list[index]) \in [el : Elements, todo : SUBSET Elements]
          /\ Frame(list[index]).el = list[index]
      BY <3>1 DEF Frame, ChildrenOf
    <3>3. /\ stack' \in Seq([el : Elements, todo : SUBSET Elements])
          /\ Len(stack') = 1 /\ stack'[1].el = list[index]
      BY <2>2, <3>2
    <3>4. \A i \in 1..1 : i = 1
      OBVIOUS
    <3> QED BY <1>2, <3>1, <3>3, <3>4 DEF StackInv, Active
  <2> QED BY <1>3, <2>1, <2>2
<1>5. TypeOK'
  BY <1>1, <1>2, <1>3, <1>4 DEF TypeOK
<1>6. TreeInv'
  BY <1>1, <1>2, TreeSame DEF treeVars
<1>7. ListInv'
  <2>1. \A x \in listed : life'[x] # "unmounted"
    BY <1>1, <1>2 DEF ListInv
  <2> QED BY <1>1, <1>2, <1>3, <2>1, ListStays
<1> QED BY <1>4, <1>5, <1>6, <1>7 DEF IInv

\* A child's build begins within its parent's.
LEMMA ChildStack ==
  ASSUME TypeOK, StackInv, NEW e, Builds(e), phase' = phase,
         NEW r \in Seq(Frames), Len(r) = Len(stack),
         \A i \in 1..Len(stack) : r[i].el = stack[i].el,
         NEW f \in Frames, stack' = Append(r, f),
         \A i \in 1..Len(stack) : LET x == stack[i].el IN
           life'[x] = life[x] /\ depth'[x] = depth[x] /\ parent'[x] = parent[x],
         life'[f.el] = "active", depth'[f.el] \in Nat, parent'[f.el] = e,
         depth'[f.el] > depth[e]
  PROVE  StackInv' /\ stack' \in Seq([el : Elements, todo : SUBSET Elements])
<1>1. /\ stack' \in Seq(Frames) /\ Len(stack') = Len(stack) + 1
      /\ \A i \in 1..Len(stack) : stack'[i].el = stack[i].el
      /\ stack'[Len(stack) + 1].el = f.el
  BY PushFacts
<1>2. phase' = "scope" /\ stack[Len(stack)].el = e /\ Len(stack) \in Nat
  BY BuildFacts, TopOfStack
<1>3. Len(stack) \in 0..Len(stack) /\ Len(stack') \in {Len(stack), Len(stack) + 1}
  BY <1>1, <1>2
<1>4. \A i \in 1..Len(stack) : LET x == stack[i].el IN
        stack'[i].el = x /\ life'[x] = life[x] /\ depth'[x] = depth[x]
          /\ parent'[x] = parent[x]
  BY <1>1
<1>5. StackInv'
  BY <1>1, <1>2, <1>3, <1>4, StackStays
<1> QED BY <1>1, <1>5 DEF Frames

\* The stack when a child is done with, and it is not built.
LEMMA DoneStack ==
  ASSUME TypeOK, StackInv, NEW e, Builds(e), phase' = phase,
         NEW c, stack' = Done(c),
         \A i \in 1..Len(stack) : LET x == stack[i].el IN
           life'[x] = life[x] /\ depth'[x] = depth[x] /\ parent'[x] = parent[x]
  PROVE  StackInv' /\ stack' \in Seq([el : Elements, todo : SUBSET Elements])
<1>1. stack # <<>> /\ phase' = "scope" /\ Len(stack) \in Nat
  BY BuildFacts, TopOfStack
<1>2. /\ stack' \in Seq(Frames) /\ Len(stack') = Len(stack)
      /\ \A i \in 1..Len(stack) : stack'[i].el = stack[i].el
  BY <1>1, DoneFacts
<1>3. Len(stack) \in 0..Len(stack) /\ Len(stack') \in {Len(stack), Len(stack) + 1}
      /\ Len(stack') # Len(stack) + 1
  BY <1>1, <1>2
<1>4. \A i \in 1..Len(stack) : LET x == stack[i].el IN
        stack'[i].el = x /\ life'[x] = life[x] /\ depth'[x] = depth[x]
          /\ parent'[x] = parent[x]
  BY <1>2
<1>5. StackInv'
  BY <1>1, <1>3, <1>4, StackStays
<1> QED BY <1>2, <1>5 DEF Frames

LEMMA UpdateKeeps ==
  ASSUME IInv, NEW e \in Elements, NEW c \in Elements, Update(e, c)
  PROVE  IInv'
<1>1. TypeOK /\ TreeInv /\ StackInv /\ ListInv
  BY DEF IInv
<1>2. /\ Builds(e) /\ parent[c] = e /\ stack' = Append(Done(c), Frame(c))
      /\ parent' = parent /\ life' = life /\ depth' = depth /\ dirty' = dirty
      /\ listed' = listed /\ list' = list /\ resort' = resort /\ scheduled' = scheduled
      /\ requested' = requested /\ phase' = phase /\ index' = index /\ count' = count
      /\ moved' = moved
  BY DEF Update, treeVars, listVars
<1>3. phase = "scope" /\ stack # <<>> /\ Active(e)
  BY <1>1, <1>2, BuildFacts
<1>4. /\ Done(c) \in Seq(Frames) /\ Len(Done(c)) = Len(stack)
      /\ \A i \in 1..Len(stack) : Done(c)[i].el = stack[i].el
  BY <1>1, <1>3, DoneFacts
<1>5. Frame(c) \in Frames /\ Frame(c).el = c
  BY DEF Frame, Frames, ChildrenOf
<1>6. life[c] = "active" /\ depth[c] > depth[e] /\ depth[c] \in Nat
  BY <1>1, <1>2, <1>3, Members DEF TreeInv, TypeOK, Active
<1>7. StackInv' /\ stack' \in Seq([el : Elements, todo : SUBSET Elements])
  BY <1>1, <1>2, <1>4, <1>5, <1>6, ChildStack
<1>8. TypeOK'
  BY <1>1, <1>2, <1>7 DEF TypeOK
<1>9. TreeInv'
  BY <1>1, <1>2, TreeSame DEF treeVars
<1>10. ListInv'
  BY <1>1, <1>2 DEF ListInv
<1> QED BY <1>7, <1>8, <1>9, <1>10 DEF IInv

LEMMA DeactivateKeeps ==
  ASSUME IInv, NEW e \in Elements, NEW c \in Elements, Deactivate(e, c)
  PROVE  IInv'
<1>1. TypeOK /\ TreeInv /\ StackInv /\ ListInv
  BY DEF IInv
<1>2. /\ Builds(e) /\ parent[c] = e /\ stack' = Done(c)
      /\ parent' = [parent EXCEPT ![c] = None]
      /\ life' = [x \in Elements |-> IF IsIn(x, c) THEN "inactive" ELSE life[x]]
      /\ depth' = depth /\ dirty' = dirty
      /\ listed' = listed /\ list' = list /\ resort' = resort /\ scheduled' = scheduled
      /\ requested' = requested /\ phase' = phase /\ index' = index /\ count' = count
      /\ moved' = moved
  BY DEF Deactivate, listVars
<1>3. phase = "scope" /\ stack # <<>> /\ parent[c] # None /\ ~IsIn(e, c)
  BY <1>1, <1>2, BuildFacts, SubtreeFacts, Members
<1>4. IsIn(c, c)
  BY <1>1, SubtreeFacts
<1>5. \A i \in 1..Len(stack) : LET x == stack[i].el IN
        life'[x] = life[x] /\ depth'[x] = depth[x] /\ parent'[x] = parent[x]
  <2> SUFFICES ASSUME NEW i \in 1..Len(stack), NEW x, x = stack[i].el
               PROVE  life'[x] = life[x] /\ depth'[x] = depth[x] /\ parent'[x] = parent[x]
    BY Zenon
  <2>1. ~IsIn(x, c) /\ x \in Elements
    BY <1>1, <1>2, <1>3, StackOutside
  <2> QED BY <1>1, <1>2, <1>4, <2>1 DEF TypeOK
<1>6. StackInv' /\ stack' \in Seq([el : Elements, todo : SUBSET Elements])
  BY <1>1, <1>2, <1>5, DoneStack
<1>7. TypeOK'
  BY <1>1, <1>2, <1>6 DEF TypeOK
<1>8. TreeInv'
  BY <1>1, <1>2, <1>3, TreeLosesSubtree
<1>9. \A x \in listed : life'[x] # "unmounted"
  BY <1>1, <1>2 DEF ListInv, TypeOK
<1>10. ListInv'
  BY <1>1, <1>2, <1>3, <1>9 DEF ListInv
<1> QED BY <1>6, <1>7, <1>8, <1>10 DEF IInv

LEMMA MountKeeps ==
  ASSUME IInv, NEW e \in Elements, NEW c \in Elements, Mount(e, c)
  PROVE  IInv'
<1>1. TypeOK /\ TreeInv /\ StackInv /\ ListInv
  BY DEF IInv
<1>2. /\ Builds(e) /\ life[c] = "unmounted"
      /\ stack' = Append(stack, [el |-> c, todo |-> {}])
      /\ parent' = [parent EXCEPT ![c] = e]
      /\ depth' = [depth EXCEPT ![c] = depth[e] + 1]
      /\ life' = [life EXCEPT ![c] = "active"] /\ dirty' = dirty \cup {c}
      /\ listed' = listed /\ list' = list /\ resort' = resort /\ scheduled' = scheduled
      /\ requested' = requested /\ phase' = phase /\ index' = index /\ count' = count
      /\ moved' = moved
  BY DEF Mount, listVars
<1>3. phase = "scope" /\ stack # <<>> /\ Active(e)
  BY <1>1, <1>2, BuildFacts
<1>4. \A i \in 1..Len(stack) : stack[i].el # c
  BY <1>1, <1>2 DEF StackInv, Active
<1>5. \A i \in 1..Len(stack) : LET x == stack[i].el IN
        life'[x] = life[x] /\ depth'[x] = depth[x] /\ parent'[x] = parent[x]
  <2> SUFFICES ASSUME NEW i \in 1..Len(stack), NEW x, x = stack[i].el
               PROVE  life'[x] = life[x] /\ depth'[x] = depth[x] /\ parent'[x] = parent[x]
    BY Zenon
  <2>1. x # c /\ x \in Elements
    BY <1>1, <1>4, TopOfStack
  <2> QED BY <1>1, <1>2, <2>1 DEF TypeOK
<1>6. depth[e] \in Nat
  BY <1>1 DEF TypeOK
<1>7. life'[c] = "active" /\ depth'[c] = depth[e] + 1 /\ parent'[c] = e
  BY <1>1, <1>2 DEF TypeOK
<1>8. StackInv' /\ stack' \in Seq([el : Elements, todo : SUBSET Elements])
  <2>1. [el |-> c, todo |-> {}] \in Frames /\ [el |-> c, todo |-> {}].el = c
    BY DEF Frames
  <2>2. stack \in Seq(Frames)
    BY <1>1 DEF TypeOK, Frames
  <2>3. depth'[c] \in Nat /\ depth'[c] > depth[e]
    BY <1>6, <1>7
  <2> DEFINE f == [el |-> c, todo |-> {}]
  <2>4. f \in Frames /\ f.el = c /\ stack' = Append(stack, f)
    BY <1>2, <2>1
  <2> HIDE DEF f
  <2> QED BY <1>1, <1>2, <1>5, <1>7, <2>2, <2>3, <2>4, ChildStack
<1>9. TypeOK'
  BY <1>1, <1>2, <1>6, <1>8 DEF TypeOK
<1>10. TreeInv'
  BY <1>1, <1>2, <1>3, TreeGainsElement
<1>11. \A x \in listed : life'[x] # "unmounted"
  BY <1>1, <1>2 DEF ListInv, TypeOK
<1>12. ListInv'
  BY <1>1, <1>2, <1>3, <1>11 DEF ListInv
<1> QED BY <1>8, <1>9, <1>10, <1>12 DEF IInv

\* What retaking a subtree changes.
LEMMA RetakeFacts ==
  ASSUME IInv, NEW e \in Elements, NEW c \in Elements, Retake(e, c)
  PROVE  /\ Builds(e) /\ c # Root /\ life[c] # "unmounted" /\ ~IsIn(e, c)
         /\ Cardinality((moved \cup Subtree(c)) \cap listed) <= MaxMoves
         /\ parent' = [parent EXCEPT ![c] = e]
         /\ life' = [x \in Elements |-> IF IsIn(x, c) THEN "active" ELSE life[x]]
         /\ depth' = NewDepth(e, c) /\ dirty' = dirty \cup Subtree(c)
         /\ Schedule(Subtree(c)) /\ moved' = moved \cup Subtree(c)
         /\ stack' = stack \/ stack' = Append(stack, Frame(c))
         /\ phase' = phase /\ index' = index /\ count' = count
         /\ \A i \in 1..Len(stack) : LET x == stack[i].el IN
              life'[x] = life[x] /\ depth'[x] = depth[x] /\ parent'[x] = parent[x]
<1>1. TypeOK /\ TreeInv /\ StackInv /\ ListInv
  BY DEF IInv
<1>2. /\ Builds(e) /\ life[c] # "unmounted" /\ ~IsIn(e, c)
      /\ Cardinality((moved \cup Subtree(c)) \cap listed) <= MaxMoves
      /\ parent' = [parent EXCEPT ![c] = e]
      /\ life' = [x \in Elements |-> IF IsIn(x, c) THEN "active" ELSE life[x]]
      /\ depth' = NewDepth(e, c) /\ dirty' = dirty \cup Subtree(c)
      /\ Schedule(Subtree(c)) /\ moved' = moved \cup Subtree(c)
      /\ stack' = stack \/ stack' = Append(stack, Frame(c))
      /\ phase' = phase /\ index' = index /\ count' = count
  BY DEF Retake
<1>3. c # Root
  BY BuildOwnerAssumption DEF Retake
<1>4. IsIn(c, c)
  BY <1>1, SubtreeFacts
<1>5. \A i \in 1..Len(stack) : LET x == stack[i].el IN
        life'[x] = life[x] /\ depth'[x] = depth[x] /\ parent'[x] = parent[x]
  <2> SUFFICES ASSUME NEW i \in 1..Len(stack), NEW x, x = stack[i].el
               PROVE  life'[x] = life[x] /\ depth'[x] = depth[x] /\ parent'[x] = parent[x]
    BY Zenon
  <2>1. ~IsIn(x, c) /\ x \in Elements
    BY <1>1, <1>2, StackOutside
  <2>2. depth'[x] = depth[x]
    BY <1>1, <1>2, <2>1, NewDepthFacts
  <2> QED BY <1>1, <1>2, <1>4, <2>1, <2>2 DEF TypeOK
<1> QED BY <1>2, <1>3, <1>5

LEMMA RetakeKeeps ==
  ASSUME IInv, NEW e \in Elements, NEW c \in Elements, Retake(e, c)
  PROVE  IInv'
<1>1. TypeOK /\ TreeInv /\ StackInv /\ ListInv
  BY DEF IInv
<1>2. /\ Builds(e) /\ c # Root /\ life[c] # "unmounted" /\ ~IsIn(e, c)
      /\ parent' = [parent EXCEPT ![c] = e]
      /\ life' = [x \in Elements |-> IF IsIn(x, c) THEN "active" ELSE life[x]]
      /\ depth' = NewDepth(e, c) /\ dirty' = dirty \cup Subtree(c)
      /\ Schedule(Subtree(c)) /\ moved' = moved \cup Subtree(c)
      /\ stack' = stack \/ stack' = Append(stack, Frame(c))
      /\ phase' = phase /\ index' = index /\ count' = count
      /\ \A i \in 1..Len(stack) : LET x == stack[i].el IN
           life'[x] = life[x] /\ depth'[x] = depth[x] /\ parent'[x] = parent[x]
  BY RetakeFacts
<1>3. phase = "scope" /\ stack # <<>> /\ Active(e)
  BY <1>1, <1>2, BuildFacts
<1>4. /\ depth' \in [Elements -> Nat] /\ depth'[c] > depth[e] /\ IsIn(c, c)
  <2>1. IsIn(c, c)
    BY <1>1, SubtreeFacts
  <2> QED BY <1>1, <1>2, <2>1, NewDepthFacts
<1>5. StackInv' /\ stack' \in Seq([el : Elements, todo : SUBSET Elements])
  <2>1. CASE stack' = stack
    BY <1>1, <1>2, <2>1, StackSame DEF TypeOK
  <2>2. CASE stack' = Append(stack, Frame(c))
    <3>1. Frame(c) \in Frames /\ Frame(c).el = c
      BY DEF Frame, Frames, ChildrenOf
    <3>2. stack \in Seq(Frames)
      BY <1>1 DEF TypeOK, Frames
    <3>3. life'[c] = "active" /\ parent'[c] = e /\ depth'[c] \in Nat
      BY <1>1, <1>2, <1>4 DEF TypeOK
    <3> QED BY <1>1, <1>2, <1>4, <2>2, <3>1, <3>2, <3>3, ChildStack
  <2> QED BY <1>2, <2>1, <2>2
<1>6. Subtree(c) \in SUBSET Elements /\ Root \notin Subtree(c)
  BY <1>1, <1>2, SubtreeFacts DEF Subtree
<1>7. \A x \in listed \cup Subtree(c) : life'[x] # "unmounted"
  <2> SUFFICES ASSUME NEW x \in listed \cup Subtree(c) PROVE life'[x] # "unmounted"
    OBVIOUS
  <2>1. x \in Elements
    BY <1>1 DEF TypeOK, Subtree
  <2>2. CASE IsIn(x, c)
    BY <1>2, <2>1, <2>2
  <2>3. CASE ~IsIn(x, c)
    <3>1. x \in listed
      BY <2>3 DEF Subtree
    <3> QED BY <1>1, <1>2, <2>1, <2>3, <3>1 DEF ListInv
  <2> QED BY <2>2, <2>3
<1>8. /\ ListInv'
      /\ list' \in Seq(Elements) /\ IsInjective(list') /\ listed' \subseteq Elements
      /\ resort' \in BOOLEAN /\ scheduled' \in BOOLEAN /\ requested' \in BOOLEAN
  <2>1. phase # "late" /\ (Root \in Subtree(c) => phase # "idle")
    BY <1>3
  <2> QED BY <1>1, <1>2, <1>6, <1>7, <2>1, ListGrows
<1>9. TypeOK'
  <2>1. life' \in [Elements -> {"active", "inactive", "unmounted"}]
    BY <1>1, <1>2 DEF TypeOK
  <2>2. parent' \in [Elements -> Elements \cup {None}]
    BY <1>1, <1>2 DEF TypeOK
  <2>3. dirty' \subseteq Elements /\ moved' \subseteq Elements
    BY <1>1, <1>2, <1>6 DEF TypeOK
  <2> QED BY <1>1, <1>2, <1>4, <1>5, <1>8, <2>1, <2>2, <2>3 DEF TypeOK
<1>10. TreeInv'
  BY <1>1, <1>2, <1>3, TreeMovesSubtree
<1> QED BY <1>5, <1>8, <1>9, <1>10 DEF IInv

LEMMA FinishKeeps ==
  ASSUME IInv, NEW e \in Elements, Finish(e)
  PROVE  IInv'
<1>1. TypeOK /\ TreeInv /\ StackInv /\ ListInv
  BY DEF IInv
<1>2. /\ Builds(e) /\ dirty' = dirty \ {e} /\ stack' = SubSeq(stack, 1, Len(stack) - 1)
      /\ IF Len(stack) = 1 THEN Advance(dirty \ {e})
                           ELSE UNCHANGED <<list, resort, count, index>>
      /\ parent' = parent /\ life' = life /\ depth' = depth /\ phase' = phase
      /\ listed' = listed /\ scheduled' = scheduled /\ requested' = requested
      /\ moved' = moved
  BY DEF Finish, treeVars
<1>3. phase = "scope" /\ stack # <<>> /\ Len(stack) \in Nat /\ Len(stack) \in 1..Len(stack)
  BY <1>1, <1>2, BuildFacts, TopOfStack
<1>4. /\ list' \in Seq(Elements) /\ IsInjective(list') /\ Range(list') = Range(list)
      /\ resort' \in BOOLEAN /\ count' \in Nat /\ index' \in Nat \ {0}
  <2>1. CASE Len(stack) = 1
    BY <1>1, <1>2, <2>1, AdvanceFacts
  <2>2. CASE Len(stack) # 1
    BY <1>1, <1>2, <2>2 DEF TypeOK
  <2> QED BY <2>1, <2>2
<1>5. /\ stack' \in Seq(Frames) /\ Len(stack') = Len(stack) - 1
      /\ \A i \in 1..Len(stack) - 1 : stack'[i].el = stack[i].el
  BY <1>1, <1>2, <1>3, PopFacts
<1>6. StackInv'
  <2> DEFINE m == Len(stack) - 1
  <2>1. m \in 0..Len(stack) /\ Len(stack') \in {m, m + 1} /\ Len(stack') # m + 1
        /\ 1..m \subseteq 1..Len(stack)
    BY <1>3, <1>5
  <2>2. \A i \in 1..m : LET x == stack[i].el IN
          stack'[i].el = x /\ life'[x] = life[x] /\ depth'[x] = depth[x]
            /\ parent'[x] = parent[x]
    BY <1>2, <1>5
  <2> HIDE DEF m
  <2> QED BY <1>1, <1>2, <1>3, <2>1, <2>2, StackStays
<1>7. TypeOK'
  BY <1>1, <1>2, <1>4, <1>5 DEF TypeOK, Frames
<1>8. TreeInv'
  BY <1>1, <1>2, TreeSame DEF treeVars
<1>9. ListInv'
  <2>1. \A x \in listed : life'[x] # "unmounted"
    BY <1>1, <1>2 DEF ListInv
  <2> QED BY <1>1, <1>2, <1>3, <1>4, <2>1, ListStays
<1> QED BY <1>6, <1>7, <1>8, <1>9 DEF IInv

LEMMA EndScopeKeeps ==
  ASSUME IInv, EndScope
  PROVE  IInv'
<1>1. TypeOK /\ TreeInv /\ StackInv /\ ListInv
  BY DEF IInv
<1>2. /\ stack = <<>> /\ phase' = "late" /\ listed' = {} /\ list' = <<>>
      /\ resort' = FALSE /\ scheduled' = FALSE
      /\ parent' = parent /\ life' = life /\ depth' = depth /\ dirty' = dirty
      /\ requested' = requested /\ index' = index /\ count' = count /\ stack' = stack
      /\ moved' = moved
  BY DEF EndScope, treeVars
<1>3. list' \in Seq(Elements) /\ DOMAIN list' = {} /\ Len(stack') = 0
  BY <1>2, EmptySeq
<1>4. IsInjective(list') /\ Range(list') = {}
  BY <1>3 DEF IsInjective, Range
<1>5. TypeOK'
  BY <1>1, <1>2, <1>3, <1>4 DEF TypeOK
<1>6. TreeInv'
  BY <1>1, <1>2, TreeSame DEF treeVars
<1>7. StackInv'
  BY <1>2, <1>3 DEF StackInv
<1>8. ListInv'
  BY <1>2, <1>4 DEF ListInv
<1> QED BY <1>5, <1>6, <1>7, <1>8 DEF IInv

LEMMA FinalizeTreeKeeps ==
  ASSUME IInv, FinalizeTree
  PROVE  IInv'
<1>1. TypeOK /\ TreeInv /\ StackInv /\ ListInv
  BY DEF IInv
<1> DEFINE gone == {e \in Elements : life[e] = "inactive"}
<1>2. /\ phase = "late" /\ phase' = "idle"
      /\ life' = [e \in Elements |-> IF e \in gone THEN "unmounted" ELSE life[e]]
      /\ parent' = [e \in Elements |-> IF e \in gone THEN None ELSE parent[e]]
      /\ depth' = [e \in Elements |-> IF e \in gone THEN 0 ELSE depth[e]]
      /\ dirty' = dirty \ gone
      /\ index' = 1 /\ count' = 0 /\ moved' = {}
      /\ listed' = listed /\ list' = list /\ resort' = resort /\ scheduled' = scheduled
      /\ requested' = requested /\ stack' = stack
  BY DEF FinalizeTree, listVars
<1>3. stack' = <<>> /\ Len(stack') = 0
  BY <1>1, <1>2, EmptySeq DEF StackInv
<1>4. TypeOK'
  <2>1. /\ life' \in [Elements -> {"active", "inactive", "unmounted"}]
        /\ parent' \in [Elements -> Elements \cup {None}]
        /\ dirty' \subseteq Elements /\ moved' \subseteq Elements
    BY <1>1, <1>2 DEF TypeOK
  <2>2. depth' \in [Elements -> Nat] /\ index' \in Nat \ {0} /\ count' \in Nat
    BY <1>1, <1>2 DEF TypeOK
  <2> QED BY <1>1, <1>2, <2>1, <2>2 DEF TypeOK
<1>5. TreeInv'
  BY <1>1, TreeFinalized
<1>6. StackInv'
  BY <1>3 DEF StackInv
<1>7. ListInv'
  BY <1>1, <1>2 DEF ListInv
<1> QED BY <1>4, <1>5, <1>6, <1>7 DEF IInv

LEMMA StutterKeeps ==
  ASSUME IInv, UNCHANGED vars
  PROVE  IInv'
<1>1. TypeOK'
  BY DEF IInv, TypeOK, vars
<1>2. TreeInv'
  BY DEF IInv, TreeInv, Active, vars
<1>3. StackInv'
  BY DEF IInv, StackInv, Active, vars
<1>4. ListInv'
  BY DEF IInv, ListInv, vars
<1> QED BY <1>1, <1>2, <1>3, <1>4 DEF IInv

LEMMA StepKeeps == IInv /\ [Next]_vars => IInv'
<1> SUFFICES ASSUME IInv, [Next]_vars PROVE IInv'
  OBVIOUS
<1>1. ASSUME NEW e \in Elements, Mark(e) PROVE IInv'
  BY <1>1, MarkKeeps
<1>2. CASE DrawFrame
  BY <1>2, DrawFrameKeeps
<1>3. CASE BuildScope
  BY <1>3, BuildScopeKeeps
<1>4. CASE Rebuild
  BY <1>4, RebuildKeeps
<1>5. CASE EndScope
  BY <1>5, EndScopeKeeps
<1>6. CASE FinalizeTree
  BY <1>6, FinalizeTreeKeeps
<1>7. ASSUME NEW e \in Elements, Finish(e) PROVE IInv'
  BY <1>7, FinishKeeps
<1>8. ASSUME NEW e \in Elements, NEW c \in Elements, Update(e, c) PROVE IInv'
  BY <1>8, UpdateKeeps
<1>9. ASSUME NEW e \in Elements, NEW c \in Elements, Deactivate(e, c) PROVE IInv'
  BY <1>9, DeactivateKeeps
<1>10. ASSUME NEW e \in Elements, NEW c \in Elements, Mount(e, c) PROVE IInv'
  BY <1>10, MountKeeps
<1>11. ASSUME NEW e \in Elements, NEW c \in Elements, Retake(e, c) PROVE IInv'
  BY <1>11, RetakeKeeps
<1>12. CASE UNCHANGED vars
  BY <1>12, StutterKeeps
<1> QED
  BY <1>1, <1>2, <1>3, <1>4, <1>5, <1>6, <1>7, <1>8, <1>9, <1>10, <1>11, <1>12, Zenon
     DEF Next, Program, Draw, Build

LEMMA Inductive == Spec => []IInv
<1> QED BY Starts, StepKeeps, PTL DEF Spec

-----------------------------------------------------------------------------
(* What waits to be built is listed *)

\* Who is building, from one stack to the next.
LEMMA BuildingFacts ==
  ASSUME TypeOK
  PROVE  /\ stack = <<>> => Building = {}
         /\ \A x : x \in Building <=> \E i \in 1..Len(stack) : x = stack[i].el
<1>1. \A x : x \in Building <=> \E i \in 1..Len(stack) : x = stack[i].el
  BY DEF Building
<1>2. stack = <<>> => Len(stack) = 0
  BY EmptySeq
<1>3. stack = <<>> => Building = {}
  BY <1>1, <1>2
<1> QED BY <1>1, <1>3

LEMMA BuildingGrows ==
  ASSUME TypeOK, TypeOK', Len(stack') >= Len(stack),
         \A i \in 1..Len(stack) : stack'[i].el = stack[i].el
  PROVE  Building \subseteq Building'
<1>1. Len(stack) \in Nat /\ Len(stack') \in Nat
  BY DEF TypeOK
<1>2. 1..Len(stack) \subseteq 1..Len(stack')
  BY <1>1
<1>3. Building = {stack[i].el : i \in 1..Len(stack)}
      /\ Building' = {stack'[i].el : i \in 1..Len(stack')}
  BY DEF Building
<1> QED BY <1>2, <1>3

\* The steps of a build other than its end keep the builds in progress.
LEMMA StepsGrowStack ==
  ASSUME TypeOK, NEW e \in Elements, NEW c \in Elements,
         Update(e, c) \/ Deactivate(e, c) \/ Mount(e, c) \/ Retake(e, c)
  PROVE  /\ stack # <<>> /\ Len(stack) \in Nat /\ Len(stack') \in Nat
         /\ Len(stack') >= Len(stack) /\ stack' # <<>>
         /\ \A i \in 1..Len(stack) : stack'[i].el = stack[i].el
<1>1. Builds(e)
  BY DEF Update, Deactivate, Mount, Retake
<1>2. stack # <<>> /\ Len(stack) \in Nat /\ stack \in Seq(Frames)
  BY <1>1, TopOfStack DEF TypeOK, Frames
<1>3. /\ Done(c) \in Seq(Frames) /\ Len(Done(c)) = Len(stack)
      /\ \A i \in 1..Len(stack) : Done(c)[i].el = stack[i].el
  BY <1>2, DoneFacts
<1>4. Len(stack) # 0
  BY <1>2, EmptySeq
<1>5. CASE stack' = stack
  BY <1>2, <1>5
<1>6. CASE stack' = Done(c)
  <2>1. Done(c) # <<>>
    BY <1>3, <1>4, EmptySeq
  <2> QED BY <1>2, <1>3, <1>6, <2>1
<1>7. ASSUME NEW r \in Seq(Frames), Len(r) = Len(stack),
             \A i \in 1..Len(stack) : r[i].el = stack[i].el,
             NEW f \in Frames, stack' = Append(r, f)
      PROVE  /\ stack' # <<>> /\ Len(stack') = Len(stack) + 1
             /\ \A i \in 1..Len(stack) : stack'[i].el = stack[i].el
  BY <1>7, PushFacts
<1>8. Frame(c) \in Frames /\ [el |-> c, todo |-> {}] \in Frames
  BY DEF Frames, Frame, ChildrenOf
<1>9. CASE Update(e, c)
  <2>1. stack' = Append(Done(c), Frame(c))
    BY <1>9 DEF Update
  <2>2. /\ stack' # <<>> /\ Len(stack') = Len(stack) + 1
        /\ \A i \in 1..Len(stack) : stack'[i].el = stack[i].el
    BY <1>3, <1>7, <1>8, <2>1
  <2> QED BY <1>2, <2>2
<1>10. CASE Mount(e, c)
  <2>1. stack' = Append(stack, [el |-> c, todo |-> {}])
    BY <1>10 DEF Mount
  <2>2. \E f \in Frames : stack' = Append(stack, f)
    BY <1>8, <2>1, Zenon
  <2>3. /\ stack' # <<>> /\ Len(stack') = Len(stack) + 1
        /\ \A i \in 1..Len(stack) : stack'[i].el = stack[i].el
    BY <1>2, <1>7, <2>2
  <2> QED BY <1>2, <2>3
<1>11. CASE Retake(e, c)
  <2>1. stack' = stack \/ stack' = Append(stack, Frame(c))
    BY <1>11 DEF Retake
  <2>2. CASE stack' = Append(stack, Frame(c))
    <3>1. /\ stack' # <<>> /\ Len(stack') = Len(stack) + 1
          /\ \A i \in 1..Len(stack) : stack'[i].el = stack[i].el
      BY <1>2, <1>7, <1>8, <2>2
    <3> QED BY <1>2, <3>1
  <2> QED BY <1>5, <2>1, <2>2
<1>12. CASE Deactivate(e, c)
  BY <1>6, <1>12 DEF Deactivate
<1> QED BY <1>9, <1>10, <1>11, <1>12

\* The members of a list are those of the listed.
LEMMA ListedFacts ==
  ASSUME IInv
  PROVE  /\ Len(list) \in Nat
         /\ \A k \in 1..Len(list) : list[k] \in listed /\ list[k] \in Elements
         /\ \A x \in listed : \E k \in 1..Len(list) : x = list[k]
         /\ \A k, j \in 1..Len(list) : list[k] = list[j] => k = j
<1>1. list \in Seq(Elements) /\ IsInjective(list) /\ listed = Range(list)
  BY DEF IInv, TypeOK, ListInv
<1>2. /\ Len(list) \in Nat /\ DOMAIN list = 1..Len(list)
      /\ \A k \in 1..Len(list) : list[k] \in Elements /\ list[k] \in Range(list)
      /\ \A x \in Range(list) : \E k \in 1..Len(list) : x = list[k]
  BY <1>1, Indices
<1>3. \A k, j \in 1..Len(list) : list[k] = list[j] => k = j
  BY <1>1, <1>2 DEF IsInjective
<1> QED BY <1>1, <1>2, <1>3

LEMMA ListedStep ==
  ASSUME IInv, IInv', Listed, [Next]_vars
  PROVE  Listed' \/ phase' = "late"
<1>1. TypeOK /\ TypeOK'
  BY DEF IInv
<1> SUFFICES ASSUME NEW x \in Elements, x \in dirty', life'[x] = "active", phase' # "late"
             PROVE  x \in listed' \cup Building'
  BY DEF Listed, Waits, Active
<1>2. Waits(x) => x \in listed \cup Building
  BY DEF Listed
<1>3. ASSUME dirty' \subseteq dirty, life'[x] = life[x] \/ life'[x] # "active"
      PROVE  x \in listed \cup Building
  BY <1>2, <1>3 DEF Waits, Active
<1>4. stack' = stack => Building' = Building
  BY DEF Building
<1>5. ASSUME NEW e \in Elements, Mark(e) PROVE x \in listed' \cup Building'
  <2>1. /\ life' = life /\ stack' = stack /\ dirty' = dirty \cup {e}
        /\ listed' = listed \cup {e}
    BY <1>5 DEF Mark, MarkNeedsBuild, Schedule, treeVars, scopeVars
  <2> QED BY <1>2, <1>4, <2>1 DEF Waits, Active
<1>6. CASE DrawFrame
  <2>1. /\ life' = life /\ stack' = stack /\ dirty' = dirty \cup {Root}
        /\ listed' = listed \cup {Root}
    BY <1>6 DEF DrawFrame, treeVars
  <2> QED BY <1>2, <1>4, <2>1 DEF Waits, Active
<1>7. CASE BuildScope
  <2>1. life' = life /\ stack' = stack /\ dirty' = dirty /\ listed' = listed
    BY <1>7 DEF BuildScope, treeVars
  <2> QED BY <1>2, <1>4, <2>1 DEF Waits, Active
<1>8. CASE Rebuild
  <2>1. life' = life /\ dirty' = dirty /\ listed' = listed /\ stack = <<>>
    BY <1>1, <1>8, RebuildFacts
  <2>2. Building = {}
    BY <1>1, <2>1, BuildingFacts
  <2> QED BY <1>2, <2>1, <2>2 DEF Waits, Active
<1>9. CASE EndScope
  BY <1>9 DEF EndScope
<1>10. CASE FinalizeTree
  <2>1. /\ dirty' \subseteq dirty /\ listed' = listed /\ stack' = stack
        /\ life' = [e \in Elements |->
             IF e \in {y \in Elements : life[y] = "inactive"} THEN "unmounted" ELSE life[e]]
    BY <1>10 DEF FinalizeTree, listVars
  <2> QED BY <1>3, <1>4, <2>1
<1>11. ASSUME NEW e \in Elements, Finish(e) PROVE x \in listed' \cup Building'
  <2>1. /\ life' = life /\ dirty' = dirty \ {e} /\ listed' = listed /\ Builds(e)
        /\ stack' = SubSeq(stack, 1, Len(stack) - 1)
    BY <1>11 DEF Finish, treeVars
  <2>2. stack # <<>> /\ e = stack[Len(stack)].el /\ Len(stack) \in Nat
    BY <1>1, <2>1, TopOfStack
  <2>3. /\ Len(stack') = Len(stack) - 1
        /\ \A i \in 1..Len(stack) - 1 : stack'[i].el = stack[i].el
    BY <1>1, <2>1, <2>2, PopFacts
  <2>4. ASSUME x \notin listed PROVE x \in Building'
    <3>1. x # e /\ x \in Building
      BY <1>3, <2>1, <2>4
    <3>2. PICK i \in 1..Len(stack) : x = stack[i].el
      BY <3>1 DEF Building
    <3>3. i \in 1..Len(stack) - 1
      BY <2>2, <3>1, <3>2
    <3>4. stack'[i].el = x /\ i \in 1..Len(stack')
      BY <2>3, <3>2, <3>3
    <3>5. Building' = {stack'[j].el : j \in 1..Len(stack')}
      BY DEF Building
    <3> QED BY <3>4, <3>5
  <2> QED BY <2>1, <2>4
<1>12. ASSUME NEW e \in Elements, NEW c \in Elements,
              Update(e, c) \/ Deactivate(e, c) \/ Mount(e, c) \/ Retake(e, c)
       PROVE  x \in listed' \cup Building'
  <2>1. Building \subseteq Building'
    BY <1>1, <1>12, StepsGrowStack, BuildingGrows
  <2>2. CASE Update(e, c)
    <3>1. life' = life /\ dirty' = dirty /\ listed' = listed
      BY <2>2 DEF Update, treeVars, listVars
    <3> QED BY <1>3, <2>1, <3>1
  <2>3. CASE Deactivate(e, c)
    <3>1. /\ life' = [y \in Elements |-> IF IsIn(y, c) THEN "inactive" ELSE life[y]]
          /\ dirty' = dirty /\ listed' = listed
      BY <2>3 DEF Deactivate, listVars
    <3> QED BY <1>3, <2>1, <3>1
  <2>4. CASE Mount(e, c)
    <3>1. /\ life' = [life EXCEPT ![c] = "active"] /\ dirty' = dirty \cup {c}
          /\ listed' = listed /\ stack' = Append(stack, [el |-> c, todo |-> {}])
      BY <2>4 DEF Mount, listVars
    <3>2. CASE x = c
      <4>1. Len(stack') = Len(stack) + 1 /\ stack'[Len(stack) + 1] = [el |-> c, todo |-> {}]
        BY <1>1, <3>1, AppendProperties DEF TypeOK
      <4>2. Len(stack) + 1 \in 1..Len(stack') /\ stack'[Len(stack) + 1].el = c
        BY <1>1, <4>1, TopOfStack
      <4>3. Building' = {stack'[j].el : j \in 1..Len(stack')}
        BY DEF Building
      <4> QED BY <3>2, <4>2, <4>3
    <3>3. CASE x # c
      BY <1>1, <1>2, <2>1, <3>1, <3>3 DEF Waits, Active, TypeOK
    <3> QED BY <3>2, <3>3
  <2>5. CASE Retake(e, c)
    <3>1. /\ life' = [y \in Elements |-> IF IsIn(y, c) THEN "active" ELSE life[y]]
          /\ dirty' = dirty \cup Subtree(c) /\ Schedule(Subtree(c))
      BY <2>5, RetakeFacts
    <3>2. listed' = listed \cup Subtree(c)
      BY <3>1 DEF Schedule
    <3>3. CASE x \in Subtree(c)
      BY <3>2, <3>3
    <3>4. CASE x \notin Subtree(c)
      BY <1>2, <2>1, <3>1, <3>2, <3>4 DEF Waits, Active, Subtree
    <3> QED BY <3>3, <3>4
  <2> QED BY <1>12, <2>2, <2>3, <2>4, <2>5
<1>13. CASE UNCHANGED vars
  <2>1. life' = life /\ stack' = stack /\ dirty' = dirty /\ listed' = listed
    BY <1>13 DEF vars
  <2> QED BY <1>3, <1>4, <2>1
<1> QED
  BY <1>5, <1>6, <1>7, <1>8, <1>9, <1>10, <1>11, <1>12, <1>13, Zenon
     DEF Next, Program, Draw, Build

-----------------------------------------------------------------------------
(* Nothing left of BuildScope's index waits *)

\* Between two elements of the list all of it is sorted.
LEMMA Between ==
  ASSUME ScopeInv, phase = "scope", stack = <<>>
  PROVE  BetweenInv
  BY DEF ScopeInv

LEMMA Within ==
  ASSUME ScopeInv, phase = "scope", stack # <<>>
  PROVE  WithinInv /\ index <= count /\ count <= Len(list)
  BY DEF ScopeInv, WithinInv

LEMMA BuildScopeStarts ==
  ASSUME IInv, BuildScope
  PROVE  ScopeInv'
<1>1. /\ list \in Seq(Elements) /\ IsInjective(list) /\ stack = <<>>
      /\ list' \in Sortings(list, depth, dirty) /\ resort' = FALSE /\ index' = 1
      /\ count' = Len(list) /\ stack' = stack /\ depth' = depth
  BY DEF BuildScope, IInv, TypeOK, StackInv, treeVars
<1>2. /\ Len(list') = Len(list) /\ list' \in Seq(Elements)
      /\ \A i, j \in 1..Len(list') : i < j => depth[list'[i]] <= depth[list'[j]]
  BY <1>1, SortingFacts
<1>3. Len(list) \in Nat
  BY <1>1, LenProperties
<1>4. Ascends(list)'
  BY <1>1, <1>2 DEF Ascends
<1>5. 1..index' - 1 = {}
  BY <1>1
<1>6. BetweenInv'
  BY <1>1, <1>2, <1>4, <1>5 DEF BetweenInv
<1>7. index' <= count' + 1 /\ count' <= Len(list')
  BY <1>1, <1>2, <1>3
<1>8. stack' = <<>>
  BY <1>1
<1> QED BY <1>6, <1>7, <1>8 DEF ScopeInv

\* An element of the list is taken up, or passed over.
LEMMA RebuildScope ==
  ASSUME IInv, ScopeInv, Rebuild
  PROVE  ScopeInv'
<1>1. TypeOK
  BY DEF IInv
<1>2. /\ phase = "scope" /\ stack = <<>> /\ index <= count
      /\ depth' = depth /\ life' = life /\ dirty' = dirty
      /\ \/ /\ Waits(list[index]) /\ stack' = <<Frame(list[index])>>
            /\ list' = list /\ resort' = resort /\ count' = count /\ index' = index
         \/ ~Waits(list[index]) /\ Advance(dirty) /\ stack' = stack
  BY <1>1, RebuildFacts
<1>3. count = Len(list) /\ ~resort /\ Ascends(list) /\ \A k \in 1..index - 1 : ~Waits(list[k])
  BY <1>2, Between DEF BetweenInv
<1>4. Len(list) \in Nat /\ index \in Nat \ {0} /\ index \in 1..Len(list) /\ count \in Nat
  BY <1>1, <1>2, <1>3 DEF TypeOK
<1>5. CASE Waits(list[index]) /\ stack' = <<Frame(list[index])>>
           /\ list' = list /\ resort' = resort /\ count' = count /\ index' = index
  <2>1. stack' # <<>> /\ stack'[1].el = list[index]
    BY <1>5 DEF Frame
  <2> DEFINE top == depth[list[index]]
  <2>2. \A k \in 1..index - 1 : depth[list[k]] <= top /\ ~Waits(list[k])
    BY <1>3, <1>4 DEF Ascends
  <2>3. \A k \in 1..index - 1 : depth[list[k]] \in Nat
    BY <1>1, <1>4 DEF TypeOK
  <2>4. top \in Nat
    BY <1>1, <1>4 DEF TypeOK
  <2>5. \A k \in 1..index - 1 : ~(depth[list[k]] > top)
    BY <2>2, <2>3, <2>4
  <2>6. \A k \in index + 1..Len(list) : top <= depth[list[k]]
    BY <1>3, <1>4 DEF Ascends
  <2>7. \A k \in index + 1..Len(list) : depth[list[k]] >= top
    <3> SUFFICES ASSUME NEW k \in index + 1..Len(list) PROVE depth[list[k]] >= top
      OBVIOUS
    <3>1. depth[list[k]] \in Nat
      BY <1>1, <1>4 DEF TypeOK
    <3> QED BY <2>4, <2>6, <3>1
  <2>8. \A x : Waits(x)' <=> Waits(x)
    BY <1>2 DEF Waits, Active
  <2>9. WithinInv'
    <3>1. depth'[stack'[1].el] = top
      BY <1>2, <2>1
    <3>2. index' <= count' /\ list'[index'] = stack'[1].el
      BY <1>2, <1>5, <2>1
    <3>3. \A k \in 1..index' - 1 :
            /\ depth'[list'[k]] > top => list'[k] \in moved'
            /\ depth'[list'[k]] <= top => ~Waits(list[k])'
      BY <1>2, <1>5, <2>2, <2>5, <2>8
    <3>4. \A k, j \in 1..index' - 1 :
            depth'[list'[k]] > top /\ depth'[list'[j]] > top => k = j
      BY <1>2, <1>5, <2>5
    <3>5. \A k \in index' + 1..Len(list') : depth'[list'[k]] >= top
      BY <1>2, <1>5, <2>7
    <3>6. Ascends(list)'
      BY <1>2, <1>3, <1>5 DEF Ascends
    <3> HIDE DEF top
    <3> QED BY <3>1, <3>2, <3>3, <3>4, <3>5, <3>6, <1>5 DEF WithinInv
  <2>10. index' <= count' + 1 /\ count' <= Len(list')
    BY <1>2, <1>3, <1>4, <1>5
  <2> QED BY <2>1, <2>9, <2>10 DEF ScopeInv
<1>6. CASE ~Waits(list[index]) /\ Advance(dirty) /\ stack' = stack
  <2>1. ~(count < Len(list) \/ resort)
    BY <1>3, <1>4
  <2>2. index' = index + 1 /\ list' = list /\ resort' = resort /\ count' = count
    BY <1>6, <2>1 DEF Advance
  <2>3. \A k \in 1..index' - 1 : k \in 1..index - 1 \/ k = index
    BY <1>4, <2>2
  <2>4. \A x : Waits(x)' <=> Waits(x)
    BY <1>2 DEF Waits, Active
  <2>5. \A k \in 1..index' - 1 : ~Waits(list[k])'
    BY <1>3, <1>6, <2>2, <2>3, <2>4
  <2>6. Ascends(list)'
    BY <1>2, <1>3, <2>2 DEF Ascends
  <2>7. count' = Len(list') /\ ~resort' /\ stack' = <<>>
    BY <1>2, <1>3, <1>6, <2>2
  <2>8. BetweenInv'
    BY <2>5, <2>6, <2>7, <2>2 DEF BetweenInv
  <2>9. index' <= count' + 1 /\ count' <= Len(list')
    BY <1>2, <1>3, <1>4, <2>2
  <2> QED BY <2>7, <2>8, <2>9 DEF ScopeInv
<1> QED BY <1>2, <1>5, <1>6

\* A step of a build that schedules nothing.
LEMMA WithinStays ==
  ASSUME IInv, ScopeInv, phase = "scope", stack # <<>>, stack' # <<>>,
         stack'[1].el = stack[1].el, depth'[stack[1].el] = depth[stack[1].el],
         index' = index, count' = count, list' = list, resort' = resort, moved' = moved,
         \A x \in listed : depth'[x] = depth[x] /\ (Waits(x)' => Waits(x))
  PROVE  ScopeInv'
<1>1. WithinInv /\ index <= count /\ count <= Len(list)
  BY Within
<1>2. /\ Len(list) \in Nat /\ index \in Nat \ {0} /\ count \in Nat
      /\ \A k \in 1..Len(list) : list[k] \in listed
  BY ListedFacts DEF IInv, TypeOK
<1>3. \A k \in 1..Len(list) : depth'[list[k]] = depth[list[k]] /\ (Waits(list[k])' => Waits(list[k]))
  BY <1>2
<1>4. \A k \in 1..index - 1 : k \in 1..Len(list)
  BY <1>1, <1>2
<1>5. \A k \in index + 1..Len(list) : k \in 1..Len(list)
  BY <1>1, <1>2
<1> DEFINE top == depth[stack[1].el]
<1>6. /\ index <= count /\ list[index] = stack[1].el
      /\ \A k \in 1..index - 1 :
           /\ depth[list[k]] > top => list[k] \in moved
           /\ depth[list[k]] <= top => ~Waits(list[k])
      /\ \A k, j \in 1..index - 1 :
           depth[list[k]] > top /\ depth[list[j]] > top => k = j
      /\ \A k \in index + 1..Len(list) : depth[list[k]] >= top
      /\ (count = Len(list) /\ ~resort => Ascends(list))
  BY <1>1 DEF WithinInv
<1>7. depth'[stack'[1].el] = top
  OBVIOUS
<1> HIDE DEF top
<1>8. index' <= count' /\ list'[index'] = stack'[1].el
  BY <1>6
<1>9. \A k \in 1..index' - 1 :
        /\ depth'[list'[k]] > top => list'[k] \in moved'
        /\ depth'[list'[k]] <= top => ~Waits(list[k])'
  BY <1>3, <1>4, <1>6
<1>10. \A k, j \in 1..index' - 1 :
         depth'[list'[k]] > top /\ depth'[list'[j]] > top => k = j
  BY <1>3, <1>4, <1>6
<1>11. \A k \in index' + 1..Len(list') : depth'[list'[k]] >= top
  BY <1>3, <1>5, <1>6
<1>12. count' = Len(list') /\ ~resort' => Ascends(list)'
  <2> SUFFICES ASSUME count = Len(list), ~resort PROVE Ascends(list)'
    OBVIOUS
  <2>1. Ascends(list)
    BY <1>6
  <2> QED BY <1>3, <2>1 DEF Ascends
<1>13. WithinInv'
  BY <1>7, <1>8, <1>9, <1>10, <1>11, <1>12 DEF WithinInv
<1>14. index' <= count' + 1 /\ count' <= Len(list')
  BY <1>1, <1>2
<1> QED BY <1>13, <1>14 DEF ScopeInv

\* A step of a build that schedules elements below the one being rebuilt.
LEMMA WithinGrows ==
  ASSUME IInv, ScopeInv, phase = "scope", stack # <<>>, stack' # <<>>,
         stack'[1].el = stack[1].el, depth'[stack[1].el] = depth[stack[1].el],
         index' = index, count' = count,
         NEW S \in SUBSET Elements, S # {}, Schedule(S), moved \subseteq moved',
         \A x \in listed \ S : depth'[x] = depth[x] /\ (Waits(x)' => Waits(x)),
         \A x \in S : /\ depth'[x] \in Nat /\ depth'[x] >= depth[stack[1].el]
                      /\ depth'[x] = depth[stack[1].el] => x = stack[1].el
                      /\ x \in moved' \/ depth'[x] = depth[x],
         \A k, j \in 1..index - 1 :
           /\ depth'[list[k]] > depth[stack[1].el]
           /\ depth'[list[j]] > depth[stack[1].el]
           => k = j
  PROVE  ScopeInv'
<1>1. WithinInv /\ index <= count /\ count <= Len(list)
  BY Within
<1>2. /\ Len(list) \in Nat /\ index \in Nat \ {0} /\ count \in Nat
      /\ \A k \in 1..Len(list) : list[k] \in listed /\ list[k] \in Elements
      /\ \A k, j \in 1..Len(list) : list[k] = list[j] => k = j
  BY ListedFacts DEF IInv, TypeOK
<1>3. /\ Len(list') \in Nat /\ Len(list) <= Len(list')
      /\ \A k \in 1..Len(list) : list'[k] = list[k]
      /\ \A k \in Len(list) + 1..Len(list') : list'[k] \in S
      /\ Len(list') = Len(list) => S \subseteq listed
      /\ ~resort' => ~resort /\ S \cap listed = {}
  <2>1. InSync
    BY DEF IInv, TypeOK, ListInv, InSync
  <2>2. InSync'
    BY <2>1, ScheduleFacts
  <2>3. Len(list') \in Nat
    BY <2>2, LenProperties DEF InSync
  <2> QED BY <2>1, <2>3, ScheduleFacts
<1>4. \A k \in 1..index - 1 : k \in 1..Len(list) /\ k # index
  BY <1>1, <1>2
<1>5. index \in 1..Len(list)
  BY <1>1, <1>2
<1> DEFINE o == stack[1].el
           top == depth[stack[1].el]
<1>6. /\ index <= count /\ list[index] = o
      /\ \A k \in 1..index - 1 :
           /\ depth[list[k]] > top => list[k] \in moved
           /\ depth[list[k]] <= top => ~Waits(list[k])
      /\ \A k, j \in 1..index - 1 :
           depth[list[k]] > top /\ depth[list[j]] > top => k = j
      /\ \A k \in index + 1..Len(list) : depth[list[k]] >= top
  BY <1>1 DEF WithinInv
<1>7. depth'[stack'[1].el] = top /\ stack'[1].el = o
  OBVIOUS
<1>8. \A x \in S : /\ depth'[x] \in Nat /\ depth'[x] >= top
                   /\ depth'[x] = top => x = o
                   /\ x \in moved' \/ depth'[x] = depth[x]
  OBVIOUS
<1>9. \A k, j \in 1..index - 1 :
        depth'[list[k]] > top /\ depth'[list[j]] > top => k = j
  OBVIOUS
<1>10. top \in Nat /\ \A x \in Elements : depth[x] \in Nat
  <2>1. o \in Elements
    BY <1>2, <1>5, <1>6
  <2> QED BY <2>1 DEF IInv, TypeOK
<1> HIDE DEF o, top
<1>11. \A k \in 1..index - 1 : list[k] # o
  BY <1>2, <1>4, <1>5, <1>6
<1>12. index' <= count' /\ list'[index'] = stack'[1].el
  BY <1>3, <1>5, <1>6, <1>7
<1>13. ASSUME NEW k \in 1..index - 1
       PROVE  /\ list'[k] = list[k] /\ list[k] \in listed /\ list[k] \in Elements
              /\ list[k] \in S => depth'[list[k]] > top
              /\ list[k] \notin S => depth'[list[k]] = depth[list[k]]
              /\ depth'[list[k]] > top => list[k] \in moved'
              /\ depth'[list[k]] <= top => ~Waits(list[k])'
  <2>1. list'[k] = list[k] /\ list[k] \in listed /\ list[k] \in Elements /\ list[k] # o
    BY <1>2, <1>3, <1>4, <1>11
  <2>2. CASE list[k] \in S
    <3>1. depth'[list[k]] > top /\ depth'[list[k]] \in Nat
      BY <1>8, <1>10, <2>1, <2>2
    <3>2. list[k] \in moved'
      BY <1>6, <1>8, <2>2, <3>1
    <3> QED BY <1>10, <2>1, <2>2, <3>1, <3>2
  <2>3. CASE list[k] \notin S
    <3>1. depth'[list[k]] = depth[list[k]] /\ (Waits(list[k])' => Waits(list[k]))
      BY <2>1, <2>3
    <3> QED BY <1>6, <2>1, <2>3, <3>1
  <2> QED BY <2>2, <2>3
<1>14. \A k \in 1..index' - 1 :
        /\ depth'[list'[k]] > top => list'[k] \in moved'
        /\ depth'[list'[k]] <= top => ~Waits(list[k])'
  BY <1>13
<1>15. \A k, j \in 1..index' - 1 :
         depth'[list'[k]] > top /\ depth'[list'[j]] > top => k = j
  BY <1>9, <1>13
<1>16. \A k \in index' + 1..Len(list') : depth'[list'[k]] >= top
  <2> SUFFICES ASSUME NEW k \in index + 1..Len(list') PROVE depth'[list'[k]] >= top
    OBVIOUS
  <2>1. CASE k \in Len(list) + 1..Len(list')
    BY <1>3, <1>8, <2>1
  <2>2. CASE k \in 1..Len(list)
    <3>1. list'[k] = list[k] /\ list[k] \in listed /\ depth[list[k]] >= top
      BY <1>2, <1>3, <1>6, <2>2
    <3>2. CASE list[k] \in S
      BY <1>8, <3>1, <3>2
    <3>3. CASE list[k] \notin S
      BY <3>1, <3>3
    <3> QED BY <3>2, <3>3
  <2> QED BY <1>2, <1>3, <2>1, <2>2
<1>17. ~(count' = Len(list') /\ ~resort')
  <2> SUFFICES ASSUME count = Len(list'), ~resort' PROVE FALSE
    OBVIOUS
  <2>1. Len(list') = Len(list)
    BY <1>1, <1>2, <1>3
  <2> QED BY <1>3, <2>1
<1>18. WithinInv'
  BY <1>7, <1>12, <1>14, <1>15, <1>16, <1>17 DEF WithinInv
<1>19. index' <= count' + 1 /\ count' <= Len(list')
  BY <1>1, <1>2, <1>3
<1> QED BY <1>18, <1>19 DEF ScopeInv

\* What is built within the element being rebuilt is deeper than that.
LEMMA BuildDepth ==
  ASSUME IInv, NEW e, Builds(e)
  PROVE  /\ phase = "scope" /\ stack # <<>> /\ e \in Elements
         /\ stack[1].el \in Elements /\ 1 \in 1..Len(stack)
         /\ depth[e] \in Nat /\ depth[stack[1].el] \in Nat
         /\ depth[e] >= depth[stack[1].el]
         /\ depth[e] = depth[stack[1].el] => e = stack[1].el
<1>1. TypeOK /\ StackInv
  BY DEF IInv
<1>2. /\ phase = "scope" /\ stack # <<>> /\ e \in Elements
      /\ Len(stack) \in 1..Len(stack) /\ stack[Len(stack)].el = e
  BY <1>1, BuildFacts
<1>3. 1 \in 1..Len(stack) /\ depth[stack[1].el] <= depth[e]
  BY <1>1, <1>2, StackDepth
<1>4. stack[1].el \in Elements
  BY <1>1, <1>3, TopOfStack
<1>5. depth[e] \in Nat /\ depth[stack[1].el] \in Nat
  BY <1>1, <1>2, <1>4 DEF TypeOK
<1>6. ASSUME e # stack[1].el PROVE depth[e] > depth[stack[1].el]
  <2>1. Len(stack) # 1
    BY <1>2, <1>6
  <2>2. Len(stack) > 1
    <3>1. Len(stack) \in Nat
      BY <1>1, TopOfStack
    <3>2. \A n \in Nat : n \in 1..n /\ n # 1 => n > 1
      OBVIOUS
    <3> QED BY <1>2, <2>1, <3>1, <3>2
  <2> QED BY <1>1, <1>2, <2>2 DEF StackInv
<1> QED BY <1>2, <1>3, <1>4, <1>5, <1>6

LEMMA MarkScope ==
  ASSUME IInv, IInv', ScopeInv, NEW e \in Elements, Mark(e)
  PROVE  ScopeInv'
<1>1. /\ parent' = parent /\ life' = life /\ depth' = depth /\ phase' = phase
      /\ index' = index /\ count' = count /\ stack' = stack /\ moved' = moved
      /\ dirty' = dirty \cup {e} /\ Schedule({e})
      /\ phase \in {"idle", "callbacks"} \/ (stack # <<>> /\ IsIn(e, stack[Len(stack)].el))
  BY DEF Mark, MarkNeedsBuild, treeVars, scopeVars
<1> SUFFICES ASSUME phase = "scope" PROVE ScopeInv'
  BY <1>1 DEF ScopeInv
<1> DEFINE b == stack[Len(stack)].el
<1>2. stack # <<>> /\ b \in Path(e) /\ Builds(b)
  BY <1>1 DEF IsIn, Builds
<1>3. /\ depth[b] \in Nat /\ depth[stack[1].el] \in Nat
      /\ depth[b] >= depth[stack[1].el]
      /\ depth[b] = depth[stack[1].el] => b = stack[1].el
  BY <1>2, BuildDepth
<1>4. depth[b] <= depth[e] /\ (b # e => depth[b] < depth[e])
  BY <1>2, AboveFacts DEF IInv
<1>5. depth[e] \in Nat
  BY DEF IInv, TypeOK
<1>6. /\ depth'[e] \in Nat /\ depth'[e] >= depth[stack[1].el]
      /\ depth'[e] = depth[stack[1].el] => e = stack[1].el
      /\ depth'[e] = depth[e]
  BY <1>1, <1>3, <1>4, <1>5
<1>7. \A x \in listed \ {e} : depth'[x] = depth[x] /\ (Waits(x)' => Waits(x))
  BY <1>1 DEF Waits, Active
<1>8. \A k, j \in 1..index - 1 :
        /\ depth'[list[k]] > depth[stack[1].el]
        /\ depth'[list[j]] > depth[stack[1].el]
        => k = j
  BY <1>1, <1>2, Within DEF WithinInv
<1>9. {e} \in SUBSET Elements /\ {e} # {}
  OBVIOUS
<1>10. \A x \in {e} : /\ depth'[x] \in Nat /\ depth'[x] >= depth[stack[1].el]
                      /\ depth'[x] = depth[stack[1].el] => x = stack[1].el
                      /\ x \in moved' \/ depth'[x] = depth[x]
  BY <1>6
<1> HIDE DEF b
<1> QED BY <1>1, <1>2, <1>7, <1>8, <1>9, <1>10, WithinGrows

LEMMA UpdateScope ==
  ASSUME IInv, IInv', ScopeInv, NEW e \in Elements, NEW c \in Elements,
         Update(e, c) \/ Deactivate(e, c) \/ Mount(e, c)
  PROVE  ScopeInv'
<1>1. Builds(e) /\ index' = index /\ count' = count /\ list' = list /\ resort' = resort
      /\ moved' = moved
  BY DEF Update, Deactivate, Mount, listVars
<1>2. phase = "scope" /\ stack # <<>> /\ stack[1].el \in Elements /\ 1 \in 1..Len(stack)
  BY <1>1, BuildDepth
<1>3. stack' # <<>> /\ stack'[1].el = stack[1].el
  BY <1>2, StepsGrowStack DEF IInv
<1>4. \A x \in Elements : life[x] # "unmounted" =>
         depth'[x] = depth[x] /\ (Waits(x)' => Waits(x))
  <2>1. CASE Update(e, c)
    BY <2>1 DEF Update, treeVars, Waits, Active
  <2>2. CASE Deactivate(e, c)
    <3>1. /\ depth' = depth /\ dirty' = dirty
          /\ life' = [x \in Elements |-> IF IsIn(x, c) THEN "inactive" ELSE life[x]]
      BY <2>2 DEF Deactivate
    <3> QED BY <3>1 DEF Waits, Active
  <2>3. CASE Mount(e, c)
    <3>1. /\ depth' = [depth EXCEPT ![c] = depth[e] + 1] /\ dirty' = dirty \cup {c}
          /\ life' = [life EXCEPT ![c] = "active"] /\ life[c] = "unmounted"
      BY <2>3 DEF Mount
    <3>2. depth \in [Elements -> Nat] /\ DOMAIN life = Elements
      BY DEF IInv, TypeOK
    <3> QED BY <3>1, <3>2 DEF Waits, Active
  <2> QED BY <2>1, <2>2, <2>3
<1>5. \A x \in listed : x \in Elements /\ life[x] # "unmounted"
  BY DEF IInv, TypeOK, ListInv
<1>6. life[stack[1].el] # "unmounted"
  BY <1>2 DEF IInv, StackInv, Active
<1>7. depth'[stack[1].el] = depth[stack[1].el]
  BY <1>2, <1>4, <1>6
<1>8. \A x \in listed : depth'[x] = depth[x] /\ (Waits(x)' => Waits(x))
  BY <1>4, <1>5
<1> QED BY <1>1, <1>2, <1>3, <1>7, <1>8, WithinStays

\* Only here does it matter how many elements move.
LEMMA RetakeScope ==
  ASSUME MaxMoves <= 1,
         IInv, IInv', ScopeInv, NEW e \in Elements, NEW c \in Elements, Retake(e, c)
  PROVE  ScopeInv'
<1>1. /\ Builds(e) /\ ~IsIn(e, c)
      /\ Cardinality((moved \cup Subtree(c)) \cap listed) <= MaxMoves
      /\ life' = [x \in Elements |-> IF IsIn(x, c) THEN "active" ELSE life[x]]
      /\ depth' = NewDepth(e, c) /\ dirty' = dirty \cup Subtree(c)
      /\ Schedule(Subtree(c)) /\ moved' = moved \cup Subtree(c)
      /\ phase' = phase /\ index' = index /\ count' = count
      /\ \A i \in 1..Len(stack) : depth'[stack[i].el] = depth[stack[i].el]
  BY RetakeFacts
<1>2. /\ phase = "scope" /\ stack # <<>> /\ stack[1].el \in Elements /\ 1 \in 1..Len(stack)
      /\ depth[e] \in Nat /\ depth[stack[1].el] \in Nat /\ depth[e] >= depth[stack[1].el]
  BY <1>1, BuildDepth
<1>3. stack' # <<>> /\ stack'[1].el = stack[1].el
  BY <1>2, StepsGrowStack DEF IInv
<1>4. /\ NewDepth(e, c) \in [Elements -> Nat]
      /\ \A x \in Elements :
           /\ ~IsIn(x, c) => NewDepth(e, c)[x] = depth[x]
           /\ IsIn(x, c) => NewDepth(e, c)[x] > depth[e]
  BY NewDepthFacts DEF IInv
<1>5. Subtree(c) \in SUBSET Elements /\ c \in Subtree(c)
  BY SubtreeFacts DEF Subtree, IInv
<1>6. \A x \in Elements : x \in Subtree(c) <=> IsIn(x, c)
  BY DEF Subtree
<1>7. \A x \in listed \ Subtree(c) : depth'[x] = depth[x] /\ (Waits(x)' => Waits(x))
  <2> SUFFICES ASSUME NEW x \in listed \ Subtree(c)
               PROVE  depth'[x] = depth[x] /\ (Waits(x)' => Waits(x))
    OBVIOUS
  <2>1. x \in Elements /\ ~IsIn(x, c)
    BY <1>6 DEF IInv, TypeOK
  <2> QED BY <1>1, <1>4, <2>1 DEF Waits, Active
<1>8. \A x \in Subtree(c) :
        /\ depth'[x] \in Nat /\ depth'[x] >= depth[stack[1].el]
        /\ depth'[x] = depth[stack[1].el] => x = stack[1].el
        /\ x \in moved' \/ depth'[x] = depth[x]
  <2> SUFFICES ASSUME NEW x \in Subtree(c)
               PROVE  /\ depth'[x] \in Nat /\ depth'[x] > depth[stack[1].el]
                      /\ x \in moved'
    BY <1>2
  <2>1. x \in Elements /\ IsIn(x, c)
    BY <1>5, <1>6
  <2>2. depth'[x] \in Nat /\ depth'[x] > depth[e]
    BY <1>1, <1>4, <2>1
  <2> QED BY <1>1, <1>2, <2>2
<1>9. /\ Len(list) \in Nat /\ index \in Nat \ {0} /\ count \in Nat
      /\ \A k \in 1..Len(list) : list[k] \in listed /\ list[k] \in Elements
      /\ \A k, j \in 1..Len(list) : list[k] = list[j] => k = j
  BY ListedFacts DEF IInv, TypeOK
<1>10. WithinInv /\ index <= count /\ count <= Len(list)
  BY <1>2, Within
<1>11. \A k \in 1..index - 1 : k \in 1..Len(list)
  BY <1>9, <1>10
<1>12. \A k \in 1..index - 1 : depth'[list[k]] > depth[stack[1].el] =>
         list[k] \in (moved \cup Subtree(c)) \cap listed
  <2> SUFFICES ASSUME NEW k \in 1..index - 1, depth'[list[k]] > depth[stack[1].el]
               PROVE  list[k] \in moved \cup Subtree(c) /\ list[k] \in listed
    OBVIOUS
  <2>1. list[k] \in listed /\ list[k] \in Elements
    BY <1>9, <1>11
  <2>2. CASE list[k] \notin Subtree(c)
    <3>1. depth[list[k]] > depth[stack[1].el]
      BY <1>7, <2>1, <2>2
    <3> QED BY <1>10, <2>1, <3>1 DEF WithinInv
  <2> QED BY <2>1, <2>2
<1>13. \A k, j \in 1..index - 1 :
         /\ depth'[list[k]] > depth[stack[1].el]
         /\ depth'[list[j]] > depth[stack[1].el]
         => k = j
  <2> SUFFICES ASSUME NEW k \in 1..index - 1, NEW j \in 1..index - 1,
                      depth'[list[k]] > depth[stack[1].el],
                      depth'[list[j]] > depth[stack[1].el]
               PROVE  k = j
    OBVIOUS
  <2> DEFINE M == (moved \cup Subtree(c)) \cap listed
  <2>1. list[k] \in M /\ list[j] \in M
    BY <1>12
  <2>2. M \in SUBSET Elements
    BY DEF IInv, TypeOK
  <2>3. IsFiniteSet(M)
    BY <2>2, Members, FS_Subset
  <2>4. Cardinality(M) <= 1
    <3>1. Cardinality(M) \in Nat /\ MaxMoves \in Nat
      BY <2>3, FS_CardinalityType, BuildOwnerAssumption
    <3> QED BY <1>1, <3>1
  <2> HIDE DEF M
  <2>5. list[k] = list[j]
    BY <2>1, <2>3, <2>4, AtMostOne
  <2> QED BY <1>9, <1>11, <2>5
<1>14. depth'[stack[1].el] = depth[stack[1].el] /\ moved \subseteq moved' /\ Subtree(c) # {}
  BY <1>1, <1>2, <1>5
<1> QED BY <1>1, <1>2, <1>3, <1>5, <1>7, <1>8, <1>13, <1>14, WithinGrows

\* If at most one of the first n numbers is missing from a set that an injection
\* takes below p without meeting q, then n is less than p.
LEMMA Crowded ==
  ASSUME NEW n \in Nat \ {0}, NEW p \in Nat, NEW q \in 1..p - 1,
         NEW low \in SUBSET (1..n),
         \A i, j \in (1..n) \ low : i = j,
         NEW f \in [low -> (1..p - 1) \ {q}],
         \A i, j \in low : f[i] = f[j] => i = j
  PROVE  n < p
<1>1. /\ IsFiniteSet(1..n) /\ Cardinality(1..n) = n
      /\ IsFiniteSet(1..p - 1) /\ Cardinality(1..p - 1) = p - 1
  <2>1. 1 \in Int /\ n \in Int /\ p - 1 \in Int /\ 1 <= n /\ 1 <= p - 1
    OBVIOUS
  <2>2. IsFiniteSet(1..n) /\ Cardinality(1..n) = n - 1 + 1
    BY <2>1, FS_Interval
  <2>3. IsFiniteSet(1..p - 1) /\ Cardinality(1..p - 1) = p - 1 - 1 + 1
    BY <2>1, FS_Interval
  <2> QED BY <2>1, <2>2, <2>3
<1>2. /\ IsFiniteSet((1..p - 1) \ {q})
      /\ Cardinality((1..p - 1) \ {q}) = p - 2
  <2>1. Cardinality((1..p - 1) \ {q}) = Cardinality(1..p - 1) - 1
        /\ IsFiniteSet((1..p - 1) \ {q})
    BY <1>1, FS_RemoveElement
  <2> QED BY <1>1, <2>1
<1>3. f \in Injection(low, (1..p - 1) \ {q})
  BY DEF Injection, IsInjective
<1>4. Cardinality(low) <= p - 2 /\ IsFiniteSet(low)
  <2> DEFINE T == (1..p - 1) \ {q}
  <2>0. IsFiniteSet(T) /\ f \in Injection(low, T)
    BY <1>2, <1>3
  <2> HIDE DEF T
  <2>1. Cardinality(low) <= Cardinality(T) /\ IsFiniteSet(low)
    BY <2>0, FS_Injection, Zenon
  <2> QED BY <1>2, <2>1 DEF T
<1>5. PICK x : 1..n \subseteq low \cup {x}
  <2>1. CASE (1..n) \ low = {}
    BY <2>1
  <2>2. CASE (1..n) \ low # {}
    <3>1. PICK x \in 1..n : x \notin low
      BY <2>2
    <3> QED BY <3>1
  <2> QED BY <2>1, <2>2
<1>6. IsFiniteSet(low \cup {x}) /\ Cardinality(low \cup {x}) <= Cardinality(low) + 1
  <2>1. Cardinality(low) \in Nat
    BY <1>4, FS_CardinalityType
  <2>2. /\ IsFiniteSet(low \cup {x})
        /\ Cardinality(low \cup {x}) = IF x \in low THEN Cardinality(low) ELSE Cardinality(low) + 1
    BY <1>4, FS_AddElement
  <2> QED BY <2>1, <2>2
<1>7. Cardinality(1..n) <= Cardinality(low \cup {x})
  BY <1>5, <1>6, FS_Subset
<1>8. Cardinality(low) \in Nat /\ Cardinality(low \cup {x}) \in Nat
  BY <1>4, <1>6, FS_CardinalityType
<1> QED BY <1>1, <1>4, <1>6, <1>7, <1>8

\* base.go:687-693: when the list is sorted again, the index moves back far
\* enough, because at most one element to the left of it has moved right.
LEMMA WalkBackSuffices ==
  ASSUME IInv, ScopeInv, NEW e, phase = "scope", stack # <<>>, stack[1].el = e,
         NEW t \in Sortings(list, depth, dirty \ {e}),
         NEW p \in 0..index, p > 0 => t[p] \notin dirty \ {e}
  PROVE  \A k \in 1..p : ~(t[k] \in dirty \ {e} /\ Active(t[k]))
<1> DEFINE D == dirty \ {e}
           top == depth[stack[1].el]
<1>1. /\ Len(list) \in Nat /\ index \in Nat \ {0} /\ count \in Nat
      /\ \A k \in 1..Len(list) : list[k] \in listed /\ list[k] \in Elements
      /\ \A x \in listed : \E k \in 1..Len(list) : x = list[k]
      /\ \A k, j \in 1..Len(list) : list[k] = list[j] => k = j
  BY ListedFacts DEF IInv, TypeOK
<1>2. /\ index <= count /\ count <= Len(list) /\ list[index] = e
      /\ \A k \in 1..index - 1 : depth[list[k]] <= top => ~Waits(list[k])
      /\ \A k, j \in 1..index - 1 :
           depth[list[k]] > top /\ depth[list[j]] > top => k = j
      /\ \A k \in index + 1..Len(list) : depth[list[k]] >= top
  BY Within DEF WithinInv
<1>3. index \in 1..Len(list) /\ 1..index \subseteq 1..Len(list)
  BY <1>1, <1>2
<1>4. /\ Len(t) = Len(list) /\ Range(t) = listed /\ t \in Seq(Elements)
      /\ \A i, j \in 1..Len(t) : i < j =>
           /\ depth[t[i]] <= depth[t[j]]
           /\ depth[t[i]] = depth[t[j]] => t[i] \notin D \/ t[j] \in D
  <2>1. list \in Seq(Elements) /\ IsInjective(list) /\ listed = Range(list)
    BY DEF IInv, TypeOK, ListInv
  <2> HIDE DEF D
  <2>2. t \in Sortings(list, depth, D)
    BY DEF D
  <2> QED BY <2>1, <2>2, SortingFacts
<1>5. /\ \A k \in 1..Len(list) : t[k] \in listed /\ t[k] \in Elements
      /\ \A x \in listed : \E k \in 1..Len(list) : x = t[k]
  BY <1>4, Indices
<1>6. \A x \in Elements : depth[x] \in Nat
  BY DEF IInv, TypeOK
<1>7. top \in Nat /\ e = stack[1].el
  BY <1>1, <1>2, <1>3, <1>6
<1>8. \A x \in listed : x \in D /\ Active(x) => depth[x] >= top
  <2> SUFFICES ASSUME NEW x \in listed, x \in D, Active(x) PROVE depth[x] >= top
    OBVIOUS
  <2>1. PICK m \in 1..Len(list) : x = list[m]
    BY <1>1
  <2>2. depth[list[m]] \in Nat /\ Waits(list[m]) /\ m # index
    BY <1>1, <1>2, <1>6, <2>1 DEF Waits
  <2>3. CASE m \in 1..index - 1
    BY <1>2, <1>7, <2>1, <2>2, <2>3
  <2>4. CASE m \in index + 1..Len(list)
    BY <1>2, <2>1, <2>4
  <2> QED BY <1>1, <1>3, <2>2, <2>3, <2>4
<1>9. \A k \in 1..index : depth[list[k]] <= top => ~(list[k] \in D /\ Active(list[k]))
  <2> SUFFICES ASSUME NEW k \in 1..index, depth[list[k]] <= top, list[k] \in D, Active(list[k])
               PROVE  FALSE
    OBVIOUS
  <2>1. k # index
    BY <1>2
  <2>2. k \in 1..index - 1
    BY <1>1, <2>1
  <2> QED BY <1>2, <2>2 DEF Waits
<1> SUFFICES ASSUME NEW q \in 1..p, t[q] \in D, Active(t[q]) PROVE FALSE
  OBVIOUS
<1>10. t[p] \notin D /\ p \in 1..index
  BY <1>1
<1> HIDE DEF D, top
<1>11. q # p /\ p \in 1..Len(list) /\ q \in 1..Len(list) /\ q < p
  BY <1>1, <1>3, <1>10
<1>12. depth[t[q]] <= depth[t[p]] /\ depth[t[q]] # depth[t[p]]
  BY <1>4, <1>10, <1>11
<1>13. depth[t[q]] >= top /\ depth[t[p]] > top
  <2>1. depth[t[q]] \in Nat /\ depth[t[p]] \in Nat
    BY <1>5, <1>6, <1>11
  <2>2. depth[t[q]] >= top
    BY <1>5, <1>8, <1>11
  <2> QED BY <1>7, <1>12, <2>1, <2>2
<1> DEFINE low == {k \in 1..index : depth[list[k]] <= top}
           f == [k \in low |-> CHOOSE j \in 1..Len(list) : list[k] = t[j]]
<1>14. \A k \in low : /\ f[k] \in 1..Len(list) /\ list[k] = t[f[k]]
                      /\ f[k] \in (1..p - 1) \ {q}
  <2> SUFFICES ASSUME NEW k \in low
               PROVE  /\ f[k] \in 1..Len(list) /\ list[k] = t[f[k]]
                      /\ f[k] \in (1..p - 1) \ {q}
    OBVIOUS
  <2>1. list[k] \in listed /\ k \in 1..index /\ depth[list[k]] <= top
    BY <1>1, <1>3
  <2>2. \E j \in 1..Len(list) : list[k] = t[j]
    BY <1>5, <2>1
  <2>3. f[k] \in 1..Len(list) /\ list[k] = t[f[k]]
    BY <2>2
  <2> HIDE DEF f, low
  <2>4. f[k] # q /\ f[k] # p
    <3>1. f[k] # q
      BY <1>9, <2>1, <2>3
    <3>2. f[k] # p
      <4>1. depth[list[k]] \in Nat /\ depth[t[p]] \in Nat
        BY <1>5, <1>6, <1>11, <2>3
      <4> QED BY <1>7, <1>13, <2>1, <2>3, <4>1
    <3> QED BY <3>1, <3>2
  <2>5. ~(f[k] > p)
    <3> SUFFICES ASSUME f[k] > p PROVE FALSE
      OBVIOUS
    <3>1. depth[t[p]] <= depth[t[f[k]]]
      BY <1>4, <1>11, <2>3
    <3>2. depth[t[f[k]]] \in Nat /\ depth[t[p]] \in Nat
      BY <1>5, <1>6, <1>11, <2>3
    <3> QED BY <1>7, <1>13, <2>1, <2>3, <3>1, <3>2
  <2>6. p \in Nat /\ f[k] \in Nat /\ f[k] >= 1
    BY <1>1, <2>3
  <2> QED BY <2>3, <2>4, <2>5, <2>6
<1>15. \A i, j \in (1..index) \ low : i = j
  <2> SUFFICES ASSUME NEW i \in 1..index, NEW j \in 1..index, i \notin low, j \notin low
               PROVE  i = j
    OBVIOUS
  <2>1. depth[list[i]] \in Nat /\ depth[list[j]] \in Nat
    BY <1>1, <1>3, <1>6
  <2>2. ~(depth[list[i]] <= top) /\ ~(depth[list[j]] <= top)
    OBVIOUS
  <2>3. depth[list[i]] > top /\ depth[list[j]] > top
    BY <1>7, <2>1, <2>2
  <2>4. depth[list[index]] = top
    BY <1>2, <1>7 DEF top
  <2>5. i # index /\ j # index
    BY <1>7, <2>2, <2>4
  <2>6. i \in 1..index - 1 /\ j \in 1..index - 1
    BY <1>1, <2>5
  <2> QED BY <1>2, <2>3, <2>6
<1>16. low \in SUBSET (1..index) /\ f \in [low -> (1..p - 1) \ {q}]
  BY <1>14
<1>17. \A i, j \in low : f[i] = f[j] => i = j
  <2> SUFFICES ASSUME NEW i \in low, NEW j \in low, f[i] = f[j] PROVE i = j
    OBVIOUS
  <2>1. list[i] = list[j]
    <3>1. list[i] = t[f[i]] /\ list[j] = t[f[j]]
      BY <1>14
    <3> HIDE DEF f, low
    <3> QED BY <3>1
  <2>2. i \in 1..Len(list) /\ j \in 1..Len(list)
    BY <1>3
  <2> QED BY <1>1, <2>1, <2>2
<1> HIDE DEF low, f
<1>18. p \in Nat /\ q \in 1..p - 1 /\ index \in Nat \ {0}
  BY <1>1, <1>11
<1>19. index < p
  BY <1>15, <1>16, <1>17, <1>18, Crowded
<1> QED BY <1>1, <1>10, <1>19

LEMMA FinishScope ==
  ASSUME IInv, IInv', ScopeInv, NEW e \in Elements, Finish(e)
  PROVE  ScopeInv'
<1>1. /\ Builds(e) /\ dirty' = dirty \ {e} /\ stack' = SubSeq(stack, 1, Len(stack) - 1)
      /\ IF Len(stack) = 1 THEN Advance(dirty \ {e})
                           ELSE UNCHANGED <<list, resort, count, index>>
      /\ life' = life /\ depth' = depth /\ phase' = phase /\ moved' = moved
  BY DEF Finish, treeVars
<1>2. /\ phase = "scope" /\ stack # <<>> /\ Len(stack) \in Nat
      /\ 1 \in 1..Len(stack) /\ e = stack[Len(stack)].el
  BY <1>1, BuildDepth, TopOfStack DEF IInv
<1>3. /\ Len(stack') = Len(stack) - 1
      /\ \A i \in 1..Len(stack) - 1 : stack'[i].el = stack[i].el
      /\ Len(stack) = 1 <=> stack' = <<>>
  BY <1>1, <1>2, PopFacts DEF IInv
<1>4. CASE Len(stack) # 1
  <2>1. stack' # <<>> /\ 1 \in 1..Len(stack) - 1
    BY <1>2, <1>3, <1>4
  <2>2. stack'[1].el = stack[1].el
    BY <1>3, <2>1
  <2>3. \A x \in listed : depth'[x] = depth[x] /\ (Waits(x)' => Waits(x))
    BY <1>1 DEF Waits, Active
  <2>4. index' = index /\ count' = count /\ list' = list /\ resort' = resort
    BY <1>1, <1>4
  <2> QED BY <1>1, <1>2, <2>1, <2>2, <2>3, <2>4, WithinStays
<1>5. CASE Len(stack) = 1
  <2>1. stack' = <<>> /\ e = stack[1].el /\ Advance(dirty \ {e})
    BY <1>1, <1>2, <1>3, <1>5
  <2>2. /\ Len(list) \in Nat /\ index \in Nat \ {0} /\ count \in Nat
        /\ \A k \in 1..Len(list) : list[k] \in Elements
    BY ListedFacts DEF IInv, TypeOK
  <2>3. WithinInv /\ index <= count /\ count <= Len(list)
    BY <1>2, Within
  <2>4. \A x : Waits(x)' <=> x \in dirty \ {e} /\ Active(x)
    BY <1>1 DEF Waits, Active
  <2>5. CASE ~(count < Len(list) \/ resort)
    <3>1. index' = index + 1 /\ list' = list /\ resort' = resort /\ count' = count
      BY <2>1, <2>5 DEF Advance
    <3>2. count = Len(list) /\ ~resort
      BY <2>2, <2>3, <2>5
    <3>3. Ascends(list)
      BY <2>3, <3>2 DEF WithinInv
    <3>4. list[index] = e /\ \A k \in 1..index - 1 : depth[list[k]] <= depth[e] => ~Waits(list[k])
      BY <2>1, <2>3 DEF WithinInv
    <3>5. \A k \in 1..index - 1 : ~Waits(list[k])
      <4> SUFFICES ASSUME NEW k \in 1..index - 1 PROVE ~Waits(list[k])
        OBVIOUS
      <4>1. k \in 1..Len(list) /\ index \in 1..Len(list) /\ k < index
        BY <2>2, <2>3
      <4>2. depth[list[k]] <= depth[list[index]]
        BY <3>3, <4>1 DEF Ascends
      <4> QED BY <3>4, <4>2
    <3>6. \A k \in 1..index' - 1 : k \in 1..index - 1 \/ k = index
      BY <2>2, <3>1
    <3>7. \A x : Waits(x)' => Waits(x) /\ x # e
      BY <2>4 DEF Waits
    <3>8. \A k \in 1..index' - 1 : ~Waits(list[k])'
      BY <3>1, <3>4, <3>5, <3>6, <3>7
    <3>9. Ascends(list)'
      BY <1>1, <3>1, <3>3 DEF Ascends
    <3>10. BetweenInv'
      BY <3>1, <3>2, <3>8, <3>9 DEF BetweenInv
    <3>11. index' <= count' + 1 /\ count' <= Len(list')
      BY <2>2, <2>3, <3>1
    <3> QED BY <2>1, <3>10, <3>11 DEF ScopeInv
  <2>6. CASE count < Len(list) \/ resort
    <3>1. /\ list' \in Sortings(list, depth, dirty \ {e}) /\ resort' = FALSE
          /\ count' = Len(list) /\ index' = WalkBack(list', index + 1, dirty \ {e})
      BY <2>1, <2>6 DEF Advance
    <3>2. PICK p \in 0..index :
            /\ WalkBack(list', index + 1, dirty \ {e}) = 1 + p
            /\ p > 0 => list'[p] \notin dirty \ {e}
      BY <2>2, WalkBackFacts
    <3>3. index' = 1 + p /\ p \in Nat
      BY <2>2, <3>1, <3>2
    <3>4. \A k \in 1..p : ~(list'[k] \in dirty \ {e} /\ Active(list'[k]))
      BY <1>2, <2>1, <3>1, <3>2, WalkBackSuffices
    <3>5. /\ Len(list') = Len(list)
          /\ \A i, j \in 1..Len(list') : i < j => depth[list'[i]] <= depth[list'[j]]
      <4>1. list \in Seq(Elements) /\ IsInjective(list)
        BY DEF IInv, TypeOK
      <4> DEFINE D == dirty \ {e}
      <4>2. list' \in Sortings(list, depth, D)
        BY <3>1
      <4> HIDE DEF D
      <4> QED BY <4>1, <4>2, SortingFacts
    <3>6. index' - 1 = p
      BY <3>3
    <3>7. \A k \in 1..index' - 1 : ~Waits(list[k])'
      BY <2>4, <3>4, <3>6
    <3>8. Ascends(list)'
      BY <1>1, <3>5 DEF Ascends
    <3>9. BetweenInv'
      BY <3>1, <3>5, <3>7, <3>8 DEF BetweenInv
    <3>10. index' <= count' + 1 /\ count' <= Len(list')
      <4>1. p <= Len(list)
        BY <2>2, <2>3, <3>2
      <4> QED BY <2>2, <3>1, <3>3, <3>5, <4>1
    <3> QED BY <2>1, <3>9, <3>10 DEF ScopeInv
  <2> QED BY <2>5, <2>6
<1> QED BY <1>4, <1>5

LEMMA ScopeStep ==
  ASSUME MaxMoves <= 1, IInv, IInv', ScopeInv, [Next]_vars
  PROVE  ScopeInv'
<1>1. ASSUME NEW e \in Elements, Mark(e) PROVE ScopeInv'
  BY <1>1, MarkScope
<1>2. CASE DrawFrame
  BY <1>2 DEF DrawFrame, ScopeInv
<1>3. CASE BuildScope
  BY <1>3, BuildScopeStarts
<1>4. CASE Rebuild
  BY <1>4, RebuildScope
<1>5. CASE EndScope
  BY <1>5 DEF EndScope, ScopeInv
<1>6. CASE FinalizeTree
  BY <1>6 DEF FinalizeTree, ScopeInv
<1>7. ASSUME NEW e \in Elements, Finish(e) PROVE ScopeInv'
  BY <1>7, FinishScope
<1>8. ASSUME NEW e \in Elements, NEW c \in Elements,
             Update(e, c) \/ Deactivate(e, c) \/ Mount(e, c)
      PROVE  ScopeInv'
  BY <1>8, UpdateScope
<1>9. ASSUME NEW e \in Elements, NEW c \in Elements, Retake(e, c) PROVE ScopeInv'
  BY <1>9, RetakeScope
<1>10. CASE UNCHANGED vars
  BY <1>10 DEF vars, ScopeInv, BetweenInv, WithinInv, Ascends, Waits, Active
<1> QED
  BY <1>1, <1>2, <1>3, <1>4, <1>5, <1>6, <1>7, <1>8, <1>9, <1>10, Zenon
     DEF Next, Program, Draw, Build

\* Nothing waits when BuildScope ends: it has walked over the whole list.
LEMMA LateStep ==
  ASSUME IInv, WaitInv, ScopeInv, [Next]_vars
  PROVE  LateInv'
<1>1. CASE phase = "late" /\ phase' = "late"
  <2>1. UNCHANGED vars
    <3>1. stack = <<>> /\ \A e \in Elements : ~Builds(e)
      BY <1>1 DEF IInv, StackInv, Builds
    <3>2. \A e \in Elements : ~Build(e)
      BY <3>1 DEF Build, Finish, Update, Deactivate, Mount, Retake
    <3>3. \A e \in Elements : ~Mark(e)
      BY <1>1, <3>1 DEF Mark
    <3>4. ~DrawFrame /\ ~BuildScope /\ ~Rebuild /\ ~EndScope /\ ~FinalizeTree
      BY <1>1 DEF DrawFrame, BuildScope, Rebuild, EndScope, FinalizeTree
    <3> QED BY <3>2, <3>3, <3>4 DEF Next, Program, Draw
  <2>2. life' = life /\ dirty' = dirty
    BY <2>1 DEF vars
  <2> QED BY <1>1, <2>2 DEF WaitInv, LateInv, Waits, Active
<1>2. CASE phase # "late" /\ phase' = "late"
  <2>1. EndScope
    <3>1. ASSUME NEW e \in Elements, Mark(e) PROVE FALSE
      BY <1>2, <3>1 DEF Mark, scopeVars
    <3>2. ~DrawFrame /\ ~BuildScope /\ ~FinalizeTree /\ phase' # phase
      BY <1>2 DEF DrawFrame, BuildScope, FinalizeTree
    <3>3. ~Rebuild
      BY <3>2 DEF Rebuild
    <3>4. ASSUME NEW e \in Elements, Build(e) PROVE FALSE
      BY <3>2, <3>4 DEF Build, Finish, Update, Deactivate, Mount, Retake
    <3>5. ~UNCHANGED vars
      BY <3>2 DEF vars
    <3> QED BY <3>1, <3>2, <3>3, <3>4, <3>5 DEF Next, Program, Draw
  <2>2. phase = "scope" /\ stack = <<>> /\ index > count /\ life' = life /\ dirty' = dirty
    BY <2>1 DEF EndScope, treeVars
  <2>3. count = Len(list) /\ \A k \in 1..index - 1 : ~Waits(list[k])
    BY <2>2, Between DEF BetweenInv
  <2>4. /\ Len(list) \in Nat /\ index \in Nat
        /\ \A x \in listed : \E k \in 1..Len(list) : x = list[k]
    BY ListedFacts DEF IInv, TypeOK
  <2>5. \A k \in 1..Len(list) : k \in 1..index - 1
    BY <2>2, <2>3, <2>4
  <2>6. \A x \in listed : ~Waits(x)
    BY <2>3, <2>4, <2>5
  <2>7. Building = {}
    BY <2>2, BuildingFacts DEF IInv
  <2>8. \A x \in Elements : ~Waits(x)
    BY <2>6, <2>7 DEF WaitInv, Listed
  <2> QED BY <2>2, <2>8 DEF LateInv, Waits, Active
<1>3. CASE phase' # "late"
  BY <1>3 DEF LateInv
<1> QED BY <1>1, <1>2, <1>3

FullInv == IInv /\ WaitInv /\ ScopeInv

LEMMA FullInductive ==
  ASSUME MaxMoves <= 1
  PROVE  Spec => []FullInv
<1>1. Init => FullInv
  <2> SUFFICES ASSUME Init PROVE FullInv
    OBVIOUS
  <2>1. dirty = {} /\ phase = "idle"
    BY DEF Init
  <2> QED BY <2>1, Starts DEF FullInv, WaitInv, Listed, LateInv, ScopeInv, Waits
<1>2. FullInv /\ [Next]_vars => FullInv'
  <2> SUFFICES ASSUME FullInv, [Next]_vars PROVE FullInv'
    OBVIOUS
  <2>1. IInv /\ WaitInv /\ ScopeInv /\ Listed
    BY DEF FullInv, WaitInv
  <2>2. IInv'
    BY <2>1, StepKeeps
  <2>3. ScopeInv'
    BY <2>1, <2>2, ScopeStep
  <2>4. LateInv'
    BY <2>1, LateStep
  <2>5. Listed'
    BY <2>1, <2>2, <2>4, ListedStep DEF LateInv, Listed
  <2> QED BY <2>2, <2>3, <2>4, <2>5 DEF FullInv, WaitInv
<1> QED BY <1>1, <1>2, PTL DEF Spec

-----------------------------------------------------------------------------
(* What follows *)

\* An element is deeper than its parent, wherever deactivating, retaking and
\* mounting have put it, and the active elements are those below the root, for
\* any tree and any number of moves (updateDepth, base.go).
THEOREM DepthsRiseDownwards == Spec => []DeeperThanParent
<1>1. IInv => DeeperThanParent
  <2> SUFFICES ASSUME IInv PROVE DeeperThanParent
    OBVIOUS
  <2>1. TypeOK /\ TreeInv
    BY DEF IInv
  <2>2. \A x \in Elements : Active(x) <=> IsIn(x, Root)
    BY <2>1, ActiveIsBelowRoot
  <2>3. \A x \in Elements : parent[x] # None => depth[x] > depth[parent[x]]
    BY <2>1 DEF TreeInv
  <2> QED BY <2>2, <2>3 DEF DeeperThanParent
<1> QED BY <1>1, Inductive, PTL

\* inDirtyList agrees with the list, what is dirty is in it, and nothing that
\* must be built is left of BuildScope's index (base.go:687-693), if at most one
\* listed element moves in a frame.
THEOREM ListStaysSound ==
  ASSUME MaxMoves <= 1
  PROVE  Spec => []ListIsSound
<1>1. FullInv => DirtyIsListed
  <2> SUFFICES ASSUME FullInv PROVE DirtyIsListed
    OBVIOUS
  <2>1. listed = Range(list)
    BY DEF FullInv, IInv, ListInv
  <2>2. dirty \subseteq Elements
    BY DEF FullInv, IInv, TypeOK
  <2>3. \A e \in dirty : Active(e) => e \in listed \cup Building
    BY <2>2 DEF FullInv, WaitInv, Listed, Waits
  <2> QED BY <2>1, <2>3 DEF DirtyIsListed
<1>2. FullInv => AccountedFor
  <2> SUFFICES ASSUME FullInv, phase = "scope", stack = <<>>,
                      NEW k \in 1..Len(list), k < index
               PROVE  ~(Active(list[k]) /\ list[k] \in dirty)
    BY DEF AccountedFor
  <2>1. index \in Nat
    BY DEF FullInv, IInv, TypeOK
  <2>2. k \in 1..index - 1
    BY <2>1
  <2>3. ~Waits(list[k])
    BY <2>2, Between DEF FullInv, BetweenInv
  <2> QED BY <2>3 DEF Waits
<1>3. Spec => []DirtyIsListed
  BY <1>1, FullInductive, PTL
<1>4. Spec => []AccountedFor
  BY <1>2, FullInductive, PTL
<1> QED BY <1>3, <1>4, DepthsRiseDownwards, PTL DEF ListIsSound

\* No element of the tree needs to be built when the frame is laid out and
\* painted, if at most one listed element moves in a frame.
THEOREM BuiltBeforeLayout ==
  ASSUME MaxMoves <= 1
  PROVE  Spec => []LaidOutTreeIsBuilt
<1>1. FullInv => LaidOutTreeIsBuilt
  <2> SUFFICES ASSUME FullInv, phase = "late", NEW e \in dirty PROVE ~Active(e)
    BY DEF LaidOutTreeIsBuilt
  <2>1. e \in Elements
    BY DEF FullInv, IInv, TypeOK
  <2> QED BY <2>1 DEF FullInv, WaitInv, LateInv, Waits
<1> QED BY <1>1, FullInductive, PTL

\* BuildScope never rebuilds an element below one that is dirty too, if at most
\* one listed element moves in a frame.
THEOREM ParentsBuiltFirst ==
  ASSUME MaxMoves <= 1
  PROVE  Spec => ParentsFirst
<1> DEFINE P == \A e \in Elements : stack = <<>> /\ stack' # <<>> /\ stack'[1].el = e =>
                  \A a \in dirty : IsIn(e, a) => a = e
<1>1. FullInv /\ [Next]_vars => P
  <2> SUFFICES ASSUME FullInv, [Next]_vars, NEW e \in Elements, stack = <<>>, stack' # <<>>,
                      stack'[1].el = e, NEW a \in dirty, IsIn(e, a), a # e
               PROVE  FALSE
    OBVIOUS
  <2>1. TypeOK /\ TreeInv /\ IInv /\ ScopeInv /\ Listed
    BY DEF FullInv, IInv, WaitInv
  <2>2. Rebuild
    <3>1. \A x \in Elements : ~Builds(x)
      BY DEF Builds
    <3>2. \A x \in Elements : ~Build(x)
      BY <3>1 DEF Build, Finish, Update, Deactivate, Mount, Retake
    <3>3. stack' # stack
      OBVIOUS
    <3>4. ASSUME NEW x \in Elements, Mark(x) PROVE FALSE
      BY <3>3, <3>4 DEF Mark, scopeVars
    <3>5. ~DrawFrame /\ ~BuildScope /\ ~EndScope /\ ~FinalizeTree /\ ~UNCHANGED vars
      BY <3>3 DEF DrawFrame, BuildScope, EndScope, FinalizeTree, vars
    <3> QED BY <3>2, <3>4, <3>5 DEF Next, Program, Draw
  <2>3. /\ phase = "scope" /\ index <= count
        /\ Waits(list[index]) /\ stack' = <<Frame(list[index])>>
    BY <2>1, <2>2, RebuildFacts
  <2>4. list[index] = e
    BY <2>3 DEF Frame
  <2>5. /\ count = Len(list) /\ Ascends(list)
        /\ \A k \in 1..index - 1 : ~Waits(list[k])
    BY <2>1, <2>3, Between DEF BetweenInv
  <2>6. a \in Path(e) /\ a \in Elements
    BY <2>1 DEF IsIn, TypeOK
  <2>7. depth[a] < depth[e] /\ life[a] = life[e]
    BY <2>1, <2>6, AboveFacts
  <2>8. Waits(a)
    BY <2>3, <2>4, <2>7 DEF Waits, Active
  <2>9. a \in listed
    BY <2>1, <2>6, <2>8, BuildingFacts DEF Listed
  <2>10. PICK k \in 1..Len(list) : a = list[k]
    BY <2>1, <2>9, ListedFacts
  <2>11. index \in Nat \ {0} /\ Len(list) \in Nat /\ depth[a] \in Nat /\ depth[e] \in Nat
    BY <2>1, <2>6, ListedFacts DEF TypeOK
  <2>12. k # index
    BY <2>4, <2>10
  <2>13. ~(k < index)
    <3> SUFFICES ASSUME k < index PROVE FALSE
      OBVIOUS
    <3>1. k \in 1..index - 1
      BY <2>11
    <3> QED BY <2>5, <2>8, <2>10, <3>1
  <2>14. index < k /\ index \in 1..Len(list)
    BY <2>3, <2>5, <2>11, <2>12, <2>13
  <2>15. depth[e] <= depth[a]
    BY <2>4, <2>5, <2>10, <2>14 DEF Ascends
  <2> QED BY <2>7, <2>11, <2>15
<1> QED BY <1>1, FullInductive, PTL DEF Spec, ParentsFirst

=============================================================================

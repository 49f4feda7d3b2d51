---------------------------- MODULE ChildList_proofs ----------------------------
(***************************************************************************)
(* Proofs about ChildList: what the matching of old children with new       *)
(* widgets guarantees, for lists of every length, and that each child's     *)
(* render object is among those of the parent exactly once.                *)
(***************************************************************************)
EXTENDS ChildList, FiniteSetTheorems, SequenceTheorems, WellFoundedInduction, TLAPS

Records == [widget : Widgets, element : Nat, object : Nat]

TypeInv == list \in Seq(Records) /\ next \in Nat \ {0}

KeysDiffer(s) ==
  \A i, j \in 1..Len(s) : s[i].key = s[j].key => s[i].key = NoKey \/ i = j

\* The keys of the children are different, as those of every list of widgets.
KeysInv ==
  \A i, j \in 1..Len(list) :
    list[i].widget.key = list[j].widget.key => list[i].widget.key = NoKey \/ i = j

\* The children are different, and the next one will be new.
NumbersInv ==
  \A i \in 1..Len(list) :
    /\ list[i].element < next /\ list[i].object < next
    /\ \A j \in 1..Len(list) :
         list[i].element = list[j].element \/ list[i].object = list[j].object => i = j

IInv == TypeInv /\ KeysInv /\ NumbersInv

-----------------------------------------------------------------------------
(* The longest stretch of numbers in a set *)

LEMMA LeastElement ==
  ASSUME NEW T \in SUBSET Nat, T # {}
  PROVE  \E x \in T : \A y \in T : x <= y
<1>1. PICK x \in T : \A y \in T : ~(<<y, x>> \in OpToRel(<, Nat))
  BY WFMin, NatLessThanWellFounded, Zenon
<1>2. \A y \in T : ~(y < x)
  BY <1>1 DEF OpToRel
<1> QED BY <1>2

LEMMA FirstGap ==
  ASSUME NEW m \in Nat, NEW S
  PROVE  \E t \in 0..m : (\A i \in 1..t : i \in S) /\ (t < m => t + 1 \notin S)
<1> DEFINE T == {t \in 0..m : t = m \/ t + 1 \notin S}
<1>1. T \in SUBSET Nat /\ m \in T
  OBVIOUS
<1>2. PICK x \in T : \A y \in T : x <= y
  <2> HIDE DEF T
  <2> QED BY <1>1, LeastElement
<1>3. ASSUME NEW i \in 1..x, i \notin S
      PROVE  FALSE
  <2>1. i - 1 \in T /\ i - 1 < x
    BY <1>3
  <2> QED BY <1>2, <2>1
<1> QED BY <1>3

-----------------------------------------------------------------------------
(* The matches *)

LEMMA WidgetListsType ==
  ASSUME NEW ws \in WidgetLists
  PROVE  ws \in Seq(Widgets) /\ DOMAIN ws = 1..Len(ws) /\ Len(ws) \in Nat /\ KeysDiffer(ws)
<1>1. PICK n \in 0..MaxLength : ws \in [1..n -> Widgets]
  BY DEF WidgetLists, BoundedSeq, SeqOf
<1>2. ws \in Seq(Widgets)
  BY <1>1, SeqDef, ChildListAssumption
<1> QED BY <1>2, LenProperties DEF WidgetLists, KeysDiffer

LEMMA LeastFacts ==
  ASSUME NEW m \in Nat, NEW n \in Nat
  PROVE  Least(m, n) \in Nat /\ Least(m, n) <= m /\ Least(m, n) <= n
         /\ (Least(m, n) = m \/ Least(m, n) = n)
  BY DEF Least

LEMMA TopFacts ==
  ASSUME NEW ws, Len(list) \in Nat, Len(ws) \in Nat
  PROVE  LET most == Least(Len(list), Len(ws)) IN
         /\ Top(ws) \in 0..most
         /\ \A i \in 1..Top(ws) : canUpdate(list[i].widget, ws[i])
         /\ Top(ws) < most => ~canUpdate(list[Top(ws) + 1].widget, ws[Top(ws) + 1])
<1> DEFINE most == Least(Len(list), Len(ws))
           S == {i \in Nat : canUpdate(list[i].widget, ws[i])}
           Longest(t) == /\ \A i \in 1..t : canUpdate(list[i].widget, ws[i])
                         /\ t < most => ~canUpdate(list[t + 1].widget, ws[t + 1])
<1>1. most \in Nat
  BY LeastFacts
<1>2. PICK t \in 0..most : (\A i \in 1..t : i \in S) /\ (t < most => t + 1 \notin S)
  <2> HIDE DEF S, most
  <2> QED BY <1>1, FirstGap
<1>3. Longest(t)
  BY <1>1, <1>2
<1>4. Top(ws) = CHOOSE x \in 0..most : Longest(x)
  BY DEF Top
<1> HIDE DEF Longest, most
<1>5. Top(ws) \in 0..most /\ Longest(Top(ws))
  BY <1>3, <1>4
<1> QED BY <1>5 DEF Longest, most

LEMMA BottomFacts ==
  ASSUME NEW ws, Len(list) \in Nat, Len(ws) \in Nat,
         NEW t \in 0..Least(Len(list), Len(ws))
  PROVE  LET most == Least(Len(list), Len(ws)) - t
             Fits(i) == canUpdate(list[Len(list) + 1 - i].widget, ws[Len(ws) + 1 - i])
         IN  /\ Bottom(ws, t) \in 0..most
             /\ \A i \in 1..Bottom(ws, t) : Fits(i)
             /\ Bottom(ws, t) < most => ~Fits(Bottom(ws, t) + 1)
<1> DEFINE most == Least(Len(list), Len(ws)) - t
           Fits(i) == canUpdate(list[Len(list) + 1 - i].widget, ws[Len(ws) + 1 - i])
           S == {i \in Nat : Fits(i)}
           Longest(b) == (\A i \in 1..b : Fits(i)) /\ (b < most => ~Fits(b + 1))
<1>1. most \in Nat
  <2>1. Least(Len(list), Len(ws)) \in Nat
    BY LeastFacts
  <2> QED BY <2>1
<1>2. PICK b \in 0..most : (\A i \in 1..b : i \in S) /\ (b < most => b + 1 \notin S)
  <2> HIDE DEF S, most
  <2> QED BY <1>1, FirstGap
<1>3. Longest(b)
  BY <1>1, <1>2
<1>4. Bottom(ws, t) = CHOOSE x \in 0..most : Longest(x)
  BY DEF Bottom, FromBottom
<1> HIDE DEF Longest, most
<1>5. Bottom(ws, t) \in 0..most /\ Longest(Bottom(ws, t))
  BY <1>3, <1>4
<1> QED BY <1>5 DEF Longest, most

\* The matches of the top, of the bottom, and of what is between.
LEMMA MatchesAt ==
  ASSUME TypeInv, NEW ws \in Seq(Widgets)
  PROVE  LET t == Top(ws)
             b == Bottom(ws, t)
             n == Len(list)
             k == Len(ws)
             m == Matches(ws)
         IN  /\ n \in Nat /\ k \in Nat /\ t \in Nat /\ b \in Nat
             /\ t + b <= n /\ t + b <= k /\ DOMAIN m = 1..k
             /\ \A i \in 1..t : m[i] = {i} /\ canUpdate(list[i].widget, ws[i])
             /\ \A i \in k - b + 1..k :
                  m[i] = {i - k + n} /\ canUpdate(list[i - k + n].widget, ws[i])
             /\ \A i \in t + 1..k - b :
                  m[i] = {j \in t + 1..n - b :
                            ws[i].key # NoKey /\ canUpdate(list[j].widget, ws[i])}
<1> DEFINE t == Top(ws)
           b == Bottom(ws, t)
           n == Len(list)
           k == Len(ws)
<1>1. n \in Nat /\ k \in Nat /\ DOMAIN ws = 1..k
  BY LenProperties DEF TypeInv
<1>2. t \in 0..Least(n, k) /\ \A i \in 1..t : canUpdate(list[i].widget, ws[i])
  BY <1>1, TopFacts
<1>3. /\ b \in 0..Least(n, k) - t
      /\ \A i \in 1..b : canUpdate(list[n + 1 - i].widget, ws[k + 1 - i])
  <2> HIDE DEF t
  <2> QED BY <1>1, <1>2, BottomFacts
<1>4. t \in Nat /\ b \in Nat /\ t + b <= n /\ t + b <= k
  <2>1. Least(n, k) \in Nat /\ Least(n, k) <= n /\ Least(n, k) <= k
    BY <1>1, LeastFacts
  <2> HIDE DEF t, b, n, k
  <2> QED BY <1>1, <1>2, <1>3, <2>1
<1>5. Matches(ws) =
        [i \in DOMAIN ws |->
           IF i <= t THEN {i}
           ELSE IF i > k - b THEN {i - k + n}
           ELSE {j \in t + 1..n - b :
                   ws[i].key # NoKey /\ canUpdate(list[j].widget, ws[i])}]
  BY DEF Matches
<1> HIDE DEF t, b, n, k
<1>6. ASSUME NEW i \in k - b + 1..k
      PROVE  canUpdate(list[i - k + n].widget, ws[i])
  <2>1. k + 1 - i \in 1..b /\ n + 1 - (k + 1 - i) = i - k + n /\ k + 1 - (k + 1 - i) = i
    BY <1>1, <1>4
  <2> QED BY <1>3, <2>1
<1>7. ASSUME NEW i \in 1..t
      PROVE  Matches(ws)[i] = {i}
  BY <1>1, <1>4, <1>5
<1>8. ASSUME NEW i \in k - b + 1..k
      PROVE  Matches(ws)[i] = {i - k + n}
  BY <1>1, <1>4, <1>5
<1>9. ASSUME NEW i \in t + 1..k - b
      PROVE  Matches(ws)[i] =
               {j \in t + 1..n - b :
                  ws[i].key # NoKey /\ canUpdate(list[j].widget, ws[i])}
  BY <1>1, <1>4, <1>5
<1>10. DOMAIN Matches(ws) = 1..k
  BY <1>1, <1>5
<1> QED BY <1>1, <1>2, <1>4, <1>6, <1>7, <1>8, <1>9, <1>10 DEF t, b, n, k

LEMMA SameKey ==
  ASSUME NEW v, NEW w, canUpdate(v, w)
  PROVE  v.key = w.key
  BY DEF canUpdate

\* A new widget gets one old child or none, which it can update, no two widgets
\* get the same, and a widget with a key gets the child that has it.
LEMMA MatchFacts ==
  ASSUME TypeInv, KeysInv, NEW ws \in Seq(Widgets), KeysDiffer(ws)
  PROVE  LET m == Matches(ws) IN
         /\ DOMAIN m = 1..Len(ws)
         /\ \A i \in 1..Len(ws) : m[i] # {} =>
              \E j \in 1..Len(list) : m[i] = {j} /\ canUpdate(list[j].widget, ws[i])
         /\ \A i, h \in 1..Len(ws) : m[i] \cap m[h] # {} => i = h
         /\ \A i \in 1..Len(ws), j \in 1..Len(list) :
              canUpdate(list[j].widget, ws[i]) /\ list[j].widget.key # NoKey => m[i] = {j}
<1> DEFINE t == Top(ws)
           b == Bottom(ws, t)
           n == Len(list)
           k == Len(ws)
           m == Matches(ws)
<1>1. /\ n \in Nat /\ k \in Nat /\ t \in Nat /\ b \in Nat
      /\ t + b <= n /\ t + b <= k /\ DOMAIN m = 1..k
      /\ \A i \in 1..t : m[i] = {i} /\ canUpdate(list[i].widget, ws[i])
      /\ \A i \in k - b + 1..k :
           m[i] = {i - k + n} /\ canUpdate(list[i - k + n].widget, ws[i])
      /\ \A i \in t + 1..k - b :
           m[i] = {j \in t + 1..n - b :
                     ws[i].key # NoKey /\ canUpdate(list[j].widget, ws[i])}
  BY MatchesAt
<1> HIDE DEF t, b, m
<1>2. \A i \in 1..k : i \in 1..t \/ i \in k - b + 1..k \/ i \in t + 1..k - b
  BY <1>1
<1>3. ASSUME NEW i \in 1..k, NEW j \in 1..n,
             canUpdate(list[j].widget, ws[i]), list[j].widget.key # NoKey
      PROVE  m[i] = {j}
  <2>1. ws[i].key = list[j].widget.key /\ ws[i].key # NoKey
    BY <1>3, SameKey
  <2>2. \A h \in 1..n : canUpdate(list[h].widget, ws[i]) => h = j
    BY <1>3, <2>1, SameKey DEF KeysInv
  <2>3. CASE i \in 1..t
    BY <1>1, <2>2, <2>3
  <2>4. CASE i \in k - b + 1..k
    <3>1. i - k + n \in 1..n
      BY <1>1, <2>4
    <3> QED BY <1>1, <2>2, <2>4, <3>1
  <2>5. CASE i \in t + 1..k - b
    <3>1. \A h \in 1..k : canUpdate(list[j].widget, ws[h]) => h = i
      BY <1>3, <2>1, SameKey DEF KeysDiffer
    <3>2. j \notin 1..t
      <4>1. j \in 1..t => j \in 1..k /\ canUpdate(list[j].widget, ws[j]) /\ j # i
        BY <1>1, <2>5
      <4> QED BY <3>1, <4>1
    <3>3. j \notin n - b + 1..n
      <4>1. ASSUME j \in n - b + 1..n
            PROVE  FALSE
        <5>1. j + k - n \in k - b + 1..k /\ (j + k - n) - k + n = j /\ j + k - n # i
              /\ j + k - n \in 1..k
          BY <1>1, <2>5, <4>1
        <5>2. canUpdate(list[j].widget, ws[j + k - n])
          BY <1>1, <5>1
        <5> QED BY <3>1, <5>1, <5>2
      <4> QED BY <4>1
    <3>4. j \in t + 1..n - b
      BY <1>1, <3>2, <3>3
    <3>5. m[i] = {h \in t + 1..n - b :
                    ws[i].key # NoKey /\ canUpdate(list[h].widget, ws[i])}
      BY <1>1, <2>5
    <3>6. \A h \in t + 1..n - b : h \in 1..n
      BY <1>1
    <3> QED BY <1>3, <2>1, <2>2, <3>4, <3>5, <3>6
  <2> QED BY <1>2, <2>3, <2>4, <2>5
<1>4. ASSUME NEW i \in 1..k, m[i] # {}
      PROVE  \E j \in 1..n : m[i] = {j} /\ canUpdate(list[j].widget, ws[i])
  <2>1. CASE i \in 1..t
    BY <1>1, <2>1, SMTT(30)
  <2>2. CASE i \in k - b + 1..k
    <3>1. i - k + n \in 1..n
      BY <1>1, <2>2
    <3> QED BY <1>1, <2>2, <3>1
  <2>3. CASE i \in t + 1..k - b
    <3>1. PICK j \in t + 1..n - b :
                ws[i].key # NoKey /\ canUpdate(list[j].widget, ws[i])
      BY <1>1, <1>4, <2>3
    <3>2. j \in 1..n /\ list[j].widget.key # NoKey
      BY <1>1, <3>1, SameKey
    <3> QED BY <1>3, <3>1, <3>2
  <2> QED BY <1>2, <2>1, <2>2, <2>3
<1>5. ASSUME NEW i \in 1..k, NEW h \in 1..k, m[i] \cap m[h] # {}
      PROVE  i = h
  <2>1. \A g \in 1..k : \A j \in m[g] :
          \/ g \in 1..t /\ j = g
          \/ g \in k - b + 1..k /\ j = g - k + n
          \/ g \in t + 1..k - b /\ j \in t + 1..n - b
             /\ ws[g].key # NoKey /\ canUpdate(list[j].widget, ws[g])
    BY <1>1, <1>2
  <2>2. PICK j \in m[i] : j \in m[h]
    BY <1>5
  <2>3. CASE i \in t + 1..k - b /\ h \in t + 1..k - b
    <3>1. ws[i].key # NoKey /\ ws[i].key = ws[h].key
      <4>1. ws[i].key # NoKey /\ canUpdate(list[j].widget, ws[i])
        BY <1>1, <2>2, <2>3
      <4>2. canUpdate(list[j].widget, ws[h])
        BY <1>1, <2>2, <2>3
      <4> QED BY <4>1, <4>2, SameKey
    <3> QED BY <3>1 DEF KeysDiffer
  <2>4. CASE ~(i \in t + 1..k - b /\ h \in t + 1..k - b)
    <3>1. \/ i \in 1..t /\ j = i
          \/ i \in k - b + 1..k /\ j = i - k + n
          \/ i \in t + 1..k - b /\ j \in t + 1..n - b
      BY <2>1, <2>2
    <3>2. \/ h \in 1..t /\ j = h
          \/ h \in k - b + 1..k /\ j = h - k + n
          \/ h \in t + 1..k - b /\ j \in t + 1..n - b
      BY <2>1, <2>2
    <3> QED BY <1>1, <2>4, <3>1, <3>2
  <2> QED BY <2>3, <2>4
<1> QED BY <1>1, <1>3, <1>4, <1>5 DEF m

-----------------------------------------------------------------------------
(* The children after an update *)

\* How many places of F are before i.
Before(F, i) == Cardinality({j \in F : j < i})

LEMMA BeforeFacts ==
  ASSUME NEW k \in Nat, NEW F \in SUBSET (1..k)
  PROVE  /\ IsFiniteSet(F) /\ Cardinality(F) \in Nat
         /\ \A i \in Int : Before(F, i) \in Nat /\ Before(F, i) <= Cardinality(F)
         /\ \A i, h \in Int : i <= h => Before(F, i) <= Before(F, h)
         /\ \A i \in F : Before(F, i) < Cardinality(F)
         /\ \A i \in F, h \in Int : i < h => Before(F, i) < Before(F, h)
<1>1. IsFiniteSet(F)
  <2>1. IsFiniteSet(1..k)
    BY FS_Interval
  <2> QED BY <2>1, FS_Subset
<1>2. \A i \in Int : {j \in F : j < i} \in SUBSET F
  OBVIOUS
<1>3. \A i \in Int : IsFiniteSet({j \in F : j < i})
  BY <1>1, <1>2, FS_Subset
<1>4. ASSUME NEW i \in Int
      PROVE  Before(F, i) \in Nat /\ Before(F, i) <= Cardinality(F)
  BY <1>1, <1>2, <1>3, FS_Subset, FS_CardinalityType DEF Before
<1>5. ASSUME NEW i \in Int, NEW h \in Int, i <= h
      PROVE  /\ Before(F, i) <= Before(F, h)
             /\ i \in F /\ i < h => Before(F, i) # Before(F, h)
  <2>1. {j \in F : j < i} \in SUBSET {j \in F : j < h}
    <3>1. \A j \in F : j < i => j < h
      BY <1>5
    <3> QED BY <3>1, Zenon
  <2>2. i \in F /\ i < h => {j \in F : j < i} # {j \in F : j < h}
    OBVIOUS
  <2> QED BY <1>3, <2>1, <2>2, FS_Subset DEF Before
<1>6. ASSUME NEW i \in F
      PROVE  Before(F, i) # Cardinality(F)
  <2>1. {j \in F : j < i} \in SUBSET F /\ {j \in F : j < i} # F
    OBVIOUS
  <2> QED BY <1>1, <2>1, FS_Subset DEF Before
<1>7. \A i \in F : i \in Int
  OBVIOUS
<1>8. Cardinality(F) \in Nat
  BY <1>1, FS_CardinalityType
<1> QED BY <1>1, <1>4, <1>5, <1>6, <1>7, <1>8

LEMMA UpdatedFacts ==
  ASSUME IInv, NEW ws \in WidgetLists
  PROVE  LET old == Matches(ws)
             new == Updated(ws, old)
         IN  /\ new \in Seq(Records) /\ Len(new) = Len(ws)
             /\ Fresh(old) \in SUBSET (1..Len(ws))
             /\ \A i \in 1..Len(ws) : new[i].widget = ws[i]
             /\ \A i \in 1..Len(ws), j \in 1..Len(list) : old[i] = {j} =>
                  new[i].element = list[j].element /\ new[i].object = list[j].object
             /\ \A i \in Fresh(old) :
                  /\ new[i].element = next + Before(Fresh(old), i)
                  /\ new[i].object = next + Before(Fresh(old), i)
<1> DEFINE old == Matches(ws)
           new == Updated(ws, old)
           k == Len(ws)
           F == Fresh(old)
<1>1. /\ ws \in Seq(Widgets) /\ DOMAIN ws = 1..k /\ k \in Nat /\ KeysDiffer(ws)
      /\ \A i \in 1..k : ws[i] \in Widgets
  BY WidgetListsType, ElementOfSeq
<1>2. /\ DOMAIN old = 1..k
      /\ \A i \in 1..k : old[i] # {} => \E j \in 1..Len(list) : old[i] = {j}
  BY <1>1, MatchFacts DEF IInv
<1>3. /\ list \in Seq(Records) /\ next \in Nat
      /\ \A j \in 1..Len(list) : list[j] \in Records
  BY ElementOfSeq DEF IInv, TypeInv
<1>4. new = [i \in 1..k |->
               IF old[i] = {}
                 THEN Child(ws[i], next + Before(F, i))
                 ELSE [list[CHOOSE j \in old[i] : TRUE] EXCEPT !.widget = ws[i]]]
  BY <1>1 DEF Updated, Before
<1>5. F \in SUBSET (1..k)
  BY <1>2 DEF Fresh
<1> HIDE DEF old, new, F, k
<1>6. ASSUME NEW i \in 1..k, NEW j \in 1..Len(list), old[i] = {j}
      PROVE  /\ new[i] \in Records /\ new[i].widget = ws[i]
             /\ new[i].element = list[j].element /\ new[i].object = list[j].object
  <2>1. (CHOOSE h \in old[i] : TRUE) = j /\ old[i] # {}
    BY <1>6
  <2>2. new[i] = [list[j] EXCEPT !.widget = ws[i]]
    BY <1>4, <2>1
  <2>3. list[j] \in Records /\ ws[i] \in Widgets
    BY <1>1, <1>3, <1>6 DEF k
  <2> QED BY <2>2, <2>3 DEF Records
<1>7. ASSUME NEW i \in 1..k, old[i] = {}
      PROVE  /\ new[i] \in Records /\ new[i].widget = ws[i]
             /\ new[i].element = next + Before(F, i)
             /\ new[i].object = next + Before(F, i)
  <2>1. Before(F, i) \in Nat
    <3>1. i \in Int /\ F \in SUBSET (1..k) /\ k \in Nat
      BY <1>1, <1>5 DEF k
    <3> QED BY <3>1, BeforeFacts
  <2>2. new[i] = [widget |-> ws[i], element |-> next + Before(F, i),
                  object |-> next + Before(F, i)]
    BY <1>4, <1>7 DEF Child
  <2>3. ws[i] \in Widgets /\ next + Before(F, i) \in Nat
    BY <1>1, <1>3, <2>1 DEF k
  <2> QED BY <2>2, <2>3 DEF Records
<1>8. new \in Seq(Records) /\ Len(new) = k
  <2>1. \A i \in 1..k : new[i] \in Records
    BY <1>2, <1>6, <1>7
  <2>2. new \in [1..k -> Records]
    BY <1>4, <2>1
  <2>3. new \in Seq(Records)
    BY <1>1, <2>2, SeqDef
  <2> QED BY <1>1, <2>2, <2>3, LenProperties
<1>9. \A i \in F : i \in 1..k /\ old[i] = {}
  BY <1>2 DEF F, Fresh
<1> QED BY <1>2, <1>5, <1>6, <1>7, <1>8, <1>9 DEF old, new, F, k

\* The new children are different, and so are their render objects.
LEMMA NumbersKept ==
  ASSUME IInv, NEW ws \in WidgetLists
  PROVE  LET old == Matches(ws)
             new == Updated(ws, old)
             after == next + Cardinality(Fresh(old))
         IN  /\ after \in Nat \ {0} /\ after >= next
             /\ \A i \in 1..Len(ws) :
                  /\ new[i].element < after /\ new[i].object < after
                  /\ \A h \in 1..Len(ws) :
                       new[i].element = new[h].element \/ new[i].object = new[h].object
                         => i = h
<1> DEFINE old == Matches(ws)
           new == Updated(ws, old)
           F == Fresh(old)
           k == Len(ws)
           n == Len(list)
           after == next + Cardinality(F)
<1>1. /\ F \in SUBSET (1..k) /\ k \in Nat
      /\ \A i \in 1..k, j \in 1..n : old[i] = {j} =>
           new[i].element = list[j].element /\ new[i].object = list[j].object
      /\ \A i \in F : new[i].element = next + Before(F, i) /\ new[i].object = next + Before(F, i)
  BY UpdatedFacts, WidgetListsType
<1>2. /\ \A i \in 1..k : i \notin F => \E j \in 1..n : old[i] = {j}
      /\ \A i, h \in 1..k : old[i] \cap old[h] # {} => i = h
  <2>1. ws \in Seq(Widgets) /\ KeysDiffer(ws)
    BY WidgetListsType
  <2>2. /\ DOMAIN old = 1..k
        /\ \A i \in 1..k : old[i] # {} => \E j \in 1..n : old[i] = {j}
        /\ \A i, h \in 1..k : old[i] \cap old[h] # {} => i = h
    BY <2>1, MatchFacts DEF IInv
  <2> QED BY <2>2 DEF Fresh
<1>3. /\ next \in Nat \ {0}
      /\ \A j \in 1..n : list[j].element \in Nat /\ list[j].object \in Nat
      /\ \A j \in 1..n : list[j].element < next /\ list[j].object < next
      /\ \A i, j \in 1..n :
           list[i].element = list[j].element \/ list[i].object = list[j].object => i = j
  <2>1. \A j \in 1..n : list[j] \in Records
    BY ElementOfSeq DEF IInv, TypeInv
  <2>2. \A j \in 1..n : list[j].element \in Nat /\ list[j].object \in Nat
    BY <2>1 DEF Records
  <2> QED BY <2>2 DEF IInv, TypeInv, NumbersInv
<1> HIDE DEF old, new, F, k, n
<1>4. /\ Cardinality(F) \in Nat
      /\ \A i \in F : Before(F, i) \in Nat /\ Before(F, i) < Cardinality(F)
      /\ \A i, h \in F : i < h => Before(F, i) < Before(F, h)
  <2>1. F \subseteq Int
    BY <1>1
  <2> QED BY <1>1, <2>1, BeforeFacts
<1>5. after \in Nat \ {0} /\ after >= next
  BY <1>3, <1>4
<1>6. ASSUME NEW i \in F
      PROVE  /\ new[i].element \in Nat /\ new[i].element >= next /\ new[i].element < after
             /\ new[i].object = new[i].element
  BY <1>1, <1>3, <1>4
<1>7. ASSUME NEW i \in 1..k, i \notin F
      PROVE  \E j \in 1..n : /\ old[i] = {j} /\ new[i].element = list[j].element
                             /\ new[i].object = list[j].object
  BY <1>1, <1>2, <1>7
<1>8. ASSUME NEW i \in 1..k
      PROVE  new[i].element < after /\ new[i].object < after
  <2>1. CASE i \in F
    BY <1>6, <2>1
  <2>2. CASE i \notin F
    BY <1>3, <1>4, <1>7, <2>2
  <2> QED BY <2>1, <2>2
<1>9. ASSUME NEW i \in 1..k, NEW h \in 1..k,
             new[i].element = new[h].element \/ new[i].object = new[h].object
      PROVE  i = h
  <2>1. CASE i \in F /\ h \in F
    <3>1. next + Before(F, i) = next + Before(F, h)
      BY <1>1, <1>9, <2>1
    <3>2. ~(i < h) /\ ~(h < i)
      BY <1>3, <1>4, <2>1, <3>1
    <3> QED BY <1>1, <3>2
  <2>2. CASE i \notin F /\ h \notin F
    <3>1. PICK j \in 1..n : /\ old[i] = {j} /\ new[i].element = list[j].element
                            /\ new[i].object = list[j].object
      BY <1>7, <2>2
    <3>2. PICK g \in 1..n : /\ old[h] = {g} /\ new[h].element = list[g].element
                            /\ new[h].object = list[g].object
      BY <1>7, <2>2
    <3>3. j = g
      BY <1>3, <1>9, <3>1, <3>2
    <3> QED BY <1>2, <3>1, <3>2, <3>3
  <2>3. ASSUME NEW x \in F, NEW y \in 1..k, y \notin F
        PROVE  new[x].element # new[y].element /\ new[x].object # new[y].object
    <3>1. PICK j \in 1..n : /\ new[y].element = list[j].element
                            /\ new[y].object = list[j].object
      BY <1>7, <2>3
    <3> QED BY <1>3, <1>6, <3>1
  <2> QED BY <1>9, <2>1, <2>2, <2>3
<1> QED BY <1>5, <1>8, <1>9 DEF old, new, F, k, after

-----------------------------------------------------------------------------
(* The invariant *)

LEMMA Initially ==
  ASSUME Init
  PROVE  IInv
<1>1. PICK ws \in WidgetLists : list = [i \in DOMAIN ws |-> Child(ws[i], i)]
  BY DEF Init
<1>2. /\ ws \in Seq(Widgets) /\ DOMAIN ws = 1..Len(ws) /\ Len(ws) \in Nat
      /\ KeysDiffer(ws) /\ \A i \in 1..Len(ws) : ws[i] \in Widgets
  BY WidgetListsType, ElementOfSeq
<1>3. \A i \in 1..Len(ws) : list[i] = [widget |-> ws[i], element |-> i, object |-> i]
  BY <1>1, <1>2 DEF Child
<1>4. ASSUME NEW i \in 1..Len(ws)
      PROVE  /\ list[i] \in Records
             /\ list[i].widget = ws[i] /\ list[i].element = i /\ list[i].object = i
  <2>1. list[i] = [widget |-> ws[i], element |-> i, object |-> i]
    BY <1>3
  <2>2. ws[i] \in Widgets /\ i \in Nat
    BY <1>2
  <2> QED BY <2>1, <2>2 DEF Records
<1>5. list \in [1..Len(ws) -> Records]
  BY <1>1, <1>2, <1>4
<1>6. list \in Seq(Records)
  BY <1>2, <1>5, SeqDef
<1>7. Len(list) = Len(ws)
  BY <1>2, <1>5, <1>6, LenProperties
<1>8. next = Len(ws) + 1
  BY <1>7 DEF Init
<1>9. KeysInv
  BY <1>2, <1>4, <1>7 DEF KeysInv, KeysDiffer
<1>10. NumbersInv
  BY <1>2, <1>4, <1>7, <1>8 DEF NumbersInv
<1> QED BY <1>2, <1>6, <1>8, <1>9, <1>10 DEF IInv, TypeInv

LEMMA UpdateKeeps ==
  ASSUME IInv, NEW ws \in WidgetLists, UpdateChildren(ws)
  PROVE  IInv'
<1>1. list' = Updated(ws, Matches(ws)) /\ next' = next + Cardinality(Fresh(Matches(ws)))
  BY DEF UpdateChildren
<1>2. /\ list' \in Seq(Records) /\ Len(list') = Len(ws)
      /\ \A i \in 1..Len(ws) : list'[i].widget = ws[i]
  BY <1>1, UpdatedFacts
<1>3. KeysInv'
  <2>1. KeysDiffer(ws)
    BY WidgetListsType
  <2> QED BY <1>2, <2>1 DEF KeysInv, KeysDiffer
<1>4. NumbersInv' /\ next' \in Nat \ {0}
  BY <1>1, <1>2, NumbersKept DEF NumbersInv
<1> QED BY <1>2, <1>3, <1>4 DEF IInv, TypeInv

LEMMA RebuildKeeps ==
  ASSUME IInv, NEW i \in DOMAIN list, RebuildChild(i)
  PROVE  IInv'
<1>1. /\ list \in Seq(Records) /\ DOMAIN list = 1..Len(list) /\ Len(list) \in Nat
      /\ \A j \in 1..Len(list) : list[j] \in Records
      /\ next \in Nat \ {0} /\ next' = next + 1
  BY LenProperties, ElementOfSeq DEF IInv, TypeInv, RebuildChild
<1>2. list' = [list EXCEPT ![i] = [list[i] EXCEPT !.object = next]]
  BY DEF RebuildChild
<1>3. [list[i] EXCEPT !.object = next] \in Records
  BY <1>1 DEF Records
<1>4. /\ list' \in Seq(Records) /\ Len(list') = Len(list)
      /\ \A j \in 1..Len(list) :
           list'[j] = IF j = i THEN [list[i] EXCEPT !.object = next] ELSE list[j]
  BY <1>1, <1>2, <1>3, ExceptSeq
<1>5. \A j \in 1..Len(list) :
        /\ list'[j].widget = list[j].widget /\ list'[j].element = list[j].element
        /\ list'[j].object = IF j = i THEN next ELSE list[j].object
        /\ list[j].element \in Nat /\ list[j].object \in Nat
  BY <1>1, <1>4 DEF Records
<1>6. KeysInv'
  BY <1>4, <1>5 DEF IInv, KeysInv
<1>7. NumbersInv'
  BY <1>1, <1>4, <1>5 DEF IInv, NumbersInv
<1> QED BY <1>1, <1>4, <1>6, <1>7 DEF IInv, TypeInv

LEMMA StepKeeps ==
  ASSUME IInv, [Next]_vars
  PROVE  IInv'
<1>1. CASE Next
  BY <1>1, UpdateKeeps, RebuildKeeps DEF Next
<1>2. CASE UNCHANGED vars
  BY <1>2 DEF vars, IInv, TypeInv, KeysInv, NumbersInv
<1> QED BY <1>1, <1>2

LEMMA Inductive == Spec => []IInv
<1>1. Init => IInv
  BY Initially
<1>2. IInv /\ [Next]_vars => IInv'
  BY StepKeeps
<1> QED BY <1>1, <1>2, PTL DEF Spec

-----------------------------------------------------------------------------
(* The elements that are kept *)

\* A child with a key whose key and type are in the new list keeps its element,
\* wherever updateChildren finds it: at the top, at the bottom or by its key.
THEOREM KeysKeepTheirElements == Spec => KeysKeepElements
<1> DEFINE Kept == \A i \in DOMAIN list, j \in DOMAIN list' :
                     /\ list[i].widget.key # NoKey
                     /\ canUpdate(list[i].widget, list'[j].widget)
                     => list[i].element = list'[j].element
<1>1. ASSUME IInv, [Next]_vars
      PROVE  [Kept]_vars
  <2> USE DEF IInv
  <2>1. DOMAIN list = 1..Len(list)
    BY <1>1, LenProperties DEF TypeInv
  <2>2. ASSUME NEW ws \in WidgetLists, UpdateChildren(ws)
        PROVE  Kept
    <3>1. list' = Updated(ws, Matches(ws))
      BY <2>2 DEF UpdateChildren
    <3>2. /\ list' \in Seq(Records) /\ Len(list') = Len(ws)
          /\ \A i \in 1..Len(ws) : list'[i].widget = ws[i]
          /\ \A i \in 1..Len(ws), j \in 1..Len(list) : Matches(ws)[i] = {j} =>
               list'[i].element = list[j].element
      BY <1>1, <3>1, UpdatedFacts
    <3>3. DOMAIN list' = 1..Len(ws)
      BY <3>2, LenProperties
    <3>4. ws \in Seq(Widgets) /\ KeysDiffer(ws)
      BY WidgetListsType
    <3>5. \A i \in 1..Len(ws), j \in 1..Len(list) :
            canUpdate(list[j].widget, ws[i]) /\ list[j].widget.key # NoKey
              => Matches(ws)[i] = {j}
      BY <1>1, <3>4, MatchFacts
    <3> QED BY <2>1, <3>2, <3>3, <3>5
  <2>3. ASSUME NEW i \in DOMAIN list, RebuildChild(i)
        PROVE  Kept
    <3>1. list' = [list EXCEPT ![i].object = next]
      BY <2>3 DEF RebuildChild
    <3>2. \A j \in 1..Len(list) : list[j] \in Records
      BY <1>1, ElementOfSeq DEF TypeInv
    <3>3. DOMAIN list' = DOMAIN list /\ \A j \in 1..Len(list) :
            list'[j].widget = list[j].widget /\ list'[j].element = list[j].element
      BY <2>1, <3>1, <3>2 DEF Records
    <3> QED BY <1>1, <2>1, <3>3, SameKey DEF KeysInv
  <2> QED BY <1>1, <2>2, <2>3 DEF Next
<1>2. IInv /\ [Next]_vars => [Kept]_vars
  BY <1>1
<1> HIDE DEF Kept
<1>3. Spec => [][Kept]_vars
  BY <1>2, Inductive, PTL DEF Spec
<1> QED BY <1>3 DEF KeysKeepElements, Kept

LEMMA LeastIs ==
  ASSUME NEW m \in Nat, NEW n \in Nat, m <= n
  PROVE  Least(m, n) = m /\ Least(n, m) = m
  BY DEF Least

\* As many elements as children, if all are different.
LEMMA CountElements ==
  ASSUME NEW s \in Seq(Records),
         \A i, j \in 1..Len(s) : s[i].element = s[j].element => i = j
  PROVE  Cardinality({s[i].element : i \in 1..Len(s)}) = Len(s)
<1> DEFINE E == {s[i].element : i \in 1..Len(s)}
           f == [i \in 1..Len(s) |-> s[i].element]
<1>1. Len(s) \in Nat
  OBVIOUS
<1>2. f \in Injection(1..Len(s), E)
  BY DEF Injection, IsInjective
<1>3. f \in Surjection(1..Len(s), E)
  BY DEF Surjection
<1>4. ExistsBijection(1..Len(s), E)
  <2> HIDE DEF f
  <2> QED BY <1>2, <1>3 DEF ExistsBijection, Bijection
<1> HIDE DEF E
<1> QED BY <1>1, <1>4, FS_CountingElements DEF E

\* When the lists differ in one place only, the top and the bottom meet.
LEMMA TopMeetsBottom ==
  ASSUME TypeInv, NEW ws \in Seq(Widgets), NEW new \in Seq(Records), Len(new) = Len(ws),
         \A i \in 1..Len(ws) : new[i].widget = ws[i], OnePlaceChange(list, new)
  PROVE  Top(ws) + Bottom(ws, Top(ws)) = Least(Len(list), Len(ws))
<1> DEFINE n == Len(list)
           k == Len(ws)
           L == Least(n, k)
           t == Top(ws)
           b == Bottom(ws, t)
<1>1. n \in Nat /\ k \in Nat /\ L \in Nat /\ L <= n /\ L <= k
  BY LeastFacts DEF TypeInv
<1>2. PICK m \in 0..L :
        /\ \A i \in 1..m : canUpdate(list[i].widget, new[i].widget)
        /\ \A i \in 1..L - m : canUpdate(list[n + 1 - i].widget, new[k + 1 - i].widget)
  BY DEF OnePlaceChange, FromBottom
<1>3. /\ t \in 0..L
      /\ t < L => ~canUpdate(list[t + 1].widget, ws[t + 1])
  BY <1>1, TopFacts
<1>4. t >= m
  <2>1. t < m => t + 1 \in 1..m /\ t + 1 \in 1..k /\ t < L
    BY <1>1, <1>2, <1>3
  <2> QED BY <1>1, <1>2, <1>3, <2>1
<1>5. /\ b \in 0..L - t
      /\ b < L - t => ~canUpdate(list[n + 1 - (b + 1)].widget, ws[k + 1 - (b + 1)])
  <2> HIDE DEF t
  <2> QED BY <1>1, <1>3, BottomFacts
<1> HIDE DEF t, b, L, n, k
<1>6. ~(b < L - t)
  <2>1. b < L - t => b + 1 \in 1..L - m /\ k + 1 - (b + 1) \in 1..k
    BY <1>1, <1>2, <1>3, <1>4, <1>5
  <2> QED BY <1>2, <1>5, <2>1 DEF k
<1>7. t + b = L
  BY <1>1, <1>3, <1>5, <1>6, SMTT(30)
<1> QED BY <1>7 DEF t, b, L, n, k

\* Where only one stretch of the list has changed, by an insertion or a removal,
\* as many elements stay as both lists have places, whether they have keys or not.
THEOREM OnePlaceChangeKeepsOthers == Spec => OnePlaceChangeKeepsTheRest
<1> DEFINE Kept == OnePlaceChange(list, list') =>
                     Cardinality(Elements \cap {list'[i].element : i \in DOMAIN list'})
                       = Least(Len(list), Len(list'))
<1>1. ASSUME IInv, IInv', Next
      PROVE  Kept
  <2> USE DEF IInv
  <2> DEFINE n == Len(list)
             k == Len(list')
             new == {list'[i].element : i \in DOMAIN list'}
  <2>1. /\ list \in Seq(Records) /\ DOMAIN list = 1..n /\ n \in Nat
        /\ list' \in Seq(Records) /\ DOMAIN list' = 1..k /\ k \in Nat
    BY <1>1, LenProperties DEF TypeInv
  <2>2. Elements = {list[j].element : j \in 1..n} /\ Cardinality(Elements) = n
    <3>1. \A i, j \in 1..n : list[i].element = list[j].element => i = j
      BY <1>1 DEF NumbersInv
    <3>2. Cardinality({list[j].element : j \in 1..Len(list)}) = Len(list)
      BY <2>1, <3>1, CountElements
    <3> QED BY <2>1, <3>2 DEF Elements
  <2>3. new = {list'[j].element : j \in 1..k} /\ Cardinality(new) = k
    <3>1. \A i, j \in 1..k : list'[i].element = list'[j].element => i = j
      BY <1>1 DEF NumbersInv
    <3>2. Cardinality({list'[j].element : j \in 1..Len(list')}) = Len(list')
      BY <2>1, <3>1, CountElements
    <3> QED BY <2>1, <3>2
  <2>4. ASSUME \A j \in 1..n : \E i \in 1..k : list'[i].element = list[j].element, n <= k
        PROVE  Kept
    <3>1. Elements \cap new = Elements
      <4>1. ASSUME NEW x \in Elements
            PROVE  x \in new
        <5>1. PICK j \in 1..n : x = list[j].element
          BY <2>2
        <5>2. PICK i \in 1..k : list'[i].element = list[j].element
          BY <2>4
        <5> QED BY <2>3, <5>1, <5>2
      <4> QED BY <4>1
    <3>2. Least(n, k) = n
      BY <2>1, <2>4, LeastIs
    <3> QED BY <2>2, <3>1, <3>2
  <2>5. ASSUME \A i \in 1..k : \E j \in 1..n : list'[i].element = list[j].element, k <= n
        PROVE  Kept
    <3>1. Elements \cap new = new
      BY <2>2, <2>3, <2>5
    <3>2. Least(n, k) = k
      BY <2>1, <2>5, LeastIs
    <3> QED BY <2>3, <3>1, <3>2
  <2> HIDE DEF n, k
  <2>6. ASSUME NEW ws \in WidgetLists, UpdateChildren(ws), OnePlaceChange(list, list')
        PROVE  Kept
    <3> DEFINE t == Top(ws)
               b == Bottom(ws, t)
               m == Matches(ws)
    <3>1. list' = Updated(ws, m) /\ ws \in Seq(Widgets)
      BY <2>6, WidgetListsType DEF UpdateChildren
    <3>2. /\ Len(ws) = k /\ \A i \in 1..k : list'[i].widget = ws[i]
          /\ \A i \in 1..k, j \in 1..n : m[i] = {j} => list'[i].element = list[j].element
      BY <1>1, <3>1, UpdatedFacts DEF n, k
    <3>3. t + b = Least(n, k)
      BY <1>1, <2>1, <2>6, <3>1, <3>2, TopMeetsBottom DEF n, k
    <3>4. /\ t \in Nat /\ b \in Nat
          /\ \A i \in 1..t : m[i] = {i}
          /\ \A i \in k - b + 1..k : m[i] = {i - k + n}
      BY <1>1, <3>1, <3>2, MatchesAt DEF n
    <3> HIDE DEF t, b, m
    <3>5. CASE n <= k
      <4>1. t + b = n
        BY <2>1, <3>3, <3>5 DEF Least
      <4>2. ASSUME NEW j \in 1..n
            PROVE  \E i \in 1..k : list'[i].element = list[j].element
        <5>1. CASE j <= t
          <6>1. j \in 1..t /\ j \in 1..k
            BY <2>1, <3>5, <5>1
          <6> QED BY <3>2, <3>4, <6>1
        <5>2. CASE j > t
          <6>1. j + k - n \in k - b + 1..k /\ (j + k - n) - k + n = j /\ j + k - n \in 1..k
            BY <2>1, <3>4, <3>5, <4>1, <5>2
          <6>2. m[j + k - n] = {j}
            BY <3>4, <6>1
          <6> QED BY <3>2, <6>1, <6>2
        <5> QED BY <3>4, <5>1, <5>2
      <4> QED BY <2>4, <3>5, <4>2
    <3>6. CASE k < n
      <4>1. t + b = k
        BY <2>1, <3>3, <3>6 DEF Least
      <4>2. ASSUME NEW i \in 1..k
            PROVE  \E j \in 1..n : list'[i].element = list[j].element
        <5>1. CASE i <= t
          <6>1. i \in 1..t /\ i \in 1..n
            BY <2>1, <3>6, <5>1
          <6> QED BY <3>2, <3>4, <6>1
        <5>2. CASE i > t
          <6>1. i \in k - b + 1..k /\ i - k + n \in 1..n
            BY <2>1, <3>4, <3>6, <4>1, <5>2
          <6> QED BY <3>2, <3>4, <6>1
        <5> QED BY <3>4, <5>1, <5>2
      <4> QED BY <2>1, <2>5, <3>6, <4>2
    <3> QED BY <2>1, <3>5, <3>6
  <2>7. ASSUME NEW i \in DOMAIN list, RebuildChild(i)
        PROVE  Kept
    <3>1. list' = [list EXCEPT ![i].object = next]
      BY <2>7 DEF RebuildChild
    <3>2. \A j \in 1..n : list[j] \in Records
      BY <2>1, ElementOfSeq DEF n
    <3>3. DOMAIN list' = DOMAIN list /\ \A j \in 1..n : list'[j].element = list[j].element
      BY <2>1, <3>1, <3>2 DEF Records
    <3>4. k = n
      <4>1. 1..k = 1..n
        BY <2>1, <3>3
      <4>2. k \in 1..k <=> k \in 1..n
        BY <4>1
      <4>3. n \in 1..k <=> n \in 1..n
        BY <4>1
      <4> QED BY <2>1, <4>2, <4>3
    <3> QED BY <2>1, <2>4, <3>3, <3>4
  <2> QED BY <1>1, <2>6, <2>7 DEF Next
<1>2. IInv /\ IInv' /\ [Next]_vars => [Kept]_vars
  BY <1>1
<1> QED BY <1>2, Inductive, PTL DEF Spec, OnePlaceChangeKeepsTheRest

-----------------------------------------------------------------------------
(* The render objects *)

\* The render object o is among the children s exactly once.
Once(s, o) == \E p \in 1..Len(s) : \A q \in 1..Len(s) : s[q] = o <=> q = p

\* t is s with e in place i.
IsInserted(t, s, i, e) ==
  /\ t \in Seq(Nat) /\ Len(t) = Len(s) + 1
  /\ \A q \in 1..Len(s) + 1 :
       t[q] = IF q < i THEN s[q] ELSE IF q = i THEN e ELSE s[q - 1]

LEMMA InsertIs ==
  ASSUME NEW s \in Seq(Nat), NEW i \in 1..Len(s) + 1, NEW e \in Nat
  PROVE  IsInserted(InsertAt(s, i, e), s, i, e)
<1> DEFINE a == SubSeq(s, 1, i - 1)
           c == SubSeq(s, i, Len(s))
<1>1. Len(s) \in Nat /\ i \in Int /\ \A q \in 1..Len(s) : s[q] \in Nat
  BY ElementOfSeq
<1>2. /\ a \in Seq(Nat) /\ Len(a) = i - 1
      /\ \A q \in 1..i - 1 : a[q] = s[q]
  <2>1. \A q \in 1..i - 1 : s[q] \in Nat
    BY <1>1
  <2>2. /\ a \in Seq(Nat) /\ Len(a) = IF 1 <= i - 1 THEN (i - 1) - 1 + 1 ELSE 0
        /\ \A q \in 1..(i - 1) - 1 + 1 : a[q] = s[1 + q - 1]
    BY <1>1, <2>1, SubSeqProperties
  <2> QED BY <1>1, <2>2
<1>3. /\ c \in Seq(Nat) /\ Len(c) = Len(s) - i + 1
      /\ \A q \in 1..Len(s) - i + 1 : c[q] = s[i + q - 1]
  <2>1. \A q \in i..Len(s) : s[q] \in Nat
    BY <1>1
  <2>2. /\ c \in Seq(Nat) /\ Len(c) = IF i <= Len(s) THEN Len(s) - i + 1 ELSE 0
        /\ \A q \in 1..Len(s) - i + 1 : c[q] = s[i + q - 1]
    BY <1>1, <2>1, SubSeqProperties
  <2> QED BY <1>1, <2>2
<1>4. <<e>> \in Seq(Nat) /\ Len(<<e>>) = 1 /\ <<e>>[1] = e
  OBVIOUS
<1> HIDE DEF a, c
<1>5. /\ a \o <<e>> \in Seq(Nat) /\ Len(a \o <<e>>) = i
      /\ \A q \in 1..i : (a \o <<e>>)[q] = IF q < i THEN s[q] ELSE e
  <2>1. /\ a \o <<e>> \in Seq(Nat) /\ Len(a \o <<e>>) = Len(a) + 1
        /\ \A q \in 1..Len(a) + 1 :
             (a \o <<e>>)[q] = IF q <= Len(a) THEN a[q] ELSE <<e>>[q - Len(a)]
    BY <1>2, <1>4, ConcatProperties
  <2> QED BY <1>1, <1>2, <1>4, <2>1, SMTT(30)
<1> DEFINE d == a \o <<e>>
           t == d \o c
<1>6. /\ t \in Seq(Nat) /\ Len(t) = i + Len(c)
      /\ \A q \in 1..i + Len(c) : t[q] = IF q <= i THEN d[q] ELSE c[q - i]
  <2>1. d \in Seq(Nat) /\ Len(d) = i
    BY <1>5
  <2> HIDE DEF d
  <2> QED BY <1>3, <2>1, ConcatProperties
<1>7. InsertAt(s, i, e) = t
  BY DEF InsertAt, a, c
<1>8. \A q \in 1..i : d[q] = IF q < i THEN s[q] ELSE e
  BY <1>5
<1> HIDE DEF d, t
<1>9. Len(t) = Len(s) + 1
  BY <1>1, <1>3, <1>6
<1>10. ASSUME NEW q \in 1..Len(s) + 1
       PROVE  t[q] = IF q < i THEN s[q] ELSE IF q = i THEN e ELSE s[q - 1]
  <2>1. q \in 1..i + Len(c)
    BY <1>1, <1>3
  <2>2. t[q] = IF q <= i THEN d[q] ELSE c[q - i]
    BY <1>6, <2>1
  <2>3. CASE q <= i
    <3>1. q \in 1..i /\ (q < i \/ q = i)
      BY <1>1, <2>3
    <3>2. d[q] = IF q < i THEN s[q] ELSE e
      BY <1>8, <3>1
    <3> QED BY <2>2, <2>3, <3>1, <3>2
  <2>4. CASE q > i
    <3>1. /\ q - i \in 1..Len(s) - i + 1 /\ i + (q - i) - 1 = q - 1
          /\ ~(q <= i) /\ ~(q < i) /\ q # i
      BY <1>1, <2>4
    <3>2. c[q - i] = s[i + (q - i) - 1]
      BY <1>3, <3>1
    <3> QED BY <2>2, <3>1, <3>2
  <2> QED BY <1>1, <2>3, <2>4
<1>11. IsInserted(t, s, i, e)
  BY <1>6, <1>9, <1>10 DEF IsInserted
<1> QED BY <1>7, <1>11

LEMMA InsertFacts ==
  ASSUME NEW s \in Seq(Nat), NEW i \in 1..Len(s) + 1, NEW e \in Nat
  PROVE  LET t == InsertAt(s, i, e) IN
         /\ t \in Seq(Nat) /\ Len(t) = Len(s) + 1
         /\ \A q \in 1..Len(s) + 1 :
              t[q] = IF q < i THEN s[q] ELSE IF q = i THEN e ELSE s[q - 1]
<1>1. IsInserted(InsertAt(s, i, e), s, i, e)
  BY InsertIs
<1> QED BY <1>1 DEF IsInserted

LEMMA RemoveFacts ==
  ASSUME NEW s \in Seq(Nat), NEW p \in 1..Len(s)
  PROVE  LET t == RemoveAt(s, p) IN
         /\ t \in Seq(Nat) /\ Len(t) = Len(s) - 1
         /\ \A q \in 1..Len(s) - 1 : t[q] = IF q < p THEN s[q] ELSE s[q + 1]
<1> DEFINE a == SubSeq(s, 1, p - 1)
           c == SubSeq(s, p + 1, Len(s))
<1>1. Len(s) \in Nat /\ p \in Int /\ \A q \in 1..Len(s) : s[q] \in Nat
  BY ElementOfSeq
<1>2. /\ a \in Seq(Nat) /\ Len(a) = p - 1
      /\ \A q \in 1..p - 1 : a[q] = s[q]
  <2>1. \A q \in 1..p - 1 : s[q] \in Nat
    BY <1>1
  <2>2. /\ a \in Seq(Nat) /\ Len(a) = IF 1 <= p - 1 THEN (p - 1) - 1 + 1 ELSE 0
        /\ \A q \in 1..(p - 1) - 1 + 1 : a[q] = s[1 + q - 1]
    BY <1>1, <2>1, SubSeqProperties
  <2> QED BY <1>1, <2>2
<1>3. /\ c \in Seq(Nat) /\ Len(c) = Len(s) - p
      /\ \A q \in 1..Len(s) - p : c[q] = s[p + q]
  <2>1. \A q \in p + 1..Len(s) : s[q] \in Nat
    BY <1>1
  <2>2. /\ c \in Seq(Nat)
        /\ Len(c) = IF p + 1 <= Len(s) THEN Len(s) - (p + 1) + 1 ELSE 0
        /\ \A q \in 1..Len(s) - (p + 1) + 1 : c[q] = s[(p + 1) + q - 1]
    BY <1>1, <2>1, SubSeqProperties
  <2> QED BY <1>1, <2>2
<1> HIDE DEF a, c
<1> DEFINE t == a \o c
<1>4. /\ t \in Seq(Nat) /\ Len(t) = Len(a) + Len(c)
      /\ \A q \in 1..Len(a) + Len(c) : t[q] = IF q <= Len(a) THEN a[q] ELSE c[q - Len(a)]
  BY <1>2, <1>3, ConcatProperties
<1>5. RemoveAt(s, p) = t
  BY DEF RemoveAt, a, c
<1> HIDE DEF t
<1>6. Len(t) = Len(s) - 1
  BY <1>1, <1>2, <1>3, <1>4
<1>7. ASSUME NEW q \in 1..Len(s) - 1
      PROVE  t[q] = IF q < p THEN s[q] ELSE s[q + 1]
  <2>1. q \in 1..Len(a) + Len(c)
    BY <1>1, <1>2, <1>3
  <2>2. t[q] = IF q <= Len(a) THEN a[q] ELSE c[q - Len(a)]
    BY <1>4, <2>1
  <2>3. CASE q < p
    <3>1. q \in 1..p - 1 /\ q <= Len(a)
      BY <1>1, <1>2, <2>3
    <3> QED BY <1>2, <2>2, <2>3, <3>1
  <2>4. CASE q >= p
    <3>1. /\ q - Len(a) \in 1..Len(s) - p /\ p + (q - Len(a)) = q + 1
          /\ ~(q <= Len(a)) /\ ~(q < p)
      BY <1>1, <1>2, <1>3, <2>4
    <3>2. c[q - Len(a)] = s[p + (q - Len(a))]
      BY <1>3, <3>1
    <3> QED BY <2>2, <3>1, <3>2
  <2> QED BY <1>1, <2>3, <2>4
<1> QED BY <1>4, <1>5, <1>6, <1>7

\* An insertion leaves the others where they were, before it or after it.
LEMMA InsertOnce ==
  ASSUME NEW s \in Seq(Nat), NEW i \in 1..Len(s) + 1, NEW e \in Nat,
         \A q \in 1..Len(s) : s[q] # e
  PROVE  \A t : t = InsertAt(s, i, e) =>
         /\ Once(t, e)
         /\ \A o \in Nat : Once(s, o) => Once(t, o)
         /\ \A q \in 1..Len(t) : t[q] = e \/ \E r \in 1..Len(s) : t[q] = s[r]
<1> DEFINE t == InsertAt(s, i, e)
<1>1. /\ t \in Seq(Nat) /\ Len(t) = Len(s) + 1 /\ Len(s) \in Nat
      /\ \A q \in 1..Len(s) + 1 :
           t[q] = IF q < i THEN s[q] ELSE IF q = i THEN e ELSE s[q - 1]
  <2>1. Len(s) \in Nat
    OBVIOUS
  <2>2. IsInserted(t, s, i, e)
    BY InsertIs
  <2> QED BY <2>1, <2>2 DEF IsInserted
<1> HIDE DEF t
<1>2. /\ t[i] = e /\ i \in 1..Len(t)
      /\ \A q \in 1..Len(t) : q < i => q \in 1..Len(s) /\ t[q] = s[q]
      /\ \A q \in 1..Len(t) : q > i => q - 1 \in 1..Len(s) /\ t[q] = s[q - 1]
  BY <1>1
<1>3. \A q \in 1..Len(t) : q < i \/ q = i \/ q > i
  BY <1>1
<1>4. Once(t, e)
  <2>1. \A q \in 1..Len(t) : t[q] = e <=> q = i
    BY <1>2, <1>3
  <2> QED BY <1>2, <2>1 DEF Once
<1>5. ASSUME NEW o \in Nat, Once(s, o)
      PROVE  Once(t, o)
  <2>1. PICK p \in 1..Len(s) : \A q \in 1..Len(s) : s[q] = o <=> q = p
    BY <1>5 DEF Once
  <2> DEFINE r == IF p < i THEN p ELSE p + 1
  <2>2. r \in 1..Len(t) /\ r # i
    BY <1>1
  <2>3. o # e
    BY <2>1
  <2>4. ASSUME NEW q \in 1..Len(t)
        PROVE  t[q] = o <=> q = r
    <3>1. CASE q < i
      <4>1. t[q] = o <=> q = p
        BY <1>2, <2>1, <3>1
      <4> QED BY <1>1, <3>1, <4>1, SMTT(30)
    <3>2. CASE q = i
      BY <1>2, <2>2, <2>3, <3>2
    <3>3. CASE q > i
      <4>1. t[q] = o <=> q - 1 = p
        BY <1>2, <2>1, <3>3
      <4> QED BY <1>1, <3>3, <4>1, SMTT(30)
    <3> QED BY <1>3, <3>1, <3>2, <3>3
  <2> HIDE DEF r
  <2> QED BY <2>2, <2>4 DEF Once
<1>6. \A q \in 1..Len(t) : t[q] = e \/ \E r \in 1..Len(s) : t[q] = s[r]
  BY <1>2, <1>3
<1> QED BY <1>4, <1>5, <1>6 DEF t

LEMMA RemoveOnce ==
  ASSUME NEW s \in Seq(Nat), NEW p \in 1..Len(s), NEW e \in Nat,
         \A q \in 1..Len(s) : s[q] = e <=> q = p
  PROVE  \A t : t = RemoveAt(s, p) =>
         /\ \A o \in Nat : Once(s, o) /\ o # e => Once(t, o)
         /\ \A q \in 1..Len(t) : t[q] # e /\ \E r \in 1..Len(s) : t[q] = s[r]
<1> DEFINE t == RemoveAt(s, p)
<1>1. /\ t \in Seq(Nat) /\ Len(t) = Len(s) - 1 /\ Len(s) \in Nat
      /\ \A q \in 1..Len(s) - 1 : t[q] = IF q < p THEN s[q] ELSE s[q + 1]
  BY RemoveFacts
<1> HIDE DEF t
<1>2. ASSUME NEW q \in 1..Len(t)
      PROVE  LET r == IF q < p THEN q ELSE q + 1 IN
             r \in 1..Len(s) /\ t[q] = s[r] /\ r # p
  <2>1. q \in 1..Len(s) - 1
    BY <1>1
  <2>2. t[q] = IF q < p THEN s[q] ELSE s[q + 1]
    BY <1>1, <2>1
  <2>3. IF q < p THEN q \in 1..Len(s) /\ q # p ELSE q + 1 \in 1..Len(s) /\ q + 1 # p
    BY <1>1, <2>1
  <2> QED BY <2>2, <2>3
<1>3. \A q \in 1..Len(t) : t[q] # e /\ \E r \in 1..Len(s) : t[q] = s[r]
  BY <1>2
<1>4. ASSUME NEW o \in Nat, Once(s, o), o # e
      PROVE  Once(t, o)
  <2>1. PICK g \in 1..Len(s) : \A q \in 1..Len(s) : s[q] = o <=> q = g
    BY <1>4 DEF Once
  <2>2. g # p
    BY <1>4, <2>1
  <2> DEFINE h == IF g < p THEN g ELSE g - 1
  <2>3. h \in 1..Len(t)
    BY <1>1, <2>2
  <2>4. ASSUME NEW q \in 1..Len(t)
        PROVE  t[q] = o <=> q = h
    <3>1. CASE q < p
      <4>1. q \in 1..Len(s) /\ t[q] = s[q]
        BY <1>2, <3>1
      <4>2. t[q] = o <=> q = g
        BY <2>1, <4>1
      <4> QED BY <1>1, <2>2, <3>1, <4>2, SMTT(30)
    <3>2. CASE q >= p
      <4>1. q + 1 \in 1..Len(s) /\ t[q] = s[q + 1]
        BY <1>1, <1>2, <3>2
      <4>2. t[q] = o <=> q + 1 = g
        BY <2>1, <4>1
      <4> QED BY <1>1, <2>2, <3>2, <4>2, SMTT(30)
    <3> QED BY <1>1, <3>1, <3>2
  <2> HIDE DEF h
  <2> QED BY <2>3, <2>4 DEF Once
<1> QED BY <1>3, <1>4 DEF t

\* A move leaves the same children, in a list of the same length.
LEMMA MoveOnce ==
  ASSUME NEW s \in Seq(Nat), NEW e \in Nat, Once(s, e), NEW slot \in 1..Len(s) + 1
  PROVE  LET t == Moved(s, e, slot) IN
         /\ t \in Seq(Nat)
         /\ \A o \in Nat : Once(s, o) => Once(t, o)
         /\ \A q \in 1..Len(t) : \E r \in 1..Len(s) : t[q] = s[r]
<1>1. DOMAIN s = 1..Len(s) /\ Len(s) \in Nat
  BY LenProperties
<1>2. PICK p \in 1..Len(s) : /\ p = PlaceOf(s, e)
                             /\ s[p] = e /\ \A q \in 1..Len(s) : s[q] = e <=> q = p
  <2>1. PICK g \in 1..Len(s) : \A q \in 1..Len(s) : s[q] = e <=> q = g
    BY DEF Once
  <2>2. PlaceOf(s, e) \in DOMAIN s /\ s[PlaceOf(s, e)] = e
    BY <1>1, <2>1 DEF PlaceOf
  <2> QED BY <1>1, <2>1, <2>2
<1> DEFINE u == RemoveAt(s, p)
           t == Moved(s, e, slot)
<1>3. t = CASE p = slot - 1 -> s
            [] p < slot - 1 -> InsertAt(u, slot - 1, e)
            [] OTHER -> InsertAt(u, slot, e)
  BY <1>2 DEF Moved
<1>4. u \in Seq(Nat) /\ Len(u) = Len(s) - 1
  BY <1>2, RemoveFacts
<1>5. /\ \A o \in Nat : Once(s, o) /\ o # e => Once(u, o)
      /\ \A q \in 1..Len(u) : u[q] # e /\ \E r \in 1..Len(s) : u[q] = s[r]
  <2>1. p \in 1..Len(s) /\ \A q \in 1..Len(s) : s[q] = e <=> q = p
    BY <1>2
  <2> QED BY <2>1, RemoveOnce, SMTT(30)
<1> HIDE DEF u, t
<1>7. ASSUME NEW i \in 1..Len(u) + 1, t = InsertAt(u, i, e)
      PROVE  /\ t \in Seq(Nat)
             /\ \A o \in Nat : Once(s, o) => Once(t, o)
             /\ \A q \in 1..Len(t) : \E r \in 1..Len(s) : t[q] = s[r]
  <2>1. /\ Once(t, e) /\ \A o \in Nat : Once(u, o) => Once(t, o)
        /\ \A q \in 1..Len(t) : t[q] = e \/ \E r \in 1..Len(u) : t[q] = u[r]
    <3>1. u \in Seq(Nat) /\ \A q \in 1..Len(u) : u[q] # e
      BY <1>4, <1>5
    <3> QED BY <1>7, <3>1, InsertOnce, SMTT(30)
  <2>2. t \in Seq(Nat)
    BY <1>4, <1>7, InsertFacts
  <2>3. ASSUME NEW q \in 1..Len(t)
        PROVE  \E r \in 1..Len(s) : t[q] = s[r]
    <3>1. CASE t[q] = e
      BY <1>2, <3>1
    <3>2. CASE t[q] # e
      <4>1. PICK r \in 1..Len(u) : t[q] = u[r]
        BY <2>1, <3>2
      <4> QED BY <1>5, <4>1
    <3> QED BY <3>1, <3>2
  <2>4. \A o \in Nat : Once(s, o) => Once(t, o)
    BY <1>5, <2>1
  <2> QED BY <2>2, <2>3, <2>4
<1>8. CASE p = slot - 1
  <2>1. t = s
    BY <1>3, <1>8
  <2> QED BY <2>1 DEF t
<1>9. CASE p < slot - 1
  <2>1. t = InsertAt(u, slot - 1, e)
    BY <1>1, <1>2, <1>3, <1>9
  <2>2. slot - 1 \in 1..Len(u) + 1
    BY <1>1, <1>2, <1>4, <1>9
  <2> QED BY <1>7, <2>1, <2>2 DEF t
<1>10. CASE p > slot - 1
  <2>1. p # slot - 1 /\ ~(p < slot - 1)
    BY <1>1, <1>10
  <2>3. t = InsertAt(u, slot, e)
    BY <1>3, <2>1
  <2>2. slot \in 1..Len(u) + 1
    BY <1>1, <1>2, <1>4, <1>10
  <2> QED BY <1>7, <2>2, <2>3 DEF t
<1> QED BY <1>1, <1>2, <1>8, <1>9, <1>10

\* As many places as there are different children among them.
LEMMA Room ==
  ASSUME NEW s \in Seq(Nat), NEW m \in Nat, NEW c,
         \A h \in 1..m : Once(s, c[h]),
         \A h, g \in 1..m : c[h] = c[g] => h = g
  PROVE  m <= Len(s)
<1> DEFINE f == [h \in 1..m |-> CHOOSE p \in 1..Len(s) : s[p] = c[h]]
<1>1. \A h \in 1..m : f[h] \in 1..Len(s) /\ s[f[h]] = c[h]
  <2>1. ASSUME NEW h \in 1..m
        PROVE  \E p \in 1..Len(s) : s[p] = c[h]
    BY DEF Once
  <2> QED BY <2>1
<1>2. f \in [1..m -> 1..Len(s)]
  BY <1>1
<1> HIDE DEF f
<1>3. \A h, g \in 1..m : f[h] = f[g] => h = g
  BY <1>1
<1>4. f \in Injection(1..m, 1..Len(s))
  BY <1>2, <1>3, Zenon DEF Injection, IsInjective
<1>5. /\ IsFiniteSet(1..Len(s)) /\ Len(s) \in Nat
      /\ Cardinality(1..Len(s)) = Len(s) /\ Cardinality(1..m) = m
  <2>1. Len(s) \in Nat /\ 1 \in Int /\ Len(s) \in Int /\ m \in Int
    OBVIOUS
  <2>2. /\ IsFiniteSet(1..Len(s))
        /\ Cardinality(1..Len(s)) = IF 1 > Len(s) THEN 0 ELSE Len(s) - 1 + 1
        /\ Cardinality(1..m) = IF 1 > m THEN 0 ELSE m - 1 + 1
    BY <2>1, FS_Interval, Zenon
  <2> QED BY <2>1, <2>2
<1>6. Cardinality(1..m) <= Cardinality(1..Len(s))
  BY <1>4, <1>5, FS_Injection
<1> QED BY <1>5, <1>6

LEMMA OnceIsOne ==
  ASSUME NEW s \in Seq(Nat), NEW o, Once(s, o)
  PROVE  Cardinality({p \in DOMAIN s : s[p] = o}) = 1
<1>1. DOMAIN s = 1..Len(s)
  BY LenProperties
<1>2. PICK g \in 1..Len(s) : \A q \in 1..Len(s) : s[q] = o <=> q = g
  BY DEF Once
<1>3. {p \in DOMAIN s : s[p] = o} = {g}
  BY <1>1, <1>2
<1> QED BY <1>3, FS_Singleton

\* The children that the slots from the first to the last give, one by one; the
\* least slot without them would have a predecessor that has them.
LEMMA PlacedAllFacts ==
  ASSUME NEW child, NEW old, Len(child) \in Nat
  PROVE  \E g : /\ PlacedAll(child, old) = g[Len(child)]
                /\ g[0] = [rendered |-> rendered, failed |-> FALSE]
                /\ \A i \in 1..Len(child) : g[i] = Placed(g[i - 1], child[i], old[i], i)
<1> DEFINE start == [rendered |-> Detached(rendered, Gone(old)), failed |-> FALSE]
           Fits(g, n) == g = [i \in 0..n |->
                                IF i = 0 THEN start
                                ELSE Placed(g[i - 1], child[i], old[i], i)]
           p == CHOOSE g : Fits(g, Len(child))
<1>1. \A n \in Nat : \E g : Fits(g, n)
  <2>1. SUFFICES ASSUME NEW m \in Nat, \A g : ~Fits(g, m)
               PROVE  FALSE
    OBVIOUS
  <2> DEFINE T == {n \in Nat : \A g : ~Fits(g, n)}
  <2> HIDE DEF Fits
  <2>2. PICK x \in T : \A y \in T : x <= y
    <3>1. T \in SUBSET Nat /\ m \in T
      BY <2>1
    <3> HIDE DEF T
    <3> QED BY <3>1, LeastElement
  <2>3. x # 0
    <3>1. Fits([i \in 0..0 |-> start], 0)
      BY DEF Fits
    <3> QED BY <3>1
  <2>4. x - 1 \in Nat /\ x - 1 \notin T
    BY <2>2, <2>3
  <2>5. PICK g : Fits(g, x - 1)
    BY <2>4
  <2> DEFINE h == [i \in 0..x |-> IF i = x THEN Placed(g[x - 1], child[x], old[x], x) ELSE g[i]]
  <2>6. \A i \in 0..x - 1 : h[i] = IF i = 0 THEN start
                                   ELSE Placed(h[i - 1], child[i], old[i], i)
    <3>1. \A i \in 0..x - 1 : h[i] = g[i]
      BY <2>4
    <3>2. \A i \in 0..x - 1 : g[i] = IF i = 0 THEN start
                                     ELSE Placed(g[i - 1], child[i], old[i], i)
      BY <2>5 DEF Fits
    <3> HIDE DEF h, start
    <3>3. ASSUME NEW i \in 0..x - 1
          PROVE  h[i] = IF i = 0 THEN start ELSE Placed(h[i - 1], child[i], old[i], i)
      <4>1. i # 0 => i - 1 \in 0..x - 1
        BY <2>4
      <4>2. i # 0 => h[i - 1] = g[i - 1]
        BY <3>1, <4>1
      <4> QED BY <3>1, <3>2, <4>2
    <3> QED BY <3>3
  <2>7. h[x] = Placed(h[x - 1], child[x], old[x], x)
    <3>1. x \in 0..x /\ x - 1 \in 0..x /\ x - 1 # x
      BY <2>4
    <3> QED BY <3>1
  <2>8. Fits(h, x)
    <3>1. \A i \in 0..x : i = x \/ i \in 0..x - 1
      BY <2>4
    <3>2. DOMAIN h = 0..x /\ h = [i \in 0..x |-> h[i]]
      OBVIOUS
    <3> HIDE DEF h, start
    <3>3. \A i \in 0..x : h[i] = IF i = 0 THEN start ELSE Placed(h[i - 1], child[i], old[i], i)
      BY <2>3, <2>6, <2>7, <3>1
    <3> QED BY <3>2, <3>3 DEF Fits
  <2> QED BY <2>2, <2>8
<1>2. PlacedAll(child, old) = p[Len(child)]
  BY DEF PlacedAll
<1>3. Fits(p, Len(child))
  <2> HIDE DEF Fits
  <2> QED BY <1>1
<1> HIDE DEF p
<1>4. p[0] = [rendered |-> rendered, failed |-> FALSE]
  BY <1>3 DEF Detached
<1>5. \A i \in 1..Len(child) : p[i] = Placed(p[i - 1], child[i], old[i], i)
  <2>1. \A i \in 1..Len(child) : i \in 0..Len(child) /\ i # 0
    OBVIOUS
  <2> QED BY <1>3, <2>1
<1> QED BY <1>2, <1>4, <1>5

\* The list of the render objects is complete, and the next one will be new.
RenderedInv ==
  /\ rendered \in Seq(Nat) /\ failed = FALSE
  /\ \A p \in 1..Len(rendered) : rendered[p] < next
  /\ \A i \in 1..Len(list) : Once(rendered, list[i].object)

\* What holds when the new children have got their slots up to i: those of the
\* old list and the new ones so far are rendered, and F, the places of new
\* elements, tell which render objects there are.
Sound(r, new, F, i) ==
  /\ r \in [rendered : Seq(Nat), failed : {FALSE}]
  /\ \A p \in 1..Len(r.rendered) : r.rendered[p] < next + Before(F, i + 1)
  /\ \A j \in 1..Len(list) : Once(r.rendered, list[j].object)
  /\ \A h \in 1..i : Once(r.rendered, new[h].object)

LEMMA PlacedKeeps ==
  ASSUME IInv, NEW ws \in WidgetLists, NEW i \in 1..Len(ws), NEW r,
         Sound(r, Updated(ws, Matches(ws)), Fresh(Matches(ws)), i - 1)
  PROVE  Sound(Placed(r, Updated(ws, Matches(ws))[i], Matches(ws)[i], i),
               Updated(ws, Matches(ws)), Fresh(Matches(ws)), i)
<1> DEFINE old == Matches(ws)
           new == Updated(ws, old)
           F == Fresh(old)
           k == Len(ws)
           n == Len(list)
           s == r.rendered
           e == new[i].object
           t == Placed(r, new[i], old[i], i)
<1>1. /\ r = [rendered |-> s, failed |-> FALSE] /\ s \in Seq(Nat)
      /\ r \in [rendered : Seq(Nat), failed : {FALSE}]
      /\ \A p \in 1..Len(s) : s[p] < next + Before(F, i)
      /\ \A j \in 1..n : Once(s, list[j].object)
      /\ \A h \in 1..i - 1 : Once(s, new[h].object)
  <2>1. (i - 1) + 1 = i
    OBVIOUS
  <2> QED BY <2>1 DEF Sound
<1>2. /\ new \in Seq(Records) /\ F \in SUBSET (1..k) /\ k \in Nat
      /\ \A j \in 1..n : old[i] = {j} => e = list[j].object
      /\ i \in F => e = next + Before(F, i)
      /\ i \notin F => old[i] # {} /\ \E j \in 1..n : old[i] = {j}
      /\ i \in F => old[i] = {}
  <2>1. /\ new \in Seq(Records) /\ F \in SUBSET (1..k) /\ k \in Nat
        /\ \A j \in 1..n : old[i] = {j} => e = list[j].object
        /\ i \in F => e = next + Before(F, i)
    BY UpdatedFacts, WidgetListsType
  <2>2. ws \in Seq(Widgets) /\ KeysDiffer(ws)
    BY WidgetListsType
  <2>3. /\ DOMAIN old = 1..k
        /\ old[i] # {} => \E j \in 1..n : old[i] = {j}
    BY <2>2, MatchFacts DEF IInv
  <2> QED BY <2>1, <2>3 DEF Fresh
<1>3. /\ next \in Nat /\ n \in Nat /\ e \in Nat
      /\ \A j \in 1..n : list[j].object \in Nat
      /\ \A h \in 1..k : new[h].object \in Nat
  <2>1. Len(new) = k
    BY UpdatedFacts
  <2>2. /\ n \in Nat /\ next \in Nat
        /\ \A j \in 1..n : list[j] \in Records
        /\ \A h \in 1..k : new[h] \in Records
    BY <1>2, <2>1, ElementOfSeq, LenProperties DEF IInv, TypeInv
  <2> QED BY <2>2 DEF Records
<1>4. /\ Before(F, i) \in Nat /\ Before(F, i + 1) \in Nat
      /\ Before(F, i) <= Before(F, i + 1)
      /\ i \in F => Before(F, i) < Before(F, i + 1)
  <2>1. i \in Int /\ i + 1 \in Int /\ i <= i + 1 /\ i < i + 1
    OBVIOUS
  <2> QED BY <1>2, <2>1, BeforeFacts
<1>5. i - 1 <= Len(s)
  <2> DEFINE c == [h \in 1..i - 1 |-> new[h].object]
  <2>1. \A h, g \in 1..k : new[h].object = new[g].object => h = g
    BY NumbersKept
  <2>2. i - 1 \in Nat /\ \A h \in 1..i - 1 : h \in 1..k
    BY <1>2
  <2>3. /\ \A h \in 1..i - 1 : Once(s, c[h])
        /\ \A h, g \in 1..i - 1 : c[h] = c[g] => h = g
    BY <1>1, <2>1, <2>2
  <2> HIDE DEF c, s
  <2> QED BY <1>1, <2>2, <2>3, Room
<1>6. SUFFICES /\ t.rendered \in Seq(Nat) /\ t = [rendered |-> t.rendered, failed |-> FALSE]
               /\ \A p \in 1..Len(t.rendered) : t.rendered[p] < next + Before(F, i + 1)
               /\ \A o \in Nat : Once(s, o) => Once(t.rendered, o)
               /\ Once(t.rendered, e)
  <2> HIDE DEF t, new, s, F, old
  <2>1. ASSUME Once(t.rendered, e), \A o \in Nat : Once(s, o) => Once(t.rendered, o)
        PROVE  \A h \in 1..i : Once(t.rendered, new[h].object)
    <3>1. \A h \in 1..i : h = i \/ h \in 1..i - 1
      OBVIOUS
    <3>2. \A h \in 1..i - 1 : new[h].object \in Nat
      BY <1>2, <1>3
    <3> QED BY <1>1, <2>1, <3>1, <3>2
  <2>2. ASSUME NEW u \in Seq(Nat), t = [rendered |-> u, failed |-> FALSE]
        PROVE  t \in [rendered : Seq(Nat), failed : {FALSE}]
    BY <2>2
  <2> QED BY <1>1, <1>3, <2>1, <2>2 DEF Sound, t, new, s, F, old
<1> HIDE DEF old, new, F, s, t, e, k, n
<1>7. i \in 1..Len(s) + 1 /\ Len(s) \in Nat
  <2>1. i \in Nat /\ i >= 1 /\ Len(s) \in Nat
    BY <1>1
  <2> QED BY <1>5, <2>1
<1>8. \A g \in 1..Len(s) : s[g] < next + Before(F, i + 1)
  <2>1. ASSUME NEW g \in 1..Len(s)
        PROVE  s[g] < next + Before(F, i + 1)
    <3>1. \A a, b, c, d \in Nat : a < b + c /\ c <= d => a < b + d
      OBVIOUS
    <3>2. s[g] \in Nat /\ s[g] < next + Before(F, i)
      BY <1>1, ElementOfSeq
    <3>3. next \in Nat
      BY <1>3
    <3>4. Before(F, i) \in Nat /\ Before(F, i + 1) \in Nat /\ Before(F, i) <= Before(F, i + 1)
      BY <1>4
    <3> QED BY <3>1, <3>2, <3>3, <3>4
  <2> QED BY <2>1
<1>9. CASE i \in F
  <2>1. t = [rendered |-> InsertAt(s, i, e), failed |-> FALSE]
    <3>1. old[i] = {} /\ ~(Len(s) < i - 1)
      BY <1>2, <1>5, <1>7, <1>9
    <3> QED BY <1>1, <3>1 DEF t, Placed, InsertFails, Inserted, s, e
  <2>2. \A q \in 1..Len(s) : s[q] # e
    <3>1. \A q \in 1..Len(s) : s[q] \in Nat
      BY <1>1, ElementOfSeq
    <3> QED BY <1>1, <1>2, <1>3, <1>4, <1>9, <3>1
  <2>3. /\ Once(t.rendered, e)
        /\ \A o \in Nat : Once(s, o) => Once(t.rendered, o)
        /\ \A q \in 1..Len(t.rendered) :
             t.rendered[q] = e \/ \E g \in 1..Len(s) : t.rendered[q] = s[g]
    <3>1. t.rendered = InsertAt(s, i, e)
      BY <2>1
    <3> QED BY <1>1, <1>3, <1>7, <2>2, <3>1, InsertOnce
  <2>4. t.rendered \in Seq(Nat)
    BY <1>1, <1>3, <1>7, <2>1, InsertFacts
  <2>5. \A p \in 1..Len(t.rendered) : t.rendered[p] < next + Before(F, i + 1)
    <3>1. e < next + Before(F, i + 1)
      BY <1>2, <1>3, <1>4, <1>9
    <3> QED BY <1>8, <2>3, <3>1
  <2> QED BY <2>1, <2>3, <2>4, <2>5
<1>10. CASE i \notin F
  <2>1. PICK j \in 1..n : old[i] = {j} /\ e = list[j].object
    BY <1>2, <1>10
  <2>2. Once(s, e)
    BY <1>1, <2>1
  <2>3. CASE old[i] = {i}
    <3>1. t = r
      BY <1>2, <1>10, <2>3 DEF t, Placed
    <3>2. t.rendered = s
      BY <3>1 DEF s
    <3> QED BY <1>1, <1>8, <2>2, <3>1, <3>2
  <2>4. CASE old[i] # {i}
    <3>1. t = [rendered |-> Moved(s, e, i), failed |-> FALSE]
      <4>1. old[i] # {} /\ ~(i - 1 > Len(s))
        BY <1>2, <1>5, <1>7, <1>10
      <4> QED BY <1>1, <2>4, <4>1 DEF t, Placed, MoveFails, s, e
    <3>2. /\ t.rendered \in Seq(Nat)
          /\ \A o \in Nat : Once(s, o) => Once(t.rendered, o)
          /\ \A q \in 1..Len(t.rendered) : \E g \in 1..Len(s) : t.rendered[q] = s[g]
      <4>1. t.rendered = Moved(s, e, i)
        BY <3>1
      <4> QED BY <1>1, <1>3, <1>7, <2>2, <4>1, MoveOnce
    <3> QED BY <1>3, <1>8, <2>2, <3>1, <3>2
  <2> QED BY <2>3, <2>4
<1> QED BY <1>9, <1>10

\* The slots from the first to the last: the least one that leaves something
\* unsound would follow one that does not.
LEMMA UpdateRenders ==
  ASSUME IInv, RenderedInv, NEW ws \in WidgetLists, UpdateChildren(ws)
  PROVE  RenderedInv'
<1> DEFINE old == Matches(ws)
           new == Updated(ws, old)
           F == Fresh(old)
           k == Len(ws)
<1>1. /\ new \in Seq(Records) /\ Len(new) = k /\ F \in SUBSET (1..k) /\ k \in Nat
      /\ next \in Nat
  BY UpdatedFacts, WidgetListsType DEF IInv, TypeInv
<1>2. PICK g : /\ PlacedAll(new, old) = g[k]
               /\ g[0] = [rendered |-> rendered, failed |-> FALSE]
               /\ \A i \in 1..k : g[i] = Placed(g[i - 1], new[i], old[i], i)
  <2>1. Len(new) = k /\ Len(new) \in Nat
    BY <1>1
  <2> HIDE DEF new, old, k
  <2>2. \E g : /\ PlacedAll(new, old) = g[Len(new)]
               /\ g[0] = [rendered |-> rendered, failed |-> FALSE]
               /\ \A i \in 1..Len(new) : g[i] = Placed(g[i - 1], new[i], old[i], i)
    BY <2>1, PlacedAllFacts, Zenon
  <2> QED BY <2>1, <2>2, Zenon
<1>3. Sound(g[0], new, F, 0)
  <2>1. rendered \in Seq(Nat) /\ Before(F, 0 + 1) \in Nat
    <3>1. 0 + 1 \in Int
      OBVIOUS
    <3> QED BY <1>1, <3>1, BeforeFacts DEF RenderedInv
  <2>2. \A p \in 1..Len(rendered) : rendered[p] < next + Before(F, 0 + 1)
    <3>1. ASSUME NEW p \in 1..Len(rendered)
          PROVE  rendered[p] < next + Before(F, 0 + 1)
      <4>1. \A a, b, c \in Nat : a < b => a < b + c
        OBVIOUS
      <4>2. rendered[p] \in Nat /\ rendered[p] < next
        BY <2>1, ElementOfSeq DEF RenderedInv
      <4> QED BY <1>1, <2>1, <4>1, <4>2
    <3> QED BY <3>1
  <2> HIDE DEF new, F
  <2>3. ASSUME NEW r, r = [rendered |-> rendered, failed |-> FALSE]
        PROVE  Sound(r, new, F, 0)
    <3>1. r \in [rendered : Seq(Nat), failed : {FALSE}] /\ r.rendered = rendered
      BY <2>1, <2>3
    <3>2. \A h \in 1..0 : Once(rendered, new[h].object)
      OBVIOUS
    <3> QED BY <2>2, <3>1, <3>2, Zenon DEF Sound, RenderedInv
  <2> QED BY <1>2, <2>3
<1>4. Sound(g[k], new, F, k)
  <2> DEFINE T == {i \in 0..k : ~Sound(g[i], new, F, i)}
  <2>1. SUFFICES ASSUME T # {} PROVE FALSE
    BY <1>1
  <2>2. PICK i \in T : \A h \in T : i <= h
    <3>1. T \in SUBSET Nat
      BY <1>1
    <3> HIDE DEF T
    <3> QED BY <2>1, <3>1, LeastElement
  <2> HIDE DEF new, F, k, old
  <2>3. i \in 1..k /\ i - 1 \in 0..k /\ i - 1 \notin T
    BY <1>1, <1>3, <2>2
  <2>4. Sound(g[i - 1], new, F, i - 1)
    BY <2>3
  <2>5. Sound(Placed(g[i - 1], new[i], old[i], i), new, F, i)
    BY <2>3, <2>4, PlacedKeeps DEF new, F, old, k
  <2> QED BY <1>2, <2>2, <2>3, <2>5
<1>5. list' = new /\ rendered' = g[k].rendered /\ failed' = g[k].failed
      /\ next' = next + Cardinality(F)
  <2>1. /\ list' = new /\ next' = next + Cardinality(F)
        /\ rendered' = PlacedAll(new, old).rendered /\ failed' = PlacedAll(new, old).failed
    BY DEF UpdateChildren
  <2> HIDE DEF new, old, F, k
  <2> QED BY <1>2, <2>1
<1> HIDE DEF new, old, F, k
<1>6. rendered' \in Seq(Nat) /\ failed' = FALSE
  BY <1>4, <1>5 DEF Sound
<1>7. \A i \in 1..Len(list') : Once(rendered', list'[i].object)
  BY <1>1, <1>4, <1>5 DEF Sound
<1>8. ASSUME NEW p \in 1..Len(rendered')
      PROVE  rendered'[p] < next'
  <2>1. \A a, b, c, d \in Nat : a < b + c /\ c <= d => a < b + d
    OBVIOUS
  <2>2. rendered'[p] \in Nat /\ rendered'[p] < next + Before(F, k + 1)
    BY <1>4, <1>5, <1>6, ElementOfSeq DEF Sound
  <2>3. /\ Before(F, k + 1) \in Nat /\ Cardinality(F) \in Nat
        /\ Before(F, k + 1) <= Cardinality(F)
    <3>1. k + 1 \in Int
      BY <1>1
    <3> QED BY <1>1, <3>1, BeforeFacts
  <2> QED BY <1>1, <1>5, <2>1, <2>2, <2>3
<1> QED BY <1>6, <1>7, <1>8 DEF RenderedInv

LEMMA RebuildRenders ==
  ASSUME IInv, RenderedInv, NEW i \in DOMAIN list, RebuildChild(i)
  PROVE  RenderedInv'
<1>1. /\ list \in Seq(Records) /\ DOMAIN list = 1..Len(list) /\ Len(list) \in Nat
      /\ \A j \in 1..Len(list) : list[j] \in Records
      /\ next \in Nat /\ next' = next + 1 /\ rendered \in Seq(Nat) /\ Len(rendered) \in Nat
  BY LenProperties, ElementOfSeq DEF IInv, TypeInv, RebuildChild, RenderedInv
<1>2. list' = [list EXCEPT ![i] = [list[i] EXCEPT !.object = next]]
  BY DEF RebuildChild
<1>3. [list[i] EXCEPT !.object = next] \in Records
  BY <1>1 DEF Records
<1>4. /\ Len(list') = Len(list)
      /\ \A j \in 1..Len(list) :
           list'[j] = IF j = i THEN [list[i] EXCEPT !.object = next] ELSE list[j]
  BY <1>1, <1>2, <1>3, ExceptSeq
<1>5. \A j \in 1..Len(list) :
        /\ list'[j].object = IF j = i THEN next ELSE list[j].object
        /\ list[j].object \in Nat
  BY <1>1, <1>4 DEF Records
<1>6. Len(list) <= Len(rendered)
  <2> DEFINE c == [j \in 1..Len(list) |-> list[j].object]
  <2>1. /\ \A j \in 1..Len(list) : Once(rendered, c[j])
        /\ \A j, h \in 1..Len(list) : c[j] = c[h] => j = h
    BY DEF IInv, NumbersInv, RenderedInv
  <2> HIDE DEF c
  <2> QED BY <1>1, <2>1, Room
<1>7. i \in 1..Len(rendered) + 1 /\ rendered' = InsertAt(rendered, i, next)
  <2>1. i \in 1..Len(list)
    BY <1>1
  <2>2. i \in 1..Len(rendered) + 1
    BY <1>1, <1>6, <2>1
  <2> QED BY <2>2 DEF RebuildChild, Detached, Inserted
<1>8. failed' = FALSE
  <2>1. (Len(rendered) < i - 1) = FALSE
    BY <1>1, <1>7
  <2>2. failed' = (Len(rendered) < i - 1)
    BY DEF RebuildChild, InsertFails
  <2> QED BY <2>1, <2>2, Zenon
<1>9. \A q \in 1..Len(rendered) : rendered[q] \in Nat /\ rendered[q] < next /\ rendered[q] # next
  BY <1>1, ElementOfSeq DEF RenderedInv
<1>10. /\ Once(rendered', next)
       /\ \A o \in Nat : Once(rendered, o) => Once(rendered', o)
       /\ \A q \in 1..Len(rendered') :
            rendered'[q] = next \/ \E g \in 1..Len(rendered) : rendered'[q] = rendered[g]
  BY <1>1, <1>7, <1>9, InsertOnce
<1>11. rendered' \in Seq(Nat)
  BY <1>1, <1>7, InsertFacts
<1>12. \A q \in 1..Len(rendered') : rendered'[q] < next'
  BY <1>1, <1>9, <1>10, SMTT(30)
<1>13. \A j \in 1..Len(list') : Once(rendered', list'[j].object)
  BY <1>4, <1>5, <1>10 DEF RenderedInv
<1> QED BY <1>8, <1>11, <1>12, <1>13 DEF RenderedInv

LEMMA InitiallyRendered ==
  ASSUME Init
  PROVE  RenderedInv
<1>1. PICK ws \in WidgetLists : list = [i \in DOMAIN ws |-> Child(ws[i], i)]
  BY DEF Init
<1>2. list \in Seq(Records) /\ DOMAIN list = 1..Len(list) /\ Len(list) \in Nat
  BY Initially, LenProperties DEF IInv, TypeInv
<1>3. \A i \in 1..Len(list) : list[i].object = i
  BY <1>1, <1>2 DEF Child
<1>4. rendered = [i \in 1..Len(list) |-> i]
  BY <1>2 DEF Init
<1>5. rendered \in Seq(Nat) /\ Len(rendered) = Len(list)
  <2>1. rendered \in [1..Len(list) -> Nat]
    BY <1>4
  <2>2. rendered \in Seq(Nat)
    BY <1>2, <2>1, SeqDef
  <2> QED BY <1>2, <2>1, <2>2, LenProperties
<1>6. ASSUME NEW i \in 1..Len(list)
      PROVE  Once(rendered, i)
  <2>1. \A q \in 1..Len(rendered) : rendered[q] = i <=> q = i
    BY <1>4, <1>5
  <2> QED BY <1>5, <2>1 DEF Once
<1>7. \A i \in 1..Len(list) : Once(rendered, list[i].object)
  BY <1>3, <1>6
<1>8. next = Len(list) + 1 /\ failed = FALSE
  BY DEF Init
<1>9. \A p \in 1..Len(rendered) : rendered[p] < next
  BY <1>2, <1>4, <1>5, <1>8
<1> QED BY <1>5, <1>7, <1>8, <1>9 DEF RenderedInv

LEMMA RendersInductive == Spec => []RenderedInv
<1>1. Init => RenderedInv
  BY InitiallyRendered
<1>2. IInv /\ RenderedInv /\ [Next]_vars => RenderedInv'
  <2>1. ASSUME IInv, RenderedInv, Next
        PROVE  RenderedInv'
    BY <2>1, UpdateRenders, RebuildRenders DEF Next
  <2>2. ASSUME RenderedInv, UNCHANGED vars
        PROVE  RenderedInv'
    BY <2>2 DEF vars, RenderedInv
  <2> QED BY <2>1, <2>2
<1> QED BY <1>1, <1>2, Inductive, PTL DEF Spec

\* Every child's render object is rendered exactly once, and no insertion or
\* move reaches beyond the list, though no object that leaves is ever removed.
THEOREM EveryChildIsRendered == Spec => []ChildrenRendered
<1>1. IInv /\ RenderedInv => ChildrenRendered
  <2> SUFFICES ASSUME IInv, RenderedInv PROVE ChildrenRendered
    OBVIOUS
  <2>1. DOMAIN list = 1..Len(list)
    BY LenProperties DEF IInv, TypeInv
  <2>2. ASSUME NEW i \in DOMAIN list
        PROVE  Cardinality({p \in DOMAIN rendered : rendered[p] = list[i].object}) = 1
    BY <2>1, OnceIsOne DEF RenderedInv
  <2> QED BY <2>2 DEF ChildrenRendered, RenderedInv
<1> QED BY <1>1, Inductive, RendersInductive, PTL

-----------------------------------------------------------------------------
(* The order of the render objects *)

\* The function f numbers the members of S from 1 to m.
Numbers(f, S, m) ==
  /\ m \in Nat /\ f \in [S -> 1..m]
  /\ \A x, y \in S : f[x] = f[y] => x = y
  /\ \A j \in 1..m : \E x \in S : f[x] = j

\* The function f goes up from 1 to m, through all the numbers.
Ascends(f, S, m) ==
  /\ m \in Nat /\ f \in [S -> 1..m]
  /\ \A x, y \in S : x < y => f[x] < f[y]
  /\ \A j \in 1..m : \E x \in S : f[x] = j

LEMMA SameSize ==
  ASSUME NEW S, NEW m, NEW f, Numbers(f, S, m)
  PROVE  IsFiniteSet(S) /\ Cardinality(S) = m
<1>1. f \in Injection(S, 1..m)
  BY Zenon DEF Numbers, Injection, IsInjective
<1>2. f \in Surjection(S, 1..m)
  BY Zenon DEF Numbers, Surjection
<1>3. IsFiniteSet(1..m) /\ Cardinality(1..m) = m
  <2>1. 1 \in Int /\ m \in Int /\ m \in Nat
    BY DEF Numbers
  <2>2. IsFiniteSet(1..m) /\ Cardinality(1..m) = IF 1 > m THEN 0 ELSE m - 1 + 1
    BY <2>1, FS_Interval, Zenon
  <2> QED BY <2>1, <2>2
<1> QED BY <1>1, <1>2, <1>3, FS_Injection

\* An increasing function onto 1..n counts.
LEMMA OrderedPlaces ==
  ASSUME NEW k \in Nat, NEW K \in SUBSET (1..k), NEW n, NEW f, Ascends(f, K, n)
  PROVE  /\ Cardinality(K) = n
         /\ \A i \in K : f[i] = Before(K, i) + 1
<1> USE DEF Ascends
<1>1. \A h, g \in K : f[h] = f[g] => h = g
  <2>1. \A h, g \in K : h < g \/ g < h \/ h = g
    OBVIOUS
  <2>2. \A h \in K : f[h] \in 1..n
    OBVIOUS
  <2> QED BY <2>1, <2>2
<1>2. Cardinality(K) = n
  <2>1. Numbers(f, K, n)
    BY <1>1 DEF Numbers
  <2> QED BY <2>1, SameSize
<1>3. ASSUME NEW i \in K
      PROVE  f[i] = Before(K, i) + 1
  <2> DEFINE S == {h \in K : h < i}
             b == [h \in S |-> f[h]]
  <2>1. f[i] \in 1..n /\ f[i] - 1 \in Nat
    OBVIOUS
  <2>2. b \in [S -> 1..f[i] - 1]
    <3>1. ASSUME NEW h \in S
          PROVE  f[h] \in 1..f[i] - 1
      <4>1. f[h] \in 1..n /\ f[h] < f[i]
        OBVIOUS
      <4> QED BY <2>1, <4>1
    <3> QED BY <3>1
  <2>3. \A x, y \in S : b[x] = b[y] => x = y
    BY <1>1
  <2>4. \A j \in 1..f[i] - 1 : \E h \in S : b[h] = j
    <3>1. ASSUME NEW j \in 1..f[i] - 1
          PROVE  \E h \in S : b[h] = j
      <4>1. j \in 1..n /\ j < f[i]
        BY <2>1
      <4>2. PICK h \in K : f[h] = j
        BY <4>1
      <4>3. ~(h = i) /\ ~(i < h)
        BY <2>1, <4>1, <4>2
      <4>4. h \in S
        BY <4>3
      <4> QED BY <4>2, <4>4
    <3> QED BY <3>1
  <2>5. Cardinality(S) = f[i] - 1
    <3> HIDE DEF S, b
    <3>1. Numbers(b, S, f[i] - 1)
      BY <2>1, <2>2, <2>3, <2>4 DEF Numbers
    <3> QED BY <3>1, SameSize
  <2> QED BY <2>1, <2>5 DEF Before
<1> QED BY <1>2, <1>3

LEMMA BeforeStep ==
  ASSUME NEW k \in Nat, NEW F \in SUBSET (1..k)
  PROVE  /\ Before(F, 1) = 0 /\ Before(F, k + 1) = Cardinality(F)
         /\ \A i \in 1..k : /\ i \in F => Before(F, i + 1) = Before(F, i) + 1
                            /\ i \notin F => Before(F, i + 1) = Before(F, i)
         /\ \A i \in 1..k + 1 : Before((1..k) \ F, i) = i - 1 - Before(F, i)
<1>1. {j \in F : j < 1} = {} /\ {j \in F : j < k + 1} = F
  <2>1. \A j \in F : ~(j < 1) /\ j < k + 1
    OBVIOUS
  <2> QED BY <2>1, Zenon
<1>2. Before(F, 1) = 0 /\ Before(F, k + 1) = Cardinality(F)
  BY <1>1, FS_EmptySet DEF Before
<1>3. ASSUME NEW i \in 1..k + 1
      PROVE  IsFiniteSet({j \in F : j < i}) /\ Before(F, i) \in Nat
  <2>1. IsFiniteSet(F) /\ Before(F, i) \in Nat
    <3>1. i \in Int
      OBVIOUS
    <3> QED BY <3>1, BeforeFacts
  <2> QED BY <2>1, FS_Subset
<1>4. ASSUME NEW i \in 1..k
      PROVE  /\ i \in F => Before(F, i + 1) = Before(F, i) + 1
             /\ i \notin F => Before(F, i + 1) = Before(F, i)
  <2>1. i \in 1..k + 1 /\ IsFiniteSet({j \in F : j < i}) /\ Before(F, i) \in Nat
    BY <1>3
  <2>2. CASE i \in F
    <3>1. {j \in F : j < i + 1} = {j \in F : j < i} \cup {i} /\ i \notin {j \in F : j < i}
      <4>1. /\ \A j \in F : j < i + 1 <=> j < i \/ j = i
            /\ ~(i < i)
        OBVIOUS
      <4> QED BY <2>2, <4>1, Zenon
    <3>2. Before(F, i + 1) = Before(F, i) + 1
      BY <2>1, <3>1, FS_AddElement DEF Before
    <3> QED BY <2>2, <3>2
  <2>3. CASE i \notin F
    <3>1. {j \in F : j < i + 1} = {j \in F : j < i}
      <4>1. \A j \in F : j < i + 1 <=> j < i \/ j = i
        OBVIOUS
      <4> QED BY <2>3, <4>1, Zenon
    <3> QED BY <2>1, <2>3, <3>1 DEF Before
  <2> QED BY <2>2, <2>3
<1>5. ASSUME NEW i \in 1..k + 1
      PROVE  Before((1..k) \ F, i) = i - 1 - Before(F, i)
  <2>1. /\ {h \in (1..k) \ F : h < i} = (1..i - 1) \ {j \in F : j < i}
        /\ (1..i - 1) \cap {j \in F : j < i} = {j \in F : j < i}
    <3>1. /\ \A h \in 1..k : h < i => h \in 1..i - 1
          /\ \A h \in 1..i - 1 : h \in 1..k /\ h < i
          /\ \A h \in F : h \in 1..k
      OBVIOUS
    <3> QED BY <3>1, Zenon
  <2>2. IsFiniteSet(1..i - 1) /\ Cardinality(1..i - 1) = i - 1
    <3>1. 1 \in Int /\ i - 1 \in Int
      OBVIOUS
    <3>2. IsFiniteSet(1..i - 1)
          /\ Cardinality(1..i - 1) = IF 1 > i - 1 THEN 0 ELSE (i - 1) - 1 + 1
      BY <3>1, FS_Interval, Zenon
    <3> QED BY <3>2
  <2>3. Cardinality((1..i - 1) \ {j \in F : j < i}) =
          Cardinality(1..i - 1) - Cardinality((1..i - 1) \cap {j \in F : j < i})
    BY <1>3, <2>2, FS_Difference
  <2> QED BY <2>1, <2>2, <2>3 DEF Before
<1> QED BY <1>2, <1>4, <1>5

\* No old child is gone and those that are kept are in their old order, so each
\* has moved by the number of new ones before it.
LEMMA KeptPlaces ==
  ASSUME IInv, NEW ws \in WidgetLists, Gone(Matches(ws)) = {},
         \A i, j \in DOMAIN ws \ Fresh(Matches(ws)) : i < j =>
           \A p \in Matches(ws)[i], q \in Matches(ws)[j] : p < q
  PROVE  LET old == Matches(ws)
             F == Fresh(old)
         IN  /\ Len(ws) - Cardinality(F) = Len(list)
             /\ \A i \in 1..Len(ws) : i \notin F =>
                  i - Before(F, i) \in 1..Len(list) /\ old[i] = {i - Before(F, i)}
<1> DEFINE old == Matches(ws)
           F == Fresh(old)
           k == Len(ws)
           n == Len(list)
           K == (1..k) \ F
           f == [i \in K |-> CHOOSE j \in 1..n : old[i] = {j}]
<1>1. /\ k \in Nat /\ n \in Nat /\ DOMAIN ws = 1..k /\ DOMAIN old = 1..k
      /\ DOMAIN list = 1..n /\ F \in SUBSET (1..k)
      /\ \A i \in 1..k : i \notin F => \E j \in 1..n : old[i] = {j}
      /\ \A i \in F : old[i] = {}
  <2>1. ws \in Seq(Widgets) /\ DOMAIN ws = 1..k /\ k \in Nat /\ KeysDiffer(ws)
    BY WidgetListsType
  <2>2. /\ DOMAIN old = 1..k
        /\ \A i \in 1..k : old[i] # {} => \E j \in 1..n : old[i] = {j}
    BY <2>1, MatchFacts DEF IInv
  <2>3. n \in Nat /\ DOMAIN list = 1..n
    BY LenProperties DEF IInv, TypeInv
  <2> QED BY <2>1, <2>2, <2>3 DEF Fresh
<1>2. UNION {old[i] : i \in DOMAIN old} = 1..n
  <2>1. 1..n \subseteq UNION {old[i] : i \in DOMAIN old}
    BY <1>1 DEF Gone
  <2>2. UNION {old[i] : i \in DOMAIN old} \subseteq 1..n
    BY <1>1
  <2> QED BY <2>1, <2>2
<1>3. \A i \in K : f[i] \in 1..n /\ old[i] = {f[i]}
  BY <1>1
<1>4. f \in [K -> 1..n]
  BY <1>3
<1>5. \A i, j \in K : i < j => \A p \in old[i], q \in old[j] : p < q
  BY <1>1
<1> HIDE DEF f, old, F, k, n
<1>6. \A i, j \in K : i < j => f[i] < f[j]
  BY <1>3, <1>5
<1>7. \A j \in 1..n : \E i \in K : f[i] = j
  <2>1. ASSUME NEW j \in 1..n
        PROVE  \E i \in K : f[i] = j
    <3>1. PICK i \in 1..k : j \in old[i]
      BY <1>1, <1>2
    <3>2. i \in K
      BY <1>1, <3>1
    <3> QED BY <1>3, <3>1, <3>2
  <2> QED BY <2>1
<1>8. /\ Cardinality(K) = n
      /\ \A i \in K : f[i] = Before(K, i) + 1
  <2>1. K \in SUBSET (1..k) /\ k \in Nat /\ n \in Nat
    BY <1>1
  <2> HIDE DEF K
  <2>2. Ascends(f, K, n)
    BY <1>4, <1>6, <1>7, <2>1 DEF Ascends
  <2> QED BY <2>1, <2>2, OrderedPlaces
<1>9. /\ Before(F, k + 1) = Cardinality(F)
      /\ \A i \in 1..k + 1 : Before(K, i) = i - 1 - Before(F, i)
      /\ \A i \in 1..k : Before(F, i) \in Nat
  <2>1. \A i \in 1..k : i \in Int
    OBVIOUS
  <2> QED BY <1>1, <2>1, BeforeStep, BeforeFacts
<1>10. k - Cardinality(F) = n
  <2>1. k + 1 \in 1..k + 1 /\ Before(K, k + 1) = Cardinality(K)
    <3>1. \A h \in K : h < k + 1
      BY <1>1
    <3>2. {h \in K : h < k + 1} = K
      BY <3>1, Zenon
    <3>3. Before(K, k + 1) = Cardinality(K)
      BY <3>2, Zenon DEF Before
    <3> QED BY <1>1, <3>3
  <2>2. Before(K, k + 1) = (k + 1) - 1 - Before(F, k + 1)
    BY <1>9, <2>1
  <2>3. Cardinality(F) \in Nat
    BY <1>1, BeforeFacts
  <2>4. n = (k + 1) - 1 - Cardinality(F)
    BY <1>8, <1>9, <2>1, <2>2, Zenon
  <2> QED BY <1>1, <2>3, <2>4
<1>11. ASSUME NEW i \in 1..k, i \notin F
       PROVE  i - Before(F, i) \in 1..n /\ old[i] = {i - Before(F, i)}
  <2>1. i \in K /\ i \in 1..k + 1
    BY <1>1, <1>11
  <2>2. f[i] = (i - 1 - Before(F, i)) + 1
    BY <1>8, <1>9, <2>1
  <2>3. f[i] = i - Before(F, i)
    BY <1>9, <2>2
  <2> QED BY <1>3, <2>1, <2>3
<1> QED BY <1>10, <1>11 DEF old, F, k, n

\* The children s when those of new have got the slots up to i, and none but the
\* ones whose places are in F are new: new ones first, then the rest of the old.
InOrder(r, new, F, i) ==
  /\ r \in [rendered : Seq(Nat), failed : {FALSE}]
  /\ Len(r.rendered) = Len(list) + Before(F, i + 1)
  /\ \A q \in 1..Len(r.rendered) :
       r.rendered[q] = IF q <= i THEN new[q].object
                       ELSE list[q - Before(F, i + 1)].object

\* A child that keeps its place among the others is where it belongs already.
LEMMA MoveStays ==
  ASSUME NEW s \in Seq(Nat), NEW i \in 1..Len(s), NEW e \in Nat,
         \A q \in 1..Len(s) : s[q] = e <=> q = i
  PROVE  Moved(s, e, i) = s
<1>1. DOMAIN s = 1..Len(s) /\ Len(s) \in Nat
  BY LenProperties
<1>2. PlaceOf(s, e) = i
  BY <1>1 DEF PlaceOf
<1> DEFINE u == RemoveAt(s, i)
           t == InsertAt(u, i, e)
<1>3. Moved(s, e, i) = t
  <2>1. i # i - 1 /\ ~(i < i - 1)
    BY <1>1
  <2> QED BY <1>2, <2>1 DEF Moved
<1>4. /\ u \in Seq(Nat) /\ Len(u) = Len(s) - 1
      /\ \A q \in 1..Len(s) - 1 : u[q] = IF q < i THEN s[q] ELSE s[q + 1]
  BY RemoveFacts
<1> HIDE DEF u
<1>5. /\ t \in Seq(Nat) /\ Len(t) = Len(u) + 1
      /\ \A q \in 1..Len(u) + 1 :
           t[q] = IF q < i THEN u[q] ELSE IF q = i THEN e ELSE u[q - 1]
  <2>1. i \in 1..Len(u) + 1
    BY <1>1, <1>4
  <2> QED BY <1>1, <1>4, <2>1, InsertFacts, SMTT(30)
<1> HIDE DEF t
<1>6. Len(t) = Len(s)
  BY <1>1, <1>4, <1>5
<1>7. ASSUME NEW q \in 1..Len(s)
      PROVE  t[q] = s[q]
  <2>1. CASE q < i
    <3>1. q \in 1..Len(s) - 1 /\ q \in 1..Len(u) + 1
      BY <1>1, <1>4, <2>1
    <3> QED BY <1>4, <1>5, <2>1, <3>1
  <2>2. CASE q = i
    <3>1. i \in 1..Len(u) + 1 /\ ~(i < i)
      BY <1>1, <1>4
    <3> QED BY <1>5, <2>2, <3>1
  <2>3. CASE q > i
    <3>1. /\ q - 1 \in 1..Len(s) - 1 /\ q \in 1..Len(u) + 1
          /\ ~(q - 1 < i) /\ ~(q < i) /\ q # i /\ (q - 1) + 1 = q
      BY <1>1, <1>4, <2>3
    <3> QED BY <1>4, <1>5, <3>1
  <2> QED BY <1>1, <2>1, <2>2, <2>3
<1> QED BY <1>3, <1>5, <1>6, <1>7, SeqEqual

LEMMA PlacedInOrder ==
  ASSUME IInv, NEW ws \in WidgetLists, Gone(Matches(ws)) = {},
         \A i, j \in DOMAIN ws \ Fresh(Matches(ws)) : i < j =>
           \A p \in Matches(ws)[i], q \in Matches(ws)[j] : p < q,
         NEW i \in 1..Len(ws), NEW r,
         InOrder(r, Updated(ws, Matches(ws)), Fresh(Matches(ws)), i - 1)
  PROVE  InOrder(Placed(r, Updated(ws, Matches(ws))[i], Matches(ws)[i], i),
                 Updated(ws, Matches(ws)), Fresh(Matches(ws)), i)
<1> DEFINE old == Matches(ws)
           new == Updated(ws, old)
           F == Fresh(old)
           k == Len(ws)
           n == Len(list)
           e == new[i].object
           t == Placed(r, new[i], old[i], i)
           b == Before(F, i)
           c == Before(F, i + 1)
<1>1. /\ new \in Seq(Records) /\ Len(new) = k /\ F \in SUBSET (1..k) /\ k \in Nat
      /\ i \in 1..k
      /\ \A j \in 1..n : old[i] = {j} => e = list[j].object
      /\ i \in F => old[i] = {}
  <2>1. /\ new \in Seq(Records) /\ Len(new) = k /\ F \in SUBSET (1..k) /\ k \in Nat
        /\ \A j \in 1..n : old[i] = {j} => e = list[j].object
    BY UpdatedFacts, WidgetListsType
  <2> QED BY <2>1 DEF Fresh
<1>2. /\ n \in Nat /\ e \in Nat
      /\ \A j, h \in 1..n : list[j].object = list[h].object => j = h
      /\ \A j, h \in 1..k : new[j].object = new[h].object => j = h
  <2>1. n \in Nat /\ \A h \in 1..k : new[h] \in Records
    BY <1>1, ElementOfSeq, LenProperties DEF IInv, TypeInv
  <2>2. \A j, h \in 1..n : list[j].object = list[h].object => j = h
    BY DEF IInv, NumbersInv
  <2>3. \A j, h \in 1..k : new[j].object = new[h].object => j = h
    BY NumbersKept
  <2> QED BY <2>1, <2>2, <2>3 DEF Records
<1>3. /\ k - Cardinality(F) = n
      /\ i \notin F => i - b \in 1..n /\ old[i] = {i - b}
  BY KeptPlaces
<1>4. PICK s \in Seq(Nat) :
        /\ r = [rendered |-> s, failed |-> FALSE] /\ Len(s) = n + b
        /\ \A q \in 1..Len(s) :
             s[q] = IF q <= i - 1 THEN new[q].object ELSE list[q - b].object
  <2>1. (i - 1) + 1 = i
    OBVIOUS
  <2>2. r \in [rendered : Seq(Nat), failed : {FALSE}]
    BY DEF InOrder
  <2>3. PICK s \in Seq(Nat) : r = [rendered |-> s, failed |-> FALSE]
    BY <2>2
  <2>4. r.rendered = s
    BY <2>3
  <2> HIDE DEF new, F, n
  <2> QED BY <2>1, <2>3, <2>4 DEF InOrder, new, F, old, n, b
<1>5. /\ b \in Nat /\ c = b + (IF i \in F THEN 1 ELSE 0)
      /\ b <= i - 1 /\ i - 1 <= n + b
  <2> DEFINE K == (1..k) \ F
  <2>1. i \in 1..k /\ i \in 1..k + 1 /\ k + 1 \in 1..k + 1 /\ i \in Int /\ k + 1 \in Int /\ i <= k + 1
        /\ K \in SUBSET (1..k)
    BY <1>1
  <2>2. b \in Nat /\ Cardinality(F) \in Nat
    BY <1>1, <2>1, BeforeFacts
  <2>3. Before(K, i) \in Nat /\ Before(K, k + 1) \in Nat /\ Before(K, i) <= Before(K, k + 1)
    <3> HIDE DEF K
    <3> QED BY <1>1, <2>1, BeforeFacts
  <2> HIDE DEF F, k, n
  <2>4. /\ c = b + (IF i \in F THEN 1 ELSE 0)
        /\ Before(K, i) = i - 1 - b /\ Before(K, k + 1) = (k + 1) - 1 - Cardinality(F)
    <3>1. /\ Before(F, k + 1) = Cardinality(F)
          /\ \A h \in 1..k : /\ h \in F => Before(F, h + 1) = Before(F, h) + 1
                             /\ h \notin F => Before(F, h + 1) = Before(F, h)
          /\ \A h \in 1..k + 1 : Before(K, h) = h - 1 - Before(F, h)
      <4>1. k \in Nat /\ F \in SUBSET (1..k)
        BY <1>1
      <4> QED BY <4>1, BeforeStep
    <3> HIDE DEF K
    <3>2. /\ i \in F => c = b + 1
          /\ i \notin F => c = b
      BY <2>1, <3>1
    <3>3. Before(K, i) = i - 1 - b /\ Before(K, k + 1) = (k + 1) - 1 - Before(F, k + 1)
      BY <2>1, <3>1
    <3> HIDE DEF b, c
    <3> QED BY <2>2, <3>1, <3>2, <3>3
  <2> HIDE DEF b, c, K
  <2> QED BY <1>1, <1>3, <2>2, <2>3, <2>4
<1>6. SUFFICES \E u \in Seq(Nat) :
                 /\ t = [rendered |-> u, failed |-> FALSE] /\ Len(u) = n + c
                 /\ \A q \in 1..Len(u) :
                      u[q] = IF q <= i THEN new[q].object ELSE list[q - c].object
  <2> HIDE DEF t, new, F, old, c, n
  <2>1. PICK u \in Seq(Nat) :
               /\ t = [rendered |-> u, failed |-> FALSE] /\ Len(u) = n + c
               /\ \A q \in 1..Len(u) :
                    u[q] = IF q <= i THEN new[q].object ELSE list[q - c].object
    BY <1>6
  <2>2. t \in [rendered : Seq(Nat), failed : {FALSE}] /\ t.rendered = u
    BY <2>1
  <2> QED BY <2>1, <2>2, Zenon DEF InOrder, t, new, F, old, c, n
<1> HIDE DEF old, new, F, t, e, k, n, b, c
<1>7. CASE i \in F
  <2>1. i \in 1..Len(s) + 1 /\ Len(s) \in Nat /\ c = b + 1
    BY <1>1, <1>2, <1>4, <1>5, <1>7
  <2> DEFINE u == InsertAt(s, i, e)
  <2>2. t = [rendered |-> u, failed |-> FALSE]
    <3>1. old[i] = {} /\ ~(Len(s) < i - 1)
      BY <1>1, <1>7, <2>1
    <3> QED BY <1>4, <3>1 DEF t, Placed, InsertFails, Inserted, e
  <2>3. /\ u \in Seq(Nat) /\ Len(u) = Len(s) + 1
        /\ \A q \in 1..Len(s) + 1 :
             u[q] = IF q < i THEN s[q] ELSE IF q = i THEN e ELSE s[q - 1]
    <3>1. e \in Nat /\ i \in 1..Len(s) + 1 /\ s \in Seq(Nat)
      BY <1>2, <2>1
    <3>2. IsInserted(u, s, i, e)
      BY <3>1, InsertIs
    <3> QED BY <3>2 DEF IsInserted
  <2> HIDE DEF u
  <2>4. ASSUME NEW q \in 1..Len(u)
        PROVE  u[q] = IF q <= i THEN new[q].object ELSE list[q - c].object
    <3>1. CASE q < i
      <4>1. q \in 1..Len(s) /\ q \in 1..Len(s) + 1 /\ q <= i - 1 /\ q <= i
        BY <2>1, <2>3, <3>1
      <4> QED BY <1>4, <2>3, <3>1, <4>1
    <3>2. CASE q = i
      <4>1. q \in 1..Len(s) + 1 /\ ~(q < i) /\ q <= i
        BY <2>1, <3>2
      <4> QED BY <2>3, <3>2, <4>1 DEF e
    <3>3. CASE q > i
      <4>1. /\ q - 1 \in 1..Len(s) /\ q \in 1..Len(s) + 1 /\ ~(q < i) /\ q # i
            /\ ~(q - 1 <= i - 1) /\ ~(q <= i) /\ (q - 1) - b = q - c
        BY <1>5, <2>1, <2>3, <3>3
      <4>2. u[q] = s[q - 1] /\ s[q - 1] = list[(q - 1) - b].object
        BY <1>4, <2>3, <4>1
      <4> QED BY <4>1, <4>2
    <3> QED BY <2>1, <3>1, <3>2, <3>3
  <2>5. Len(u) = n + c
    BY <1>2, <1>4, <1>5, <2>1, <2>3
  <2> QED BY <2>2, <2>3, <2>4, <2>5
<1>8. CASE i \notin F
  <2>1. c = b /\ i - b \in 1..n /\ old[i] = {i - b} /\ e = list[i - b].object
    BY <1>1, <1>3, <1>5, <1>8
  <2>2. i \in 1..Len(s) /\ s[i] = e
    <3>1. i \in 1..Len(s) /\ ~(i <= i - 1)
      BY <1>2, <1>4, <1>5, <2>1
    <3> QED BY <1>4, <2>1, <3>1
  <2>3. ASSUME NEW q \in 1..Len(s), s[q] = s[i]
        PROVE  q = i
    <3>1. CASE q <= i - 1
      <4>1. s[q] = new[q].object /\ q \in 1..k
        BY <1>1, <1>4, <3>1
      <4> QED BY <1>1, <1>2, <2>2, <2>3, <4>1 DEF e
    <3>2. CASE ~(q <= i - 1)
      <4>1. q - b \in 1..n /\ s[q] = list[q - b].object
        BY <1>2, <1>4, <1>5, <3>2
      <4>2. q - b = i - b
        BY <1>2, <2>1, <2>2, <2>3, <4>1
      <4> QED BY <1>5, <4>2
    <3> QED BY <3>1, <3>2
  <2>4. t = r
    <3>1. CASE old[i] = {i}
      BY <2>1, <3>1 DEF t, Placed
    <3>2. CASE old[i] # {i}
      <4>1. Moved(s, e, i) = s
        BY <1>2, <1>4, <2>2, <2>3, MoveStays
      <4>2. old[i] # {} /\ ~(i - 1 > Len(s))
        BY <1>4, <2>1, <2>2
      <4>3. t = [rendered |-> Moved(s, e, i), failed |-> FALSE]
        BY <1>4, <3>2, <4>2 DEF t, Placed, MoveFails, e
      <4> QED BY <1>4, <4>1, <4>3
    <3> QED BY <3>1, <3>2
  <2>5. \A q \in 1..Len(s) : s[q] = IF q <= i THEN new[q].object ELSE list[q - c].object
    <3>1. ASSUME NEW q \in 1..Len(s)
          PROVE  s[q] = IF q <= i THEN new[q].object ELSE list[q - c].object
      <4>1. q <= i - 1 \/ q = i \/ ~(q <= i)
        OBVIOUS
      <4>2. CASE q <= i - 1
        <5>1. q <= i
          BY <4>2
        <5> QED BY <1>4, <4>2, <5>1
      <4>3. CASE q = i
        BY <2>2, <4>3 DEF e
      <4>4. CASE ~(q <= i)
        <5>1. ~(q <= i - 1)
          BY <4>4
        <5> QED BY <1>4, <2>1, <4>4, <5>1
      <4> QED BY <4>1, <4>2, <4>3, <4>4
    <3> QED BY <3>1
  <2> QED BY <1>4, <2>1, <2>4, <2>5
<1> QED BY <1>7, <1>8

LEMMA UpdateKeepsOrder ==
  ASSUME IInv, RenderedInv, AdditionsKeepOrder, NEW ws \in WidgetLists,
         UpdateChildren(ws)
  PROVE  AdditionsKeepOrder'
<1> DEFINE old == Matches(ws)
           new == Updated(ws, old)
           F == Fresh(old)
           k == Len(ws)
           n == Len(list)
<1>1. /\ new \in Seq(Records) /\ Len(new) = k /\ F \in SUBSET (1..k) /\ k \in Nat
      /\ n \in Nat /\ DOMAIN list = 1..n
  BY UpdatedFacts, WidgetListsType, LenProperties DEF IInv, TypeInv
<1>2. SUFFICES ASSUME grown'
               PROVE  rendered' = Objects'
  BY DEF AdditionsKeepOrder
<1>3. /\ grown /\ Gone(old) = {}
      /\ \A i, j \in DOMAIN ws \ F : i < j => \A p \in old[i], q \in old[j] : p < q
  <2>1. grown' = (grown /\ Gone(old) = {}
                  /\ \A i, j \in DOMAIN ws \ F : i < j =>
                       \A p \in old[i], q \in old[j] : p < q)
    BY DEF UpdateChildren
  <2> QED BY <1>2, <2>1, Zenon
<1>4. /\ rendered \in Seq(Nat) /\ Len(rendered) = n
      /\ \A q \in 1..n : rendered[q] = list[q].object
  <2>1. rendered \in Seq(Nat) /\ rendered = [q \in 1..n |-> list[q].object]
    BY <1>1, <1>3 DEF AdditionsKeepOrder, Objects, RenderedInv
  <2>2. DOMAIN rendered = 1..Len(rendered) /\ DOMAIN rendered = 1..n /\ Len(rendered) \in Nat
    BY <2>1, LenProperties
  <2>3. Len(rendered) = n
    <3>1. \A a, b \in Nat : 1..a = 1..b => a = b
      <4>1. SUFFICES ASSUME NEW a \in Nat, NEW b \in Nat, 1..a = 1..b PROVE a = b
        OBVIOUS
      <4>2. (a \in 1..a <=> a \in 1..b) /\ (b \in 1..a <=> b \in 1..b)
        BY <4>1
      <4> QED BY <4>2
    <3> QED BY <1>1, <2>2, <3>1
  <2> QED BY <2>1, <2>3
<1>5. /\ Before(F, 0 + 1) = 0 /\ Before(F, k + 1) = Cardinality(F)
      /\ k - Cardinality(F) = n /\ Cardinality(F) \in Nat
  <2>1. 0 + 1 = 1
    OBVIOUS
  <2>2. k - Cardinality(F) = n
    BY <1>3, KeptPlaces
  <2> HIDE DEF F, k
  <2> QED BY <1>1, <2>1, <2>2, BeforeStep, BeforeFacts
<1>6. PICK g : /\ PlacedAll(new, old) = g[k]
               /\ g[0] = [rendered |-> rendered, failed |-> FALSE]
               /\ \A i \in 1..k : g[i] = Placed(g[i - 1], new[i], old[i], i)
  <2>1. Len(new) = k /\ Len(new) \in Nat
    BY <1>1
  <2> HIDE DEF new, old, k
  <2>2. \E g : /\ PlacedAll(new, old) = g[Len(new)]
               /\ g[0] = [rendered |-> rendered, failed |-> FALSE]
               /\ \A i \in 1..Len(new) : g[i] = Placed(g[i - 1], new[i], old[i], i)
    BY <2>1, PlacedAllFacts, Zenon
  <2> QED BY <2>1, <2>2, Zenon
<1>7. InOrder(g[0], new, F, 0)
  <2> HIDE DEF new, F, n
  <2>1. ASSUME NEW r, r = [rendered |-> rendered, failed |-> FALSE]
        PROVE  InOrder(r, new, F, 0)
    <3>1. r \in [rendered : Seq(Nat), failed : {FALSE}] /\ r.rendered = rendered
      BY <1>4, <2>1
    <3>2. Len(rendered) = Len(list) + Before(F, 0 + 1)
      BY <1>1, <1>4, <1>5 DEF n
    <3>3. ASSUME NEW q \in 1..Len(rendered)
          PROVE  rendered[q] = IF q <= 0 THEN new[q].object
                               ELSE list[q - Before(F, 0 + 1)].object
      <4>1. ~(q <= 0) /\ q - Before(F, 0 + 1) = q
        BY <1>5
      <4> QED BY <1>4, <4>1
    <3> QED BY <3>1, <3>2, <3>3, Zenon DEF InOrder
  <2> QED BY <1>6, <2>1
<1>8. InOrder(g[k], new, F, k)
  <2> DEFINE T == {i \in 0..k : ~InOrder(g[i], new, F, i)}
  <2>1. SUFFICES ASSUME T # {} PROVE FALSE
    BY <1>1
  <2>2. PICK i \in T : \A h \in T : i <= h
    <3>1. T \in SUBSET Nat
      BY <1>1
    <3> HIDE DEF T
    <3> QED BY <2>1, <3>1, LeastElement
  <2> HIDE DEF new, F, k, old
  <2>3. i \in 1..k /\ i - 1 \in 0..k /\ i - 1 \notin T
    BY <1>1, <1>7, <2>2
  <2>4. InOrder(g[i - 1], new, F, i - 1)
    BY <2>3
  <2>5. InOrder(Placed(g[i - 1], new[i], old[i], i), new, F, i)
    BY <1>3, <2>3, <2>4, PlacedInOrder DEF new, F, old, k
  <2> QED BY <1>6, <2>2, <2>3, <2>5
<1>9. list' = new /\ rendered' = g[k].rendered
  <2>1. list' = new /\ rendered' = PlacedAll(new, old).rendered
    BY DEF UpdateChildren
  <2> HIDE DEF new, old, F, k
  <2> QED BY <1>6, <2>1
<1> HIDE DEF new, old, F, k, n
<1>10. /\ rendered' \in Seq(Nat) /\ Len(rendered') = k
       /\ \A q \in 1..k : rendered'[q] = new[q].object
  <2>1. /\ rendered' \in Seq(Nat) /\ Len(rendered') = n + Before(F, k + 1)
        /\ \A q \in 1..Len(rendered') : q <= k => rendered'[q] = new[q].object
    BY <1>8, <1>9 DEF InOrder, n
  <2>2. Len(rendered') = k
    BY <1>1, <1>5, <2>1
  <2>3. \A q \in 1..k : q <= k
    BY <1>1
  <2> QED BY <2>1, <2>2, <2>3
<1>11. DOMAIN rendered' = 1..k /\ DOMAIN new = 1..k
  BY <1>1, <1>10, LenProperties
<1>12. rendered' = [q \in 1..k |-> new[q].object]
  <2>1. rendered' = [q \in 1..k |-> rendered'[q]]
    BY <1>10, <1>11, LenProperties
  <2> QED BY <1>10, <2>1
<1> QED BY <1>9, <1>11, <1>12 DEF Objects

\* As long as children are only added, the render objects are in the order of
\* the elements after every update, of however long a list.
THEOREM AdditionsInOrder == Spec => []AdditionsKeepOrder
<1>1. Init => AdditionsKeepOrder
  <2> SUFFICES ASSUME Init PROVE rendered = Objects
    BY DEF AdditionsKeepOrder
  <2>1. PICK ws \in WidgetLists : list = [i \in DOMAIN ws |-> Child(ws[i], i)]
    BY DEF Init
  <2>2. \A i \in DOMAIN list : list[i].object = i
    BY <2>1 DEF Child
  <2> QED BY <2>2 DEF Init, Objects
<1>2. IInv /\ RenderedInv /\ AdditionsKeepOrder /\ [Next]_vars => AdditionsKeepOrder'
  <2>1. ASSUME NEW i \in DOMAIN list, RebuildChild(i)
        PROVE  AdditionsKeepOrder'
    BY <2>1 DEF RebuildChild, AdditionsKeepOrder
  <2>2. ASSUME AdditionsKeepOrder, UNCHANGED vars
        PROVE  AdditionsKeepOrder'
    BY <2>2 DEF vars, AdditionsKeepOrder, Objects
  <2> QED BY <2>1, <2>2, UpdateKeepsOrder DEF Next
<1> QED BY <1>1, <1>2, Inductive, RendersInductive, PTL DEF Spec
=============================================================================

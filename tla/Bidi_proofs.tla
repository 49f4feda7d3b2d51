---------------------------- MODULE Bidi_proofs ----------------------------
(***************************************************************************)
(* Proofs about bidirectional text, for every text and every depth.  First *)
(* the pass that assigns explicit levels: the stack and its counters, and  *)
(* the pairs of isolate initiators and PDIs.  Then the visual order: what  *)
(* Runs, ReorderRuns and Order make of the levels of a paragraph and of    *)
(* any line of it.                                                         *)
(***************************************************************************)
EXTENDS BidiRules, BidiRuns_proofs, FiniteSetTheorems, SequenceTheorems, WellFoundedInduction, TLAPS

Entry == [index : Nat, level : Int, override : Override, isolate : BOOLEAN]

Stack == directionalStatusStack

\* The types of what the other parts speak of.
BaseInv ==
    /\ pos \in Nat \ {0}
    /\ Stack \in Seq(Entry)
    /\ overflowIsolateCount \in Nat /\ overflowEmbeddingCount \in Nat

\* The n-th entry has at least level n - 1, which bounds the stack.
LevelInv ==
    /\ Len(Stack) >= 1
    /\ ~Stack[1].isolate
    /\ \A k \in 1..Len(Stack) : k - 1 <= Stack[k].level /\ Stack[k].level <= MaxDepth
    /\ \A k \in 2..Len(Stack) : Stack[k - 1].level < Stack[k].level

CountInv == validIsolateCount = Cardinality(Isolates)

\* Entries were pushed in the order of the text.
IndexInv ==
    /\ \A k \in 1..Len(Stack) : Stack[k].index < pos
    /\ \A k, n \in 1..Len(Stack) : k < n => Stack[k].index < Stack[n].index

\* An initiator that is matched is not on the stack, nor is anything that was
\* pushed inside its isolate.
PairInv ==
    /\ \A i \in DOMAIN isolatePDIs : i \in Nat /\ isolatePDIs[i] \in Nat /\ isolatePDIs[i] < pos
    /\ \A i \in DOMAIN isolatePDIs, k \in 1..Len(Stack) :
          Stack[k].index < i \/ isolatePDIs[i] < Stack[k].index

IInv == BaseInv /\ LevelInv /\ CountInv /\ IndexInv /\ OverflowMeansFull /\ PairInv /\ WellNested

(***************************************************************************)
(* Facts about operators.                                                  *)
(***************************************************************************)

\* The level of an initiator is one or two above the current one.
LEMMA NextLevelFacts ==
  ASSUME NEW lvl \in Int, NEW odd
  PROVE  NextLevel(lvl, odd) \in {lvl + 1, lvl + 2}
  BY DEF NextLevel

\* A nonempty set of positions of a sequence has a greatest element.
LEMMA HasLast ==
  ASSUME NEW n \in Nat, NEW S \in SUBSET (1..n), S # {}
  PROVE  \E k \in S : \A j \in S : j <= k
<1> DEFINE T == {m \in Nat : m <= n /\ n - m \in S}
<1>1. T \subseteq Nat /\ T # {}
  <2>1. PICK k \in S : TRUE
    OBVIOUS
  <2>2. n - k \in T
    BY <2>1
  <2> QED BY <2>2
<1>2. PICK x \in T : \A y \in T : ~(<<y, x>> \in OpToRel(<, Nat))
  <2> HIDE DEF T
  <2> QED BY <1>1, WFMin, NatLessThanWellFounded, Zenon
<1>3. \A y \in T : ~(y < x)
  BY <1>1, <1>2 DEF OpToRel
<1>4. \A j \in S : n - j \in T
  OBVIOUS
<1> QED BY <1>3, <1>4

\* Where the pops of a PDI end.
LEMMA LastIsolateFacts ==
  ASSUME NEW stack \in Seq(Entry), \E k \in 1..Len(stack) : stack[k].isolate
  PROVE  /\ LastIsolate(stack) \in 1..Len(stack)
         /\ stack[LastIsolate(stack)].isolate
         /\ \A n \in 1..Len(stack) : stack[n].isolate => n <= LastIsolate(stack)
<1> DEFINE S == {k \in 1..Len(stack) : stack[k].isolate}
<1>1. Len(stack) \in Nat
  BY LenProperties
<1>2. \E k \in S : \A j \in S : j <= k
  <2>1. S \in SUBSET (1..Len(stack)) /\ S # {}
    OBVIOUS
  <2> HIDE DEF S
  <2> QED BY <1>1, <2>1, HasLast
<1>3. \E k \in 1..Len(stack) :
        /\ stack[k].isolate
        /\ \A n \in 1..Len(stack) : stack[n].isolate => n <= k
  BY <1>2
<1> QED BY <1>3 DEF LastIsolate

\* The isolates on the stack are finitely many.
LEMMA IsolatesFinite == BaseInv => IsFiniteSet(Isolates)
<1> SUFFICES ASSUME BaseInv PROVE IsFiniteSet(Isolates)
  OBVIOUS
<1>1. Len(Stack) \in Nat
  BY LenProperties DEF BaseInv
<1>2. IsFiniteSet(1..Len(Stack))
  BY <1>1, FS_Interval
<1>3. Isolates \in SUBSET (1..Len(Stack))
  BY DEF Isolates, Stack
<1> QED BY <1>2, <1>3, FS_Subset

(***************************************************************************)
(* What an action does to the stack: nothing, a push, or pops.             *)
(***************************************************************************)

\* A push at the position of the current rune, above the current level.
LEMMA PushInv ==
  ASSUME IInv, pos' = pos + 1, NEW lvl \in Int, NEW o \in Override, NEW isolate \in BOOLEAN,
         Peek(Stack).level < lvl, lvl <= MaxDepth,
         Stack' = Append(Stack, Status(pos, lvl, o, isolate)),
         UNCHANGED isolatePDIs
  PROVE  /\ Stack' \in Seq(Entry)
         /\ LevelInv' /\ IndexInv' /\ PairInv'
         /\ Isolates' = IF isolate THEN Isolates \cup {Len(Stack) + 1} ELSE Isolates
<1> DEFINE e == Status(pos, lvl, o, isolate)
<1>1. e \in Entry
  BY DEF IInv, BaseInv, Status, Entry
<1>2. /\ Stack \in Seq(Entry) /\ Len(Stack) \in Nat
      /\ \A k \in 1..Len(Stack) : Stack[k] \in Entry
  BY LenProperties, ElementOfSeq DEF IInv, BaseInv
<1>3. /\ Stack' \in Seq(Entry) /\ Len(Stack') = Len(Stack) + 1
      /\ \A k \in 1..Len(Stack) : Stack'[k] = Stack[k]
      /\ Stack'[Len(Stack) + 1] = e
  <2> HIDE DEF e
  <2>1. Stack' = Append(Stack, e)
    BY DEF e
  <2> QED BY <1>1, <1>2, <2>1, AppendProperties
<1>4. e.index = pos /\ e.level = lvl /\ e.isolate = isolate
  BY DEF Status
<1>5. \A k \in 1..Len(Stack) : Stack[k].level \in Int /\ Stack[k].index \in Nat
  BY <1>2 DEF Entry
<1>6. Len(Stack) >= 1 /\ Len(Stack) - 1 < lvl
  BY <1>2, <1>5 DEF IInv, LevelInv, Peek, Stack
<1> HIDE DEF e
<1>7. LevelInv'
  <2>1. \A k \in 1..Len(Stack') : k - 1 <= Stack'[k].level /\ Stack'[k].level <= MaxDepth
    BY <1>2, <1>3, <1>4, <1>5, <1>6 DEF IInv, LevelInv
  <2>2. \A k \in 2..Len(Stack') : Stack'[k - 1].level < Stack'[k].level
    <3> TAKE k \in 2..Len(Stack')
    <3>1. CASE k = Len(Stack) + 1
      BY <1>2, <1>3, <1>4, <1>6, <3>1 DEF Peek, Stack
    <3>2. CASE k \in 2..Len(Stack)
      BY <1>2, <1>3, <1>5, <3>2 DEF IInv, LevelInv
    <3> QED BY <1>2, <1>3, <3>1, <3>2
  <2> QED BY <1>2, <1>3, <1>6, <2>1, <2>2 DEF IInv, LevelInv
<1>8. IndexInv'
  <2>1. \A k \in 1..Len(Stack) : Stack[k].index < pos
    BY DEF IInv, IndexInv
  <2>2. pos \in Nat /\ \A k, n \in 1..Len(Stack) : k < n => Stack[k].index < Stack[n].index
    BY DEF IInv, BaseInv, IndexInv
  <2>3. ASSUME NEW k \in 1..Len(Stack') PROVE Stack'[k].index < pos'
    <3>1. CASE k = Len(Stack) + 1
      BY <1>3, <1>4, <2>2, <3>1
    <3>2. CASE k \in 1..Len(Stack)
      BY <1>3, <1>5, <2>1, <2>2, <3>2
    <3> QED BY <1>2, <1>3, <3>1, <3>2
  <2>4. ASSUME NEW k \in 1..Len(Stack'), NEW n \in 1..Len(Stack'), k < n
        PROVE  Stack'[k].index < Stack'[n].index
    <3>1. k \in 1..Len(Stack)
      BY <1>2, <1>3, <2>4
    <3>2. CASE n = Len(Stack) + 1
      BY <1>3, <1>4, <2>1, <3>1, <3>2
    <3>3. CASE n \in 1..Len(Stack)
      BY <1>3, <2>2, <2>4, <3>1, <3>3
    <3> QED BY <1>2, <1>3, <3>2, <3>3
  <2> QED BY <2>3, <2>4 DEF IndexInv
<1>9. PairInv'
  BY <1>2, <1>3, <1>4, <1>5 DEF IInv, BaseInv, PairInv
<1>10. Isolates' = IF isolate THEN Isolates \cup {Len(Stack) + 1} ELSE Isolates
  BY <1>2, <1>3, <1>4 DEF Isolates, Stack
<1> QED BY <1>3, <1>7, <1>8, <1>9, <1>10

\* Pops that leave the first m entries.
LEMMA PopsInv ==
  ASSUME IInv, pos' = pos + 1, NEW m \in 1..Len(Stack),
         Stack' = SubSeq(Stack, 1, m)
  PROVE  /\ Stack' \in Seq(Entry) /\ Len(Stack') = m
         /\ \A k \in 1..m : Stack'[k] = Stack[k]
         /\ LevelInv' /\ IndexInv'
         /\ Isolates' = {k \in Isolates : k <= m}
<1>1. /\ Stack \in Seq(Entry) /\ Len(Stack) \in Nat
      /\ \A k \in 1..Len(Stack) : Stack[k] \in Entry
  BY LenProperties, ElementOfSeq DEF IInv, BaseInv
<1>2. Stack' \in Seq(Entry) /\ Len(Stack') = m /\ \A k \in 1..m : Stack'[k] = Stack[k]
  <2>1. m \in Int /\ 1 <= m /\ \A k \in 1..m : Stack[k] \in Entry
    BY <1>1
  <2>2. /\ SubSeq(Stack, 1, m) \in Seq(Entry)
        /\ Len(SubSeq(Stack, 1, m)) = m
        /\ \A k \in 1..m : SubSeq(Stack, 1, m)[k] = Stack[k]
    <3> DEFINE t == SubSeq(Stack, 1, m)
    <3>1. /\ t \in Seq(Entry)
          /\ Len(t) = IF 1 <= m THEN m - 1 + 1 ELSE 0
          /\ \A k \in 1..(m - 1 + 1) : t[k] = Stack[1 + k - 1]
      BY <2>1, SubSeqProperties
    <3> HIDE DEF t
    <3>2. Len(t) = m /\ \A k \in 1..m : t[k] = Stack[k]
      BY <2>1, <3>1
    <3> QED BY <3>1, <3>2 DEF t
  <2> QED BY <2>2
<1>3. LevelInv'
  BY <1>1, <1>2 DEF IInv, LevelInv
<1>4. IndexInv'
  <2>1. \A k \in 1..m : Stack[k].index \in Nat
    BY <1>1 DEF Entry
  <2> QED BY <1>1, <1>2, <2>1 DEF IInv, BaseInv, IndexInv
<1>5. Isolates' = {k \in Isolates : k <= m}
  BY <1>1, <1>2 DEF Isolates, Stack
<1> QED BY <1>2, <1>3, <1>4, <1>5

\* Steps that leave the stack and the pairs alone.
LEMMA SameInv ==
  ASSUME IInv, pos' = pos + 1, UNCHANGED <<directionalStatusStack, isolatePDIs>>
  PROVE  Stack' \in Seq(Entry) /\ LevelInv' /\ IndexInv' /\ PairInv' /\ Isolates' = Isolates
<1>1. Stack' = Stack /\ Stack \in Seq(Entry) /\ Len(Stack) \in Nat
  BY LenProperties DEF Stack, IInv, BaseInv
<1>2. \A k \in 1..Len(Stack) : Stack[k].index \in Nat
  <2>1. \A k \in 1..Len(Stack) : Stack[k] \in Entry
    BY <1>1, ElementOfSeq
  <2> QED BY <2>1 DEF Entry
<1>3. IndexInv'
  BY <1>1, <1>2 DEF IInv, BaseInv, IndexInv
<1>4. PairInv'
  BY <1>1 DEF IInv, BaseInv, PairInv
<1> QED BY <1>1, <1>3, <1>4 DEF IInv, LevelInv, Isolates

(***************************************************************************)
(* The invariant.                                                          *)
(***************************************************************************)

\* The stack starts with one entry for the paragraph.
LEMMA InitInv == Init => IInv
<1> SUFFICES ASSUME Init PROVE IInv
  OBVIOUS
<1> DEFINE e == Status(0, paragraphEmbeddingLevel, "neutral", FALSE)
<1>1. e \in Entry /\ e.index = 0 /\ e.level \in {0, 1} /\ ~e.isolate
  BY DEF Init, Status, Entry, Override
<1>2. Stack = <<e>>
  BY DEF Init, Stack
<1> HIDE DEF e
<1>3. Stack \in Seq(Entry) /\ Len(Stack) = 1 /\ Stack[1] = e
  BY <1>1, <1>2
<1>4. Isolates = {}
  BY <1>1, <1>3 DEF Isolates, Stack
<1>5. BaseInv
  BY <1>3 DEF Init, BaseInv
<1>6. LevelInv
  BY <1>1, <1>3, DepthAssumption DEF LevelInv
<1>7. CountInv
  BY <1>4, FS_EmptySet DEF Init, CountInv
<1>8. IndexInv
  BY <1>1, <1>3 DEF Init, IndexInv
<1>9. PairInv /\ WellNested
  BY DEF Init, PairInv, WellNested
<1>10. OverflowMeansFull
  BY DEF Init, OverflowMeansFull, NoOverflow
<1> QED BY <1>5, <1>6, <1>7, <1>8, <1>9, <1>10 DEF IInv

\* The current level.
LEMMA TopFacts ==
  ASSUME IInv
  PROVE  /\ Len(Stack) \in Nat \ {0}
         /\ Peek(Stack) = Stack[Len(Stack)]
         /\ Stack[Len(Stack)] \in Entry
         /\ Stack[Len(Stack)].level \in Int /\ Stack[Len(Stack)].level <= MaxDepth
<1>1. Len(Stack) \in Nat \ {0}
  BY LenProperties DEF IInv, BaseInv, LevelInv
<1>2. Stack[Len(Stack)] \in Entry
  BY <1>1, ElementOfSeq DEF IInv, BaseInv
<1>3. Stack[Len(Stack)].level <= MaxDepth
  BY <1>1 DEF IInv, LevelInv
<1> QED BY <1>1, <1>2, <1>3 DEF Peek, Entry

\* An initiator that does not fit finds the stack within one level of full.
LEMMA FullWhenUnfit ==
  ASSUME IInv, NEW odd, ~(NextLevel(Peek(Stack).level, odd) <= MaxDepth /\ NoOverflow)
  PROVE  Peek(Stack).level >= MaxDepth - 1
<1>1. Peek(Stack).level \in Int
  BY TopFacts
<1>2. NextLevel(Peek(Stack).level, odd) \in {Peek(Stack).level + 1, Peek(Stack).level + 2}
  BY <1>1, NextLevelFacts
<1>3. CASE NoOverflow
  BY <1>1, <1>2, <1>3, DepthAssumption
<1>4. CASE ~NoOverflow
  BY <1>4 DEF IInv, OverflowMeansFull, Stack
<1> QED BY <1>3, <1>4

LEMMA PushEmbeddingInv == IInv /\ PushEmbedding => IInv'
<1> SUFFICES ASSUME IInv, PushEmbedding PROVE IInv'
  OBVIOUS
<1> DEFINE c   == runeClasses[pos]
           lvl == NextLevel(Peek(Stack).level, RightToLeft(c))
           o   == IF c = "RLO" THEN "R" ELSE IF c = "LRO" THEN "L" ELSE "neutral"
<1>1. pos' = pos + 1 /\ pos \in Nat \ {0} /\ o \in Override
  BY DEF PushEmbedding, Current, IInv, BaseInv, Override
<1>2. /\ UNCHANGED <<overflowIsolateCount, validIsolateCount, isolatePDIs>>
      /\ overflowIsolateCount \in Nat /\ overflowEmbeddingCount \in Nat
  BY DEF PushEmbedding, IInv, BaseInv
<1>3. Peek(Stack).level \in Int /\ lvl \in {Peek(Stack).level + 1, Peek(Stack).level + 2}
  BY TopFacts, NextLevelFacts
<1>4. CASE /\ lvl <= MaxDepth /\ NoOverflow
           /\ Stack' = Append(Stack, Status(pos, lvl, o, FALSE))
           /\ UNCHANGED overflowEmbeddingCount
  <2> HIDE DEF lvl, o
  <2>1. lvl \in Int /\ Peek(Stack).level < lvl
    BY <1>3
  <2>2. Stack' \in Seq(Entry) /\ LevelInv' /\ IndexInv' /\ PairInv' /\ Isolates' = Isolates
    BY <1>1, <1>2, <1>4, <2>1, PushInv
  <2>3. BaseInv'
    <3>1. overflowIsolateCount' \in Nat /\ overflowEmbeddingCount' \in Nat /\ pos' \in Nat \ {0}
      BY <1>1, <1>2, <1>4
    <3> QED BY <2>2, <3>1 DEF BaseInv
  <2>4. OverflowMeansFull'
    BY <1>2, <1>4 DEF OverflowMeansFull, NoOverflow
  <2>5. CountInv' /\ WellNested'
    BY <1>2, <2>2 DEF IInv, CountInv, WellNested
  <2> QED BY <2>2, <2>3, <2>4, <2>5 DEF IInv
<1>5. CASE /\ ~(lvl <= MaxDepth /\ NoOverflow)
           /\ overflowEmbeddingCount' \in Nat
           /\ UNCHANGED directionalStatusStack
  <2>1. Stack' \in Seq(Entry) /\ LevelInv' /\ IndexInv' /\ PairInv' /\ Isolates' = Isolates
    BY <1>1, <1>2, <1>5, SameInv
  <2>2. BaseInv'
    BY <1>1, <1>2, <1>5, <2>1 DEF BaseInv
  <2>3. OverflowMeansFull'
    BY <1>5, FullWhenUnfit DEF OverflowMeansFull, Stack
  <2>4. CountInv' /\ WellNested'
    BY <1>2, <2>1 DEF IInv, CountInv, WellNested
  <2> QED BY <2>1, <2>2, <2>3, <2>4 DEF IInv
<1>6. \/ /\ lvl <= MaxDepth /\ NoOverflow
         /\ Stack' = Append(Stack, Status(pos, lvl, o, FALSE))
         /\ UNCHANGED overflowEmbeddingCount
      \/ /\ ~(lvl <= MaxDepth /\ NoOverflow)
         /\ overflowEmbeddingCount' = IF overflowIsolateCount = 0 THEN overflowEmbeddingCount + 1
                                                                  ELSE overflowEmbeddingCount
         /\ UNCHANGED directionalStatusStack
  BY Zenon DEF PushEmbedding, Stack
<1>7. CASE /\ ~(lvl <= MaxDepth /\ NoOverflow)
           /\ overflowEmbeddingCount' = IF overflowIsolateCount = 0 THEN overflowEmbeddingCount + 1
                                                                    ELSE overflowEmbeddingCount
           /\ UNCHANGED directionalStatusStack
  <2>1. overflowEmbeddingCount' \in Nat
    BY <1>2, <1>7
  <2> QED BY <1>5, <1>7, <2>1
<1> QED BY <1>4, <1>6, <1>7

LEMMA PushIsolateInv == IInv /\ PushIsolate => IInv'
<1> SUFFICES ASSUME IInv, PushIsolate PROVE IInv'
  OBVIOUS
<1>1. pos' = pos + 1 /\ pos \in Nat \ {0} /\ "neutral" \in Override
  BY DEF PushIsolate, Current, IInv, BaseInv, Override
<1>2. /\ UNCHANGED <<overflowEmbeddingCount, isolatePDIs>>
      /\ overflowIsolateCount \in Nat /\ overflowEmbeddingCount \in Nat
  BY DEF PushIsolate, IInv, BaseInv
<1>3. PICK odd \in BOOLEAN :
        \/ /\ NextLevel(Peek(Stack).level, odd) <= MaxDepth /\ NoOverflow
           /\ validIsolateCount' = validIsolateCount + 1
           /\ Stack' = Append(Stack, Status(pos, NextLevel(Peek(Stack).level, odd), "neutral", TRUE))
           /\ UNCHANGED overflowIsolateCount
        \/ /\ ~(NextLevel(Peek(Stack).level, odd) <= MaxDepth /\ NoOverflow)
           /\ overflowIsolateCount' = overflowIsolateCount + 1
           /\ UNCHANGED <<validIsolateCount, directionalStatusStack>>
  <2> DEFINE cl == IF runeClasses[pos] = "FSI" THEN ResolveFSI(runeClasses, pos) ELSE runeClasses
             r  == RightToLeft(cl[pos])
  <2>1. r \in BOOLEAN
    BY DEF RightToLeft
  <2>2. \/ /\ NextLevel(Peek(Stack).level, r) <= MaxDepth /\ NoOverflow
           /\ validIsolateCount' = validIsolateCount + 1
           /\ Stack' = Append(Stack, Status(pos, NextLevel(Peek(Stack).level, r), "neutral", TRUE))
           /\ UNCHANGED overflowIsolateCount
        \/ /\ ~(NextLevel(Peek(Stack).level, r) <= MaxDepth /\ NoOverflow)
           /\ overflowIsolateCount' = overflowIsolateCount + 1
           /\ UNCHANGED <<validIsolateCount, directionalStatusStack>>
    BY Zenon DEF PushIsolate, Stack
  <2> HIDE DEF r
  <2> QED BY <2>1, <2>2
<1> DEFINE lvl == NextLevel(Peek(Stack).level, odd)
<1>4. Peek(Stack).level \in Int /\ lvl \in {Peek(Stack).level + 1, Peek(Stack).level + 2}
  BY TopFacts, NextLevelFacts
<1>5. CASE /\ lvl <= MaxDepth /\ NoOverflow
           /\ validIsolateCount' = validIsolateCount + 1
           /\ Stack' = Append(Stack, Status(pos, lvl, "neutral", TRUE))
           /\ UNCHANGED overflowIsolateCount
  <2> HIDE DEF lvl
  <2>1. lvl \in Int /\ Peek(Stack).level < lvl
    BY <1>4
  <2>2. /\ Stack' \in Seq(Entry) /\ LevelInv' /\ IndexInv' /\ PairInv'
        /\ Isolates' = Isolates \cup {Len(Stack) + 1}
    BY <1>1, <1>2, <1>5, <2>1, PushInv
  <2>3. BaseInv'
    <3>1. overflowIsolateCount' \in Nat /\ overflowEmbeddingCount' \in Nat /\ pos' \in Nat \ {0}
      BY <1>1, <1>2, <1>5
    <3> QED BY <2>2, <3>1 DEF BaseInv
  <2>4. OverflowMeansFull'
    BY <1>2, <1>5 DEF OverflowMeansFull, NoOverflow
  <2>5. Len(Stack) + 1 \notin Isolates /\ IsFiniteSet(Isolates)
    BY TopFacts, IsolatesFinite DEF IInv, Isolates, Stack
  <2>6. Cardinality(Isolates \cup {Len(Stack) + 1}) = Cardinality(Isolates) + 1
    BY <2>5, FS_AddElement
  <2>7. CountInv' /\ WellNested'
    BY <1>2, <1>5, <2>2, <2>6 DEF IInv, CountInv, WellNested
  <2> QED BY <2>2, <2>3, <2>4, <2>7 DEF IInv
<1>6. CASE /\ ~(lvl <= MaxDepth /\ NoOverflow)
           /\ overflowIsolateCount' = overflowIsolateCount + 1
           /\ UNCHANGED <<validIsolateCount, directionalStatusStack>>
  <2>1. Stack' \in Seq(Entry) /\ LevelInv' /\ IndexInv' /\ PairInv' /\ Isolates' = Isolates
    BY <1>1, <1>2, <1>6, SameInv
  <2>2. BaseInv'
    BY <1>1, <1>2, <1>6, <2>1 DEF BaseInv
  <2>3. OverflowMeansFull'
    BY <1>6, FullWhenUnfit DEF OverflowMeansFull, Stack
  <2>4. CountInv' /\ WellNested'
    BY <1>2, <1>6, <2>1 DEF IInv, CountInv, WellNested
  <2> QED BY <2>1, <2>2, <2>3, <2>4 DEF IInv
<1> QED BY <1>3, <1>5, <1>6

\* A PDI that is not swallowed pops up to and with the last isolate, and is
\* matched with it.
LEMMA CloseIsolateInv ==
  ASSUME IInv, pos' = pos + 1, overflowIsolateCount = 0, validIsolateCount # 0,
         Stack' = MatchedStack(Stack),
         validIsolateCount' = validIsolateCount - 1,
         NEW i, i = Stack[LastIsolate(Stack)].index,
         isolatePDIs' = [k \in DOMAIN isolatePDIs \cup {i} |-> IF k = i THEN pos ELSE isolatePDIs[k]],
         overflowEmbeddingCount' = 0,
         UNCHANGED overflowIsolateCount
  PROVE  IInv'
<1> DEFINE last == LastIsolate(Stack)
<1>1. Isolates # {} /\ IsFiniteSet(Isolates)
  BY IsolatesFinite, FS_EmptySet DEF IInv, CountInv
<1>2. Stack \in Seq(Entry) /\ pos \in Nat \ {0}
  BY DEF IInv, BaseInv
<1>3. /\ last \in 1..Len(Stack) /\ Stack[last].isolate
      /\ \A n \in 1..Len(Stack) : Stack[n].isolate => n <= last
  <2>1. \E k \in 1..Len(Stack) : Stack[k].isolate
    BY <1>1 DEF Isolates, Stack
  <2> QED BY <1>2, <2>1, LastIsolateFacts
<1> HIDE DEF last
<1>4. Len(Stack) \in Nat /\ last # 1
  BY <1>3, TopFacts DEF IInv, LevelInv
<1>5. last - 1 \in 1..Len(Stack) /\ Stack' = SubSeq(Stack, 1, last - 1)
  BY <1>3, <1>4 DEF MatchedStack, last
<1>6. /\ Stack' \in Seq(Entry) /\ Len(Stack') = last - 1
      /\ \A k \in 1..(last - 1) : Stack'[k] = Stack[k]
      /\ LevelInv' /\ IndexInv'
      /\ Isolates' = {k \in Isolates : k <= last - 1}
  BY <1>5, PopsInv
<1>7. Isolates' = Isolates \ {last} /\ last \in Isolates
  BY <1>3, <1>4, <1>6 DEF Isolates, Stack
<1>8. CountInv'
  <2>1. Cardinality(Isolates \ {last}) = Cardinality(Isolates) - 1
    BY <1>1, <1>7, FS_RemoveElement
  <2> QED BY <1>7, <2>1 DEF IInv, CountInv
<1>9. BaseInv'
  <2>1. pos' \in Nat \ {0} /\ overflowIsolateCount' \in Nat /\ overflowEmbeddingCount' \in Nat
    BY <1>2
  <2> QED BY <1>6, <2>1 DEF BaseInv
<1>10. OverflowMeansFull'
  BY DEF OverflowMeansFull, NoOverflow
<1>11. i = Stack[last].index /\ i \in Nat /\ i < pos
  <2>1. Stack[last] \in Entry
    BY <1>2, <1>3, ElementOfSeq
  <2> QED BY <1>3, <2>1 DEF Entry, IInv, IndexInv, last
<1>12. /\ DOMAIN isolatePDIs' = DOMAIN isolatePDIs \cup {i}
       /\ isolatePDIs'[i] = pos
       /\ \A k \in DOMAIN isolatePDIs \ {i} : isolatePDIs'[k] = isolatePDIs[k]
  OBVIOUS
<1>13. \A k \in DOMAIN isolatePDIs :
         /\ k \in Nat /\ isolatePDIs[k] \in Nat /\ isolatePDIs[k] < pos
         /\ i < k \/ isolatePDIs[k] < i
  BY <1>3, <1>11 DEF IInv, PairInv
<1>14. PairInv'
  <2>1. \A k \in DOMAIN isolatePDIs' : k \in Nat /\ isolatePDIs'[k] \in Nat /\ isolatePDIs'[k] < pos'
    BY <1>2, <1>11, <1>12, <1>13
  <2>2. ASSUME NEW k \in DOMAIN isolatePDIs', NEW n \in 1..Len(Stack')
        PROVE  Stack'[n].index < k \/ isolatePDIs'[k] < Stack'[n].index
    <3>1. n \in 1..(last - 1) /\ n \in 1..Len(Stack) /\ n < last /\ Stack'[n] = Stack[n]
      BY <1>3, <1>4, <1>6
    <3>2. CASE k = i
      BY <1>3, <1>11, <3>1, <3>2 DEF IInv, IndexInv
    <3>3. CASE k \in DOMAIN isolatePDIs \ {i}
      BY <1>12, <3>1, <3>3 DEF IInv, PairInv
    <3> QED BY <1>12, <3>2, <3>3
  <2> QED BY <2>1, <2>2 DEF PairInv
<1>15. WellNested'
  <2>1. ASSUME NEW j \in DOMAIN isolatePDIs', NEW k \in DOMAIN isolatePDIs'
        PROVE  /\ j < isolatePDIs'[j]
               /\ j < k => isolatePDIs'[k] < isolatePDIs'[j] \/ isolatePDIs'[j] < k
    <3>1. CASE j = i /\ k = i
      BY <1>2, <1>11, <1>12, <3>1
    <3>2. CASE j = i /\ k \in DOMAIN isolatePDIs \ {i}
      BY <1>11, <1>12, <1>13, <3>2
    <3>3. CASE j \in DOMAIN isolatePDIs \ {i} /\ k = i
      <4>1. j < isolatePDIs[j]
        BY <3>3 DEF IInv, WellNested
      <4> QED BY <1>11, <1>12, <1>13, <3>3, <4>1
    <3>4. CASE j \in DOMAIN isolatePDIs \ {i} /\ k \in DOMAIN isolatePDIs \ {i}
      BY <1>12, <3>4 DEF IInv, WellNested
    <3> QED BY <1>12, <3>1, <3>2, <3>3, <3>4
  <2> QED BY <2>1 DEF WellNested
<1> QED BY <1>6, <1>8, <1>9, <1>10, <1>14, <1>15 DEF IInv

\* A step that changes neither the stack nor the pairs, and no counter up.
LEMMA QuietInv ==
  ASSUME IInv, pos' = pos + 1,
         UNCHANGED <<directionalStatusStack, isolatePDIs, validIsolateCount>>,
         overflowIsolateCount' \in Nat, overflowEmbeddingCount' \in Nat,
         NoOverflow => overflowIsolateCount' = 0 /\ overflowEmbeddingCount' = 0
  PROVE  IInv'
<1>1. Stack' \in Seq(Entry) /\ LevelInv' /\ IndexInv' /\ PairInv' /\ Isolates' = Isolates
  BY SameInv
<1>2. BaseInv'
  <2>1. pos' \in Nat \ {0}
    BY DEF IInv, BaseInv
  <2> QED BY <1>1, <2>1 DEF BaseInv
<1>3. OverflowMeansFull'
  BY DEF IInv, OverflowMeansFull, NoOverflow
<1>4. CountInv' /\ WellNested'
  BY <1>1 DEF IInv, CountInv, WellNested
<1> QED BY <1>1, <1>2, <1>3, <1>4 DEF IInv

LEMMA PopIsolateInv == IInv /\ PopIsolate => IInv'
<1> SUFFICES ASSUME IInv, PopIsolate PROVE IInv'
  OBVIOUS
<1>1. /\ pos' = pos + 1
      /\ overflowIsolateCount \in Nat /\ overflowEmbeddingCount \in Nat
  BY DEF PopIsolate, Current, IInv, BaseInv
<1>2. \/ /\ overflowIsolateCount > 0
         /\ overflowIsolateCount' = overflowIsolateCount - 1
         /\ UNCHANGED <<overflowEmbeddingCount, validIsolateCount, directionalStatusStack, isolatePDIs>>
      \/ UNCHANGED <<overflowIsolateCount, overflowEmbeddingCount, validIsolateCount,
                     directionalStatusStack, isolatePDIs>>
      \/ /\ overflowIsolateCount = 0 /\ validIsolateCount # 0
         /\ overflowEmbeddingCount' = 0
         /\ Stack' = MatchedStack(Stack)
         /\ validIsolateCount' = validIsolateCount - 1
         /\ isolatePDIs' = [k \in DOMAIN isolatePDIs \cup {Stack[LastIsolate(Stack)].index} |->
                               IF k = Stack[LastIsolate(Stack)].index THEN pos ELSE isolatePDIs[k]]
         /\ UNCHANGED overflowIsolateCount
  BY Zenon DEF PopIsolate, counters, Stack
<1>3. CASE /\ overflowIsolateCount > 0
           /\ overflowIsolateCount' = overflowIsolateCount - 1
           /\ UNCHANGED <<overflowEmbeddingCount, validIsolateCount, directionalStatusStack, isolatePDIs>>
  BY <1>1, <1>3, QuietInv DEF NoOverflow
<1>4. CASE UNCHANGED <<overflowIsolateCount, overflowEmbeddingCount, validIsolateCount,
                       directionalStatusStack, isolatePDIs>>
  BY <1>1, <1>4, QuietInv DEF NoOverflow
<1> QED BY <1>1, <1>2, <1>3, <1>4, CloseIsolateInv

LEMMA PopEmbeddingInv == IInv /\ PopEmbedding => IInv'
<1> SUFFICES ASSUME IInv, PopEmbedding PROVE IInv'
  OBVIOUS
<1>1. /\ pos' = pos + 1 /\ pos \in Nat \ {0}
      /\ overflowIsolateCount \in Nat /\ overflowEmbeddingCount \in Nat
      /\ UNCHANGED <<overflowIsolateCount, validIsolateCount, isolatePDIs>>
  BY DEF PopEmbedding, Current, IInv, BaseInv
<1>2. CASE UNCHANGED <<overflowEmbeddingCount, directionalStatusStack>>
  BY <1>1, <1>2, QuietInv DEF NoOverflow
<1>3. CASE /\ overflowEmbeddingCount > 0
           /\ overflowEmbeddingCount' = overflowEmbeddingCount - 1
           /\ UNCHANGED directionalStatusStack
  BY <1>1, <1>3, QuietInv DEF NoOverflow
<1>4. CASE /\ NoOverflow /\ ~Peek(Stack).isolate /\ Len(Stack) >= 2
           /\ Stack' = Front(Stack)
           /\ UNCHANGED overflowEmbeddingCount
  <2>1. Len(Stack) \in Nat /\ Peek(Stack) = Stack[Len(Stack)]
    BY TopFacts
  <2>2. Len(Stack) - 1 \in 1..Len(Stack) /\ Stack' = SubSeq(Stack, 1, Len(Stack) - 1)
    BY <1>4, <2>1 DEF Front
  <2>3. /\ Stack' \in Seq(Entry) /\ Len(Stack') = Len(Stack) - 1
        /\ \A k \in 1..(Len(Stack) - 1) : Stack'[k] = Stack[k]
        /\ LevelInv' /\ IndexInv'
        /\ Isolates' = {k \in Isolates : k <= Len(Stack) - 1}
    BY <1>1, <2>2, PopsInv
  <2>4. Isolates' = Isolates
    BY <1>4, <2>1, <2>3 DEF Isolates, Stack
  <2>5. BaseInv'
    <3>1. pos' \in Nat \ {0} /\ overflowIsolateCount' \in Nat /\ overflowEmbeddingCount' \in Nat
      BY <1>1, <1>4
    <3> QED BY <2>3, <3>1 DEF BaseInv
  <2>6. OverflowMeansFull'
    BY <1>1, <1>4 DEF OverflowMeansFull, NoOverflow
  <2>7. CountInv' /\ WellNested'
    BY <1>1, <2>4 DEF IInv, CountInv, WellNested
  <2>8. PairInv'
    BY <1>1, <2>1, <2>3 DEF IInv, BaseInv, PairInv
  <2> QED BY <2>3, <2>5, <2>6, <2>7, <2>8 DEF IInv
<1>5. \/ UNCHANGED <<overflowEmbeddingCount, directionalStatusStack>>
      \/ /\ overflowEmbeddingCount > 0
         /\ overflowEmbeddingCount' = overflowEmbeddingCount - 1
         /\ UNCHANGED directionalStatusStack
      \/ /\ NoOverflow /\ ~Peek(Stack).isolate /\ Len(Stack) >= 2
         /\ Stack' = Front(Stack)
         /\ UNCHANGED overflowEmbeddingCount
  BY Zenon DEF PopEmbedding, Stack
<1> QED BY <1>2, <1>3, <1>4, <1>5

LEMMA StepInv == IInv /\ [Next]_vars => IInv'
<1> SUFFICES ASSUME IInv, [Next]_vars PROVE IInv'
  OBVIOUS
<1>1. overflowIsolateCount \in Nat /\ overflowEmbeddingCount \in Nat
  BY DEF IInv, BaseInv
<1>2. CASE Skip
  BY <1>1, <1>2, QuietInv DEF Skip, Current, counters, NoOverflow
<1>3. CASE Other
  BY <1>1, <1>3, QuietInv DEF Other, Current, counters, NoOverflow
<1>4. CASE RemoveFormatting
  BY <1>1, <1>4, QuietInv DEF RemoveFormatting, counters, NoOverflow
<1>5. CASE UNCHANGED vars
  BY <1>5 DEF vars, IInv, BaseInv, LevelInv, CountInv, IndexInv, OverflowMeansFull, NoOverflow,
              PairInv, WellNested, Isolates, Stack
<1> QED BY <1>2, <1>3, <1>4, <1>5, PushEmbeddingInv, PushIsolateInv, PopIsolateInv, PopEmbeddingInv
        DEF Next

(***************************************************************************)
(* The theorems.                                                           *)
(***************************************************************************)

\* The inductive invariant holds for every text and every depth.
THEOREM Invariance == Spec => []IInv
  BY InitInv, StepInv, PTL DEF Spec

\* The stack never outgrows its array, never loses the paragraph's entry, and
\* validIsolateCount is the number of isolates on it (bidi.go:369).
THEOREM StackDisciplined == Spec => []StackDiscipline
<1>1. ASSUME IInv PROVE StackDiscipline
  <2>1. Len(Stack) \in Nat \ {0} /\ Len(Stack) - 1 <= MaxDepth
    <3>1. Len(Stack) \in Nat \ {0} /\ Stack[Len(Stack)].level \in Int
      BY <1>1, TopFacts
    <3>2. Len(Stack) - 1 <= Stack[Len(Stack)].level /\ Stack[Len(Stack)].level <= MaxDepth
      BY <1>1, <3>1 DEF IInv, LevelInv
    <3> QED BY <3>1, <3>2, DepthAssumption
  <2>2. Len(Stack) \in 1..(MaxDepth + 1)
    BY <2>1, DepthAssumption
  <2> QED BY <1>1, <2>2 DEF IInv, LevelInv, CountInv, StackDiscipline, Stack
<1> QED BY <1>1, Invariance, PTL

\* An initiator only overflows when the current level is at the limit, so that
\* what the counters swallow never stood a chance (bidi.go:385-575).
THEOREM OverflowOnlyWhenFull == Spec => []OverflowMeansFull
<1>1. IInv => OverflowMeansFull
  BY DEF IInv
<1> QED BY <1>1, Invariance, PTL

\* Matched initiators and PDIs never cross (bidi.go:510-548).
THEOREM PairsAreNested == Spec => []WellNested
<1>1. IInv => WellNested
  BY DEF IInv
<1> QED BY <1>1, Invariance, PTL

(***************************************************************************)
(* The matching of initiators and PDIs agrees with BD9.                    *)
(***************************************************************************)

\* How many isolates the runes of t from a to b open and do not close.
Count(t, S, a, b) == Cardinality({k \in a..b : Class(t[k]) \in S})
Delta(t, a, b)    == Count(t, Initiators, a, b) - Count(t, {"PDI"}, a, b)

\* The initiator at i is still open after the rune at m.
Pending(t, i, m) ==
    i \in 1..m /\ Class(t[i]) \in Initiators /\ \A q \in i..m : Delta(t, i, q) > 0

\* The rune at i was given the level and the override of an entry.
Like(levels, classes, i, e) ==
    /\ levels[i] = e.level
    /\ classes[i] \in {"L", "R"} <=> e.override # "neutral"

\* The isolates on the stack from the k-th entry on.
Above(k) == {n \in Isolates : n >= k}

TextInv ==
    /\ text \in Seq(Runes) /\ paragraphEmbeddingLevel \in {0, 1} /\ pos \in 1..(Len(text) + 2)
    /\ runeClasses \in [1..Len(text) -> Classes]
    /\ embeddingLevels \in [1..Len(text) -> Int]

\* What is not reached yet has its own class, but that FSIs may be resolved;
\* initiators and PDIs that are settled are never removed.
ClassInv ==
    \A q \in 1..Len(text) :
        /\ q >= pos => /\ runeClasses[q] \in Initiators <=> Class(text[q]) \in Initiators
                       /\ Class(text[q]) \notin Initiators => runeClasses[q] = Class(text[q])
        /\ q < pos /\ Class(text[q]) \in Initiators \cup {"PDI"} =>
              runeClasses[q] \in Initiators \cup {"PDI", "L", "R"}

\* The isolates on the stack are open, with those above them and those that
\* overflowed inside, and have the level of the entry below.
OpenInv ==
    pos <= Len(text) + 1 =>
        \A k \in Isolates :
            /\ Pending(text, Stack[k].index, pos - 1)
            /\ Delta(text, Stack[k].index, pos - 1) = Cardinality(Above(k)) + overflowIsolateCount
            /\ Like(embeddingLevels, runeClasses, Stack[k].index, Stack[k - 1])

\* Other initiators that are open overflowed, and have the level of the top.
SwallowedInv ==
    pos <= Len(text) + 1 =>
        \A i \in 1..(pos - 1) :
            Pending(text, i, pos - 1) /\ (\A k \in Isolates : Stack[k].index # i) =>
                /\ Delta(text, i, pos - 1) <= overflowIsolateCount
                /\ Like(embeddingLevels, runeClasses, i, Peek(Stack))

MatchedInv == \A i \in DOMAIN isolatePDIs : Closes(isolatePDIs[i], i)

\* A PDI has the level and the override of the initiator that it closes, and
\* is matched with it unless it is near the limit.
Agree(levels, classes, pairs, i, j) ==
    /\ levels[i] = levels[j]
    /\ classes[j] \in {"L", "R"} <=> classes[i] \in {"L", "R"}
    /\ levels[i] + 2 <= MaxDepth => i \in DOMAIN pairs

ClosedInv ==
    \A i, j \in 1..Len(text) :
        j < pos /\ Closes(j, i) => Agree(embeddingLevels, runeClasses, isolatePDIs, i, j)

BD9Inv == TextInv /\ ClassInv /\ OpenInv /\ SwallowedInv /\ MatchedInv /\ ClosedInv

\* A longer interval has what is at its end besides.
LEMMA CountStep ==
  ASSUME NEW t, NEW S, NEW a \in Int, NEW b \in Int, a <= b + 1
  PROVE  /\ Count(t, S, a, b) \in Nat
         /\ Count(t, S, a, b + 1) =
               IF Class(t[b + 1]) \in S THEN Count(t, S, a, b) + 1 ELSE Count(t, S, a, b)
         /\ Count(t, S, a, a - 1) = 0
<1> DEFINE In(c) == {k \in a..c : Class(t[k]) \in S}
<1>1. IsFiniteSet(In(b)) /\ Cardinality(In(b)) \in Nat
  <2>1. IsFiniteSet(a..b) /\ In(b) \in SUBSET (a..b)
    BY FS_Interval
  <2> HIDE DEF In
  <2> QED BY <2>1, FS_Subset, FS_CardinalityType
<1>2. b + 1 \notin In(b)
  OBVIOUS
<1>3. In(b + 1) = IF Class(t[b + 1]) \in S THEN In(b) \cup {b + 1} ELSE In(b)
  <2>1. a..(b + 1) = (a..b) \cup {b + 1}
    OBVIOUS
  <2>2. CASE Class(t[b + 1]) \in S
    BY <2>1, <2>2
  <2>3. CASE Class(t[b + 1]) \notin S
    BY <2>1, <2>3
  <2> QED BY <2>2, <2>3
<1>4. In(a - 1) = {}
  OBVIOUS
<1>5. /\ Count(t, S, a, b) = Cardinality(In(b))
      /\ Count(t, S, a, b + 1) = Cardinality(In(b + 1))
      /\ Count(t, S, a, a - 1) = Cardinality(In(a - 1))
  BY DEF Count
<1> HIDE DEF In
<1>6. Cardinality(In(b) \cup {b + 1}) = Cardinality(In(b)) + 1
  BY <1>1, <1>2, FS_AddElement
<1> QED BY <1>1, <1>3, <1>4, <1>5, <1>6, FS_EmptySet

\* An initiator adds one to the open isolates, a PDI takes one away.
LEMMA DeltaStep ==
  ASSUME NEW t, NEW a \in Int, NEW b \in Int, a <= b + 1
  PROVE  /\ Delta(t, a, b) \in Int
         /\ Class(t[b + 1]) \in Initiators => Delta(t, a, b + 1) = Delta(t, a, b) + 1
         /\ Class(t[b + 1]) = "PDI" => Delta(t, a, b + 1) = Delta(t, a, b) - 1
         /\ Class(t[b + 1]) \notin Initiators \cup {"PDI"} => Delta(t, a, b + 1) = Delta(t, a, b)
         /\ Delta(t, a, a - 1) = 0
<1> DEFINE c == Class(t[b + 1])
           I(x) == Count(t, Initiators, a, x)
           P(x) == Count(t, {"PDI"}, a, x)
<1>1. /\ I(b) \in Nat /\ P(b) \in Nat /\ I(a - 1) = 0 /\ P(a - 1) = 0
      /\ I(b + 1) = IF c \in Initiators THEN I(b) + 1 ELSE I(b)
      /\ P(b + 1) = IF c \in {"PDI"} THEN P(b) + 1 ELSE P(b)
  BY CountStep
<1>2. "PDI" \notin Initiators
  BY DEF Initiators
<1>3. /\ Delta(t, a, b) = I(b) - P(b)
      /\ Delta(t, a, b + 1) = I(b + 1) - P(b + 1)
      /\ Delta(t, a, a - 1) = I(a - 1) - P(a - 1)
  BY DEF Delta
<1> HIDE DEF I, P, c
<1>4. /\ Delta(t, a, b) \in Int
      /\ c \in Initiators => Delta(t, a, b + 1) = Delta(t, a, b) + 1
      /\ c = "PDI" => Delta(t, a, b + 1) = Delta(t, a, b) - 1
      /\ c \notin Initiators \cup {"PDI"} => Delta(t, a, b + 1) = Delta(t, a, b)
      /\ Delta(t, a, a - 1) = 0
  BY <1>1, <1>2, <1>3
<1> QED BY <1>4 DEF c

\* A pending initiator stays so unless the last isolate is closed.
LEMMA PendingStep ==
  ASSUME NEW t, NEW m \in Nat, NEW i
  PROVE  /\ Pending(t, i, m + 1) <=>
               \/ Pending(t, i, m) /\ Delta(t, i, m + 1) > 0
               \/ i = m + 1 /\ Class(t[i]) \in Initiators
         /\ Class(t[m + 1]) \in Initiators => Delta(t, m + 1, m + 1) = 1
<1>1. Class(t[m + 1]) \in Initiators => Delta(t, m + 1, m + 1) = 1
  <2>1. m + 1 \in Int /\ m \in Int /\ m + 1 <= m + 1 /\ (m + 1) - 1 = m
    OBVIOUS
  <2>2. Class(t[m + 1]) \in Initiators => Delta(t, m + 1, m + 1) = Delta(t, m + 1, m) + 1
    BY <2>1, DeltaStep
  <2>3. Delta(t, m + 1, (m + 1) - 1) = 0
    BY <2>1, DeltaStep
  <2> QED BY <2>1, <2>2, <2>3
<1>2. ASSUME Pending(t, i, m + 1)
      PROVE  \/ Pending(t, i, m) /\ Delta(t, i, m + 1) > 0
             \/ i = m + 1 /\ Class(t[i]) \in Initiators
  <2>1. i \in 1..(m + 1) /\ Class(t[i]) \in Initiators /\ \A q \in i..(m + 1) : Delta(t, i, q) > 0
    BY <1>2 DEF Pending
  <2>2. CASE i = m + 1
    BY <2>1, <2>2
  <2>3. CASE i \in 1..m
    <3>1. \A q \in i..m : q \in i..(m + 1)
      BY <2>3
    <3>2. m + 1 \in i..(m + 1)
      BY <2>3
    <3> QED BY <2>1, <2>3, <3>1, <3>2 DEF Pending
  <2> QED BY <2>1, <2>2, <2>3
<1>3. ASSUME Pending(t, i, m), Delta(t, i, m + 1) > 0
      PROVE  Pending(t, i, m + 1)
  <2>1. i \in 1..m /\ Class(t[i]) \in Initiators /\ \A q \in i..m : Delta(t, i, q) > 0
    BY <1>3 DEF Pending
  <2>2. \A q \in i..(m + 1) : q \in i..m \/ q = m + 1
    BY <2>1
  <2>3. i \in 1..(m + 1)
    BY <2>1
  <2> QED BY <1>3, <2>1, <2>2, <2>3 DEF Pending
<1>4. ASSUME i = m + 1, Class(t[i]) \in Initiators
      PROVE  Pending(t, i, m + 1)
  <2>1. i \in 1..(m + 1) /\ \A q \in i..(m + 1) : q = m + 1
    BY <1>4
  <2>2. Delta(t, i, m + 1) = 1
    BY <1>1, <1>4
  <2>3. \A q \in i..(m + 1) : Delta(t, i, q) > 0
    BY <2>1, <2>2
  <2> QED BY <1>4, <2>1, <2>3 DEF Pending
<1> QED BY <1>1, <1>2, <1>3, <1>4

\* BD9: a PDI closes the initiators that are open with nothing else in them.
LEMMA ClosesFacts ==
  ASSUME NEW m \in Nat, NEW i \in Nat \ {0}
  PROVE  Closes(m + 1, i) <=>
            Class(text[m + 1]) = "PDI" /\ Pending(text, i, m) /\ Delta(text, i, m) = 1
<1>1. \A k \in Int : i <= k + 1 =>
        /\ CountIn(Initiators, i, k) \in Nat /\ CountIn({"PDI"}, i, k) \in Nat
        /\ Delta(text, i, k) = CountIn(Initiators, i, k) - CountIn({"PDI"}, i, k)
  <2> TAKE k \in Int
  <2> HAVE i <= k + 1
  <2>1. Count(text, Initiators, i, k) \in Nat /\ Count(text, {"PDI"}, i, k) \in Nat
    BY CountStep
  <2> QED BY <2>1 DEF Delta, Count, CountIn
<1>2. i <= m => \A k \in i..m :
        CountIn(Initiators, i, k) > CountIn({"PDI"}, i, k) <=> Delta(text, i, k) > 0
  BY <1>1
<1>3. i <= m => (CountIn(Initiators, i, m + 1) = CountIn({"PDI"}, i, m + 1) <=> Delta(text, i, m + 1) = 0)
  BY <1>1
<1>4. i <= m /\ Class(text[m + 1]) = "PDI" =>
        Delta(text, i, m) \in Int /\ Delta(text, i, m + 1) = Delta(text, i, m) - 1
  BY DeltaStep
<1>5. (i < m + 1 <=> i <= m) /\ (m + 1) - 1 = m /\ (i <= m <=> i \in 1..m)
  OBVIOUS
<1>6. CASE i <= m /\ Class(text[m + 1]) = "PDI"
  <2>1. Closes(m + 1, i) <=>
          /\ Class(text[i]) \in Initiators /\ Delta(text, i, m + 1) = 0
          /\ \A k \in i..m : Delta(text, i, k) > 0
    BY <1>2, <1>3, <1>5, <1>6 DEF Closes
  <2>2. Delta(text, i, m + 1) = 0 <=> Delta(text, i, m) = 1
    BY <1>4, <1>6
  <2> QED BY <1>5, <1>6, <2>1, <2>2 DEF Pending
<1>7. CASE ~(i <= m /\ Class(text[m + 1]) = "PDI")
  BY <1>5, <1>7 DEF Closes, Pending
<1> QED BY <1>6, <1>7

\* Where one step of the loop of an FSI can be: the classes differ from those
\* before it only where there was an FSI, and that is still an initiator.
FsiStates(n, cl) ==
    [cl : {d \in [1..n -> Classes] :
              \A k \in 1..n : IF cl[k] \in Initiators THEN d[k] \in Initiators ELSE d[k] = cl[k]},
     open : Seq(1..n), done : BOOLEAN]

LEMMA FsiStepFacts ==
  ASSUME NEW n \in Nat, NEW cl \in [1..n -> Classes], NEW s \in FsiStates(n, cl), NEW j \in 1..n,
         s.done \/ Len(s.open) >= 1
  PROVE  /\ FsiStep(s, j) \in FsiStates(n, cl)
         /\ FsiStep(s, j).done \/ Len(FsiStep(s, j).open) >= 1
<1> DEFINE top   == Peek(s.open)
           As(c) == IF s.cl[top] = "FSI" THEN [s.cl EXCEPT ![top] = c] ELSE s.cl
           outer == Len(s.open) = 1
           Cl    == {d \in [1..n -> Classes] :
                       \A k \in 1..n : IF cl[k] \in Initiators THEN d[k] \in Initiators ELSE d[k] = cl[k]}
<1>1. FsiStates(n, cl) = [cl : Cl, open : Seq(1..n), done : BOOLEAN]
  BY DEF FsiStates
<1>2. s.cl \in Cl /\ s.open \in Seq(1..n) /\ s.done \in BOOLEAN /\ Len(s.open) \in Nat
  BY <1>1, LenProperties
<1>3. "LRI" \in Initiators /\ "RLI" \in Initiators /\ "FSI" \in Initiators /\ Initiators \subseteq Classes
  BY DEF Initiators, Classes
<1>4. ASSUME NEW c \in {"LRI", "RLI"} PROVE As(c) \in Cl
  <2>1. CASE s.cl[top] = "FSI"
    <3> DEFINE d == [s.cl EXCEPT ![top] = c]
    <3>1. s.cl \in [1..n -> Classes] /\ c \in Initiators /\ c \in Classes
      BY <1>2, <1>3
    <3>2. d \in [1..n -> Classes] /\ \A k \in 1..n : d[k] = IF k = top THEN c ELSE s.cl[k]
      <4> HIDE DEF top, Cl
      <4> QED BY <3>1
    <3> HIDE DEF d, top
    <3>3. ASSUME NEW k \in 1..n
          PROVE  IF cl[k] \in Initiators THEN d[k] \in Initiators ELSE d[k] = cl[k]
      <4>1. IF cl[k] \in Initiators THEN s.cl[k] \in Initiators ELSE s.cl[k] = cl[k]
        BY <1>2
      <4>2. CASE k = top
        BY <1>3, <2>1, <3>1, <3>2, <4>1, <4>2
      <4>3. CASE k # top
        BY <3>2, <4>1, <4>3
      <4> QED BY <4>2, <4>3
    <3>4. d \in Cl
      BY <3>2, <3>3
    <3> QED BY <2>1, <3>4 DEF d
  <2>2. CASE s.cl[top] # "FSI"
    BY <1>2, <2>2
  <2> QED BY <2>1, <2>2
<1>5. ~s.done => Front(s.open) \in Seq(1..n) /\ (outer \/ Len(Front(s.open)) >= 1)
  <2> SUFFICES ASSUME ~s.done
               PROVE  Front(s.open) \in Seq(1..n) /\ (outer \/ Len(Front(s.open)) >= 1)
    OBVIOUS
  <2> DEFINE m == Len(s.open) - 1
             f == SubSeq(s.open, 1, m)
  <2>1. m \in Nat /\ \A k \in 1..m : s.open[k] \in 1..n
    BY <1>2, ElementOfSeq
  <2>2. f \in Seq(1..n) /\ Len(f) = IF 1 <= m THEN m - 1 + 1 ELSE 0
    <3> HIDE DEF m
    <3>1. m \in Int /\ 1 \in Int /\ \A k \in 1..m : s.open[k] \in 1..n
      BY <2>1
    <3> QED BY <3>1, SubSeqProperties
  <2>3. Front(s.open) = f
    BY DEF Front
  <2> HIDE DEF f
  <2>4. outer \/ m >= 1
    <3>1. Len(s.open) >= 1
      BY Zenon
    <3> DEFINE l == Len(s.open)
    <3>2. l \in Nat /\ l >= 1 /\ (outer <=> l = 1) /\ m = l - 1
      BY <1>2, <3>1
    <3> HIDE DEF l, m, outer
    <3> QED BY <3>2
  <2> QED BY <2>1, <2>2, <2>3, <2>4
<1>6. Append(s.open, j) \in Seq(1..n) /\ Len(Append(s.open, j)) >= 1
  BY <1>2, AppendProperties
<1>7. FsiStep(s, j) =
        IF s.done THEN s
        ELSE CASE s.cl[j] = "L" -> [s EXCEPT !.cl = As("LRI"), !.done = outer]
               [] s.cl[j] \in {"R", "AL"} -> [s EXCEPT !.cl = As("RLI"), !.done = outer]
               [] s.cl[j] \in Initiators -> [s EXCEPT !.open = Append(@, j)]
               [] s.cl[j] = "PDI" -> [s EXCEPT !.cl = As("LRI"), !.open = Front(@), !.done = outer]
               [] OTHER -> s
  BY Zenon DEF FsiStep
<1>8. As("LRI") \in Cl /\ As("RLI") \in Cl /\ outer \in BOOLEAN
  BY <1>4
<1> HIDE DEF As, outer, Cl, top
<1>9. CASE s.done
  BY <1>7, <1>9
<1>10. CASE ~s.done
  <2> DEFINE O == Seq(1..n)
             R == [cl : Cl, open : O, done : BOOLEAN]
             Good(x) == x \in R /\ (x.done = TRUE \/ Len(x.open) >= 1)
  <2>1. s \in R /\ s.open \in O /\ Append(s.open, j) \in O /\ Front(s.open) \in O
    BY <1>1, <1>2, <1>5, <1>6, <1>10
  <2>2. /\ Len(s.open) >= 1 /\ Len(Append(s.open, j)) >= 1
        /\ outer = TRUE \/ Len(Front(s.open)) >= 1
    BY <1>5, <1>6, <1>8, <1>10, Zenon
  <2> HIDE DEF O
  <2>3. ASSUME NEW c \in Cl, NEW d \in BOOLEAN
        PROVE  Good([s EXCEPT !.cl = c, !.done = d])
    BY <2>1, <2>2
  <2>4. Good([s EXCEPT !.open = Append(@, j)])
    BY <2>1, <2>2
  <2>5. ASSUME NEW c \in Cl
        PROVE  Good([s EXCEPT !.cl = c, !.open = Front(@), !.done = outer])
    BY <1>8, <2>1, <2>2
  <2>6. FsiStep(s, j) \in {[s EXCEPT !.cl = As("LRI"), !.done = outer],
                           [s EXCEPT !.cl = As("RLI"), !.done = outer],
                           [s EXCEPT !.open = Append(@, j)],
                           [s EXCEPT !.cl = As("LRI"), !.open = Front(@), !.done = outer], s}
    BY <1>7, <1>10, Zenon
  <2> HIDE DEF Good
  <2>7. Good(s)
    BY <2>1, <2>2 DEF Good
  <2>8. Good(FsiStep(s, j))
    BY <1>8, <2>3, <2>4, <2>5, <2>6, <2>7, Zenon
  <2> QED BY <1>1, <2>8, Zenon DEF Good, O
<1> QED BY <1>9, <1>10

\* What the loop of an FSI leaves: where there was an initiator there is one
\* still, and the other classes are what they were.
LEMMA ResolveFSIFacts ==
  ASSUME NEW n \in Nat, NEW cl \in [1..n -> Classes], NEW i \in 1..n
  PROVE  /\ ResolveFSI(cl, i) \in [1..n -> Classes]
         /\ \A k \in 1..n : IF cl[k] \in Initiators THEN ResolveFSI(cl, i)[k] \in Initiators
                                                    ELSE ResolveFSI(cl, i)[k] = cl[k]
<1> DEFINE start == [cl |-> cl, open |-> <<i>>, done |-> FALSE]
           Fits(g, m) == g = [j \in i..m |-> IF j = i THEN start ELSE FsiStep(g[j - 1], j)]
           Good(x) == x \in FsiStates(n, cl) /\ (x.done \/ Len(x.open) >= 1)
           p == CHOOSE g : Fits(g, n)
<1>1. Len(cl) = n
  <2>1. cl \in Seq(Classes)
    OBVIOUS
  <2> QED BY <2>1, LenProperties
<1>2. \A m \in i..n : \E g : Fits(g, m)
  <2>1. SUFFICES ASSUME NEW m \in i..n, \A g : ~Fits(g, m)
               PROVE  FALSE
    OBVIOUS
  <2> DEFINE T == {j \in i..n : \A g : ~Fits(g, j)}
  <2>2. PICK y \in T : \A x \in T : y <= x
    <3>1. T \in SUBSET Nat /\ m \in T
      BY <2>1
    <3> HIDE DEF T
    <3> QED BY <3>1, LeastNat
  <2>3. y # i
    <3>1. Fits([j \in i..i |-> start], i)
      OBVIOUS
    <3> HIDE DEF Fits
    <3> QED BY <3>1
  <2>4. y \in i..n /\ y - 1 \in i..n
    BY <2>3
  <2>5. y - 1 \notin T
    <3> HIDE DEF T
    <3> QED BY <2>2, <2>4
  <2>6. PICK g : Fits(g, y - 1)
    BY <2>4, <2>5
  <2> DEFINE h == [j \in i..y |-> IF j = y THEN FsiStep(g[y - 1], y) ELSE g[j]]
  <2>8. \A j \in i..y - 1 : h[j] = IF j = i THEN start ELSE FsiStep(h[j - 1], j)
    <3>1. \A j \in i..y - 1 : h[j] = g[j]
      BY <2>4
    <3>2. \A j \in i..y - 1 : g[j] = IF j = i THEN start ELSE FsiStep(g[j - 1], j)
      BY <2>6
    <3> HIDE DEF h, start
    <3>3. ASSUME NEW j \in i..y - 1
          PROVE  h[j] = IF j = i THEN start ELSE FsiStep(h[j - 1], j)
      <4>1. j # i => j - 1 \in i..y - 1
        BY <2>4
      <4>2. j # i => h[j - 1] = g[j - 1]
        BY <3>1, <4>1
      <4> QED BY <3>1, <3>2, <4>2
    <3> QED BY <3>3
  <2>9. h[y] = FsiStep(h[y - 1], y) /\ y # i
    <3>1. y \in i..y /\ y - 1 \in i..y /\ y - 1 # y /\ y # i
      BY <2>3, <2>4
    <3> QED BY <3>1
  <2>10. Fits(h, y)
    <3>1. \A j \in i..y : j = y \/ j \in i..y - 1
      BY <2>4
    <3>2. h = [j \in i..y |-> h[j]]
      OBVIOUS
    <3> HIDE DEF h, start
    <3>3. \A j \in i..y : h[j] = IF j = i THEN start ELSE FsiStep(h[j - 1], j)
      BY <2>8, <2>9, <3>1
    <3> QED BY <3>2, <3>3
  <2> HIDE DEF Fits, h
  <2> QED BY <2>2, <2>10
<1>3. Fits(p, n)
  <2>1. n \in i..n
    OBVIOUS
  <2> HIDE DEF Fits
  <2> QED BY <1>2, <2>1
<1>4. \A j \in i..n : p[j] = IF j = i THEN start ELSE FsiStep(p[j - 1], j)
  <2> HIDE DEF p, start
  <2> QED BY <1>3
<1>5. Good(start)
  <2>1. <<i>> \in Seq(1..n) /\ Len(<<i>>) = 1
    OBVIOUS
  <2> QED BY <2>1 DEF FsiStates
<1>6. \A m \in i..n : Good(p[m])
  <2> HIDE DEF p, start, Good, Fits
  <2>1. SUFFICES ASSUME NEW m \in i..n, ~Good(p[m])
               PROVE  FALSE
    OBVIOUS
  <2> DEFINE T == {j \in i..n : ~Good(p[j])}
  <2>2. PICK y \in T : \A x \in T : y <= x
    <3>1. T \in SUBSET Nat /\ m \in T
      BY <2>1
    <3> HIDE DEF T
    <3> QED BY <3>1, LeastNat
  <2>3. y # i
    BY <1>4, <1>5
  <2>4. y \in i..n /\ y - 1 \in i..n /\ y \in 1..n
    BY <2>3
  <2>5. y - 1 \notin T
    <3> HIDE DEF T
    <3> QED BY <2>2, <2>4
  <2>6. Good(p[y - 1])
    BY <2>4, <2>5
  <2>7. p[y] = FsiStep(p[y - 1], y)
    BY <1>4, <2>3, <2>4
  <2>8. Good(FsiStep(p[y - 1], y))
    <3> DEFINE s == p[y - 1]
    <3>1. s \in FsiStates(n, cl) /\ (s.done \/ Len(s.open) >= 1)
      BY <2>6 DEF Good
    <3> HIDE DEF s
    <3>2. FsiStep(s, y) \in FsiStates(n, cl) /\ (FsiStep(s, y).done \/ Len(FsiStep(s, y).open) >= 1)
      BY <2>4, <3>1, FsiStepFacts
    <3> QED BY <3>2 DEF Good, s
  <2> QED BY <2>7, <2>8
<1> DEFINE r == [k \in 1..n |-> IF k \in ToSet(p[n].open) /\ p[n].cl[k] = "FSI" THEN "LRI" ELSE p[n].cl[k]]
<1>7. ResolveFSI(cl, i) = r
  BY <1>1 DEF ResolveFSI
<1>8. p[n].cl \in [1..n -> Classes]
      /\ \A k \in 1..n : IF cl[k] \in Initiators THEN p[n].cl[k] \in Initiators ELSE p[n].cl[k] = cl[k]
  <2>1. n \in i..n
    OBVIOUS
  <2>2. p[n] \in FsiStates(n, cl)
    BY <1>6, <2>1
  <2> HIDE DEF p
  <2> QED BY <2>2 DEF FsiStates
<1>9. "LRI" \in Initiators /\ "FSI" \in Initiators /\ "LRI" \in Classes
  BY DEF Initiators, Classes
<1> HIDE DEF p
<1> QED BY <1>7, <1>8, <1>9

\* What every step of the pass does to the data: it settles the rune at pos.
Settles ==
    /\ pos \in 1..Len(text) /\ pos' = pos + 1 /\ text' = text
    /\ TextInv' /\ ClassInv'
    /\ \A q \in 1..Len(text) : q # pos =>
          /\ embeddingLevels'[q] = embeddingLevels[q]
          /\ runeClasses'[q] \in {"L", "R"} <=> runeClasses[q] \in {"L", "R"}

LEMMA ClassFacts ==
  ASSUME NEW r \in Runes
  PROVE  Class(r) \in Classes
<1>1. r \in Classes \/ r \in Opening \cup Closing
  BY DEF Runes
<1>2. "ON" \in Classes
  BY DEF Classes, Plain
<1> QED BY <1>1, <1>2 DEF Class

\* The kind of the rune at pos can be told by its class so far.
LEMMA KindFacts ==
  ASSUME TextInv, ClassInv, pos \in 1..Len(text)
  PROVE  /\ runeClasses[pos] \in Initiators <=> Class(text[pos]) \in Initiators
         /\ runeClasses[pos] = "PDI" <=> Class(text[pos]) = "PDI"
<1>1. pos >= pos
  OBVIOUS
<1>2. /\ runeClasses[pos] \in Initiators <=> Class(text[pos]) \in Initiators
      /\ Class(text[pos]) \notin Initiators => runeClasses[pos] = Class(text[pos])
  BY <1>1 DEF ClassInv
<1>3. "PDI" \notin Initiators
  BY DEF Initiators
<1> QED BY <1>2, <1>3

\* The rune at pos gets a class that is as good as its own, and the others
\* change only from an initiator to another.
LEMMA SettlesFacts ==
  ASSUME TextInv, ClassInv, pos \in 1..Len(text), pos' = pos + 1, UNCHANGED paragraph,
         NEW cl \in [1..Len(text) -> Classes],
         \A k \in 1..Len(text) : IF runeClasses[k] \in Initiators THEN cl[k] \in Initiators
                                                                  ELSE cl[k] = runeClasses[k],
         NEW c \in Classes, runeClasses' = [cl EXCEPT ![pos] = c],
         c \in {"L", "R"} \/ c = cl[pos],
         NEW l \in Int, embeddingLevels' = [embeddingLevels EXCEPT ![pos] = l]
  PROVE  Settles
<1>1. /\ Len(text) \in Nat /\ text \in Seq(Runes) /\ text' = text
      /\ paragraphEmbeddingLevel' \in {0, 1}
  BY LenProperties DEF TextInv, paragraph
<1>2. /\ runeClasses' \in [1..Len(text) -> Classes]
      /\ \A k \in 1..Len(text) : runeClasses'[k] = IF k = pos THEN c ELSE cl[k]
  OBVIOUS
<1>3. /\ embeddingLevels' \in [1..Len(text) -> Int]
      /\ \A k \in 1..Len(text) : k # pos => embeddingLevels'[k] = embeddingLevels[k]
  BY DEF TextInv
<1>4. pos' \in 1..(Len(text) + 2)
  BY <1>1
<1>5. TextInv'
  BY <1>1, <1>2, <1>3, <1>4 DEF TextInv
<1>6. ClassInv'
  <2>1. ASSUME NEW q \in 1..Len(text)
        PROVE  /\ q >= pos + 1 =>
                    /\ runeClasses'[q] \in Initiators <=> Class(text[q]) \in Initiators
                    /\ Class(text[q]) \notin Initiators => runeClasses'[q] = Class(text[q])
               /\ q < pos + 1 /\ Class(text[q]) \in Initiators \cup {"PDI"} =>
                    runeClasses'[q] \in Initiators \cup {"PDI", "L", "R"}
    <3>1. CASE q < pos
      <4>1. Class(text[q]) \in Initiators \cup {"PDI"} =>
              runeClasses[q] \in Initiators \cup {"PDI", "L", "R"}
        BY <3>1 DEF ClassInv
      <4>2. runeClasses'[q] = cl[q] /\ ~(q >= pos + 1)
        BY <1>2, <3>1
      <4>3. IF runeClasses[q] \in Initiators THEN cl[q] \in Initiators ELSE cl[q] = runeClasses[q]
        OBVIOUS
      <4> QED BY <4>1, <4>2, <4>3, Zenon
    <3>2. CASE q > pos
      <4>1. /\ runeClasses[q] \in Initiators <=> Class(text[q]) \in Initiators
            /\ Class(text[q]) \notin Initiators => runeClasses[q] = Class(text[q])
        BY <3>2 DEF ClassInv
      <4>2. runeClasses'[q] = cl[q] /\ ~(q < pos + 1)
        BY <1>2, <3>2
      <4>3. IF runeClasses[q] \in Initiators THEN cl[q] \in Initiators ELSE cl[q] = runeClasses[q]
        OBVIOUS
      <4> QED BY <4>1, <4>2, <4>3, Zenon
    <3>3. CASE q = pos
      <4>1. runeClasses'[q] = c /\ ~(q >= pos + 1)
        BY <1>2, <3>3
      <4>2. Class(text[q]) \in Initiators => cl[q] \in Initiators
        BY <3>3, KindFacts
      <4>3. Class(text[q]) = "PDI" => cl[q] = "PDI"
        <5>1. "PDI" \notin Initiators
          BY DEF Initiators
        <5> QED BY <3>3, <5>1, KindFacts
      <4> QED BY <3>3, <4>1, <4>2, <4>3
    <3> QED BY <3>1, <3>2, <3>3
  <2> QED BY <1>1, <2>1 DEF ClassInv
<1>7. \A q \in 1..Len(text) : q # pos =>
        (runeClasses'[q] \in {"L", "R"} <=> runeClasses[q] \in {"L", "R"})
  <2>1. "L" \notin Initiators /\ "R" \notin Initiators
    BY DEF Initiators
  <2> QED BY <1>2, <2>1
<1> QED BY <1>1, <1>3, <1>5, <1>6, <1>7 DEF Settles

\* PushEmbedding, PopEmbedding, Skip and Other settle runes that neither open
\* nor close an isolate.
LEMMA PlainSettles ==
  ASSUME IInv, TextInv, ClassInv, PushEmbedding \/ PopEmbedding \/ Skip \/ Other
  PROVE  Settles /\ Class(text[pos]) \notin Initiators \cup {"PDI"}
<1>1. /\ pos \in 1..Len(text) /\ pos' = pos + 1 /\ UNCHANGED paragraph
      /\ runeClasses[pos] \in Embeddings \cup Overrides \cup Plain \cup {"PDF", "BN", "B"}
  BY DEF PushEmbedding, PopEmbedding, Skip, Other, Current
<1>2. Class(text[pos]) \notin Initiators \cup {"PDI"}
  <2>1. runeClasses[pos] \notin Initiators \cup {"PDI"}
    BY <1>1 DEF Embeddings, Overrides, Plain, Initiators
  <2> QED BY <1>1, <2>1, KindFacts
<1>3. /\ runeClasses \in [1..Len(text) -> Classes]
      /\ embeddingLevels \in [1..Len(text) -> Int]
      /\ runeClasses[pos] \in Classes /\ embeddingLevels[pos] \in Int
  BY <1>1 DEF TextInv
<1>4. PICK c \in Classes, l \in Int :
        /\ runeClasses' = [runeClasses EXCEPT ![pos] = c]
        /\ embeddingLevels' = [embeddingLevels EXCEPT ![pos] = l]
        /\ c \in {"L", "R"} \/ c = runeClasses[pos]
  <2>1. /\ runeClasses = [runeClasses EXCEPT ![pos] = runeClasses[pos]]
        /\ embeddingLevels = [embeddingLevels EXCEPT ![pos] = embeddingLevels[pos]]
    BY <1>3
  <2>2. CASE PushEmbedding
    BY <1>3, <2>1, <2>2 DEF PushEmbedding
  <2>3. CASE PopEmbedding
    BY <1>3, <2>1, <2>3 DEF PopEmbedding
  <2>4. CASE Skip
    <3>1. runeClasses' = runeClasses
      BY <2>4 DEF Skip
    <3> DEFINE l == IF runeClasses[pos] = "B" THEN paragraphEmbeddingLevel ELSE embeddingLevels[pos]
    <3>2. embeddingLevels' = [embeddingLevels EXCEPT ![pos] = l]
      BY <2>4 DEF Skip
    <3>3. l \in Int
      BY <1>3 DEF TextInv
    <3> HIDE DEF l
    <3> QED BY <1>3, <2>1, <3>1, <3>2, <3>3
  <2>5. CASE Other
    <3> DEFINE e == Peek(Stack)
    <3>1. /\ embeddingLevels' = [embeddingLevels EXCEPT ![pos] = e.level]
          /\ runeClasses' = [runeClasses EXCEPT ![pos] = Overridden(e, runeClasses[pos])]
      BY <2>5 DEF Other, Stack
    <3>2. e.level \in Int /\ e.override \in Override
      BY TopFacts DEF Entry
    <3> HIDE DEF e
    <3>3. "L" \in Classes /\ "R" \in Classes
      BY DEF Classes, Plain
    <3>4. Overridden(e, runeClasses[pos]) \in {runeClasses[pos], "L", "R"}
      BY <3>2 DEF Overridden, Override
    <3> QED BY <1>3, <3>1, <3>2, <3>3, <3>4
  <2> QED BY <2>2, <2>3, <2>4, <2>5
<1> QED BY <1>1, <1>2, <1>3, <1>4, SettlesFacts

\* What was closed stays as it was; only the rune at pos can close more.
LEMMA ClosedStep ==
  ASSUME TextInv, ClosedInv, Settles, DOMAIN isolatePDIs \subseteq DOMAIN isolatePDIs',
         \A i \in 1..Len(text) : Closes(pos, i) => Agree(embeddingLevels', runeClasses', isolatePDIs', i, pos)
  PROVE  ClosedInv'
<1>1. pos \in 1..Len(text) /\ pos' = pos + 1 /\ text' = text
  BY DEF Settles
<1>2. \A i, j : Closes(j, i)' <=> Closes(j, i)
  BY <1>1 DEF Closes, CountIn
<1>3. ASSUME NEW i \in 1..Len(text), NEW j \in 1..Len(text), j < pos + 1, Closes(j, i)
      PROVE  Agree(embeddingLevels', runeClasses', isolatePDIs', i, j)
  <2>1. CASE j = pos
    BY <1>3, <2>1
  <2>2. CASE j # pos
    <3>1. j < pos /\ i < j
      BY <1>1, <1>3, <2>2 DEF Closes
    <3>2. Agree(embeddingLevels, runeClasses, isolatePDIs, i, j)
      BY <1>3, <3>1 DEF ClosedInv
    <3>3. i # pos /\ j # pos
      BY <1>1, <3>1
    <3>4. /\ embeddingLevels'[i] = embeddingLevels[i] /\ embeddingLevels'[j] = embeddingLevels[j]
          /\ runeClasses'[i] \in {"L", "R"} <=> runeClasses[i] \in {"L", "R"}
          /\ runeClasses'[j] \in {"L", "R"} <=> runeClasses[j] \in {"L", "R"}
      BY <3>3 DEF Settles
    <3> QED BY <3>2, <3>4 DEF Agree
  <2> QED BY <2>1, <2>2
<1> QED BY <1>1, <1>2, <1>3 DEF ClosedInv

\* The pairs so far remain as they are when the text is the same.
LEMMA MatchedStep ==
  ASSUME MatchedInv, text' = text, UNCHANGED isolatePDIs
  PROVE  MatchedInv'
<1>1. \A i, j : Closes(j, i)' <=> Closes(j, i)
  BY DEF Closes, CountIn
<1> QED BY <1>1 DEF MatchedInv

\* What the parts of the invariant say of the positions.
LEMMA OpenFacts ==
  ASSUME IInv, BD9Inv, pos \in 1..Len(text)
  PROVE  /\ \A k \in Isolates :
              /\ k \in 2..Len(Stack) /\ k - 1 \in 1..Len(Stack)
              /\ Stack[k].index \in 1..(pos - 1)
              /\ Pending(text, Stack[k].index, pos - 1)
              /\ Delta(text, Stack[k].index, pos - 1) = Cardinality(Above(k)) + overflowIsolateCount
              /\ Like(embeddingLevels, runeClasses, Stack[k].index, Stack[k - 1])
         /\ \A i \in 1..(pos - 1) :
              Pending(text, i, pos - 1) =>
                 \/ \E k \in Isolates : Stack[k].index = i
                 \/ /\ overflowIsolateCount > 0
                    /\ Delta(text, i, pos - 1) <= overflowIsolateCount
                    /\ Like(embeddingLevels, runeClasses, i, Peek(Stack))
         /\ \A i : Pending(text, i, pos - 1) => i \in 1..(pos - 1) /\ Delta(text, i, pos - 1) > 0
         /\ \A i \in 1..(pos - 1) : Delta(text, i, pos - 1) \in Int
<1>1. pos <= Len(text) + 1 /\ Len(text) \in Nat /\ pos \in Nat
  BY LenProperties DEF BD9Inv, TextInv
<1>2. Len(Stack) \in Nat /\ ~Stack[1].isolate
  BY TopFacts DEF IInv, LevelInv
<1>3. \A i : Pending(text, i, pos - 1) => i \in 1..(pos - 1) /\ Delta(text, i, pos - 1) > 0
  <2> TAKE i
  <2> HAVE Pending(text, i, pos - 1)
  <2>1. i \in 1..(pos - 1) /\ \A q \in i..(pos - 1) : Delta(text, i, q) > 0
    BY DEF Pending
  <2>2. pos - 1 \in i..(pos - 1)
    BY <1>1, <2>1
  <2> QED BY <2>1, <2>2
<1>4. \A i \in 1..(pos - 1) : Delta(text, i, pos - 1) \in Int
  <2> TAKE i \in 1..(pos - 1)
  <2>1. i \in Int /\ pos - 1 \in Int /\ i <= (pos - 1) + 1
    BY <1>1
  <2> QED BY <2>1, DeltaStep
<1>5. ASSUME NEW k \in Isolates
      PROVE  /\ k \in 2..Len(Stack) /\ k - 1 \in 1..Len(Stack)
             /\ Stack[k].index \in 1..(pos - 1)
             /\ Pending(text, Stack[k].index, pos - 1)
             /\ Delta(text, Stack[k].index, pos - 1) = Cardinality(Above(k)) + overflowIsolateCount
             /\ Like(embeddingLevels, runeClasses, Stack[k].index, Stack[k - 1])
  <2>1. k \in 1..Len(Stack) /\ Stack[k].isolate
    BY DEF Isolates, Stack
  <2>2. k # 1
    BY <1>2, <2>1
  <2>3. k \in 2..Len(Stack) /\ k - 1 \in 1..Len(Stack)
    BY <1>2, <2>1, <2>2
  <2>4. /\ Pending(text, Stack[k].index, pos - 1)
        /\ Delta(text, Stack[k].index, pos - 1) = Cardinality(Above(k)) + overflowIsolateCount
        /\ Like(embeddingLevels, runeClasses, Stack[k].index, Stack[k - 1])
    BY <1>1 DEF BD9Inv, OpenInv
  <2> QED BY <1>3, <2>3, <2>4
<1>6. ASSUME NEW i \in 1..(pos - 1), Pending(text, i, pos - 1), \A k \in Isolates : Stack[k].index # i
      PROVE  /\ overflowIsolateCount > 0
             /\ Delta(text, i, pos - 1) <= overflowIsolateCount
             /\ Like(embeddingLevels, runeClasses, i, Peek(Stack))
  <2>1. /\ Delta(text, i, pos - 1) <= overflowIsolateCount
        /\ Like(embeddingLevels, runeClasses, i, Peek(Stack))
    BY <1>1, <1>6 DEF BD9Inv, SwallowedInv
  <2>2. Delta(text, i, pos - 1) > 0 /\ Delta(text, i, pos - 1) \in Int /\ overflowIsolateCount \in Nat
    BY <1>3, <1>4, <1>6 DEF IInv, BaseInv
  <2> QED BY <2>1, <2>2
<1> QED BY <1>3, <1>4, <1>5, <1>6

\* What the rune at pos does to the open isolates.
LEMMA OpenStep ==
  ASSUME TextInv, pos \in 1..Len(text), NEW i \in 1..(pos - 1)
  PROVE  /\ Pending(text, i, pos) <=> Pending(text, i, pos - 1) /\ Delta(text, i, pos) > 0
         /\ Class(text[pos]) \in Initiators => Delta(text, i, pos) = Delta(text, i, pos - 1) + 1
         /\ Class(text[pos]) = "PDI" => Delta(text, i, pos) = Delta(text, i, pos - 1) - 1
         /\ Class(text[pos]) \notin Initiators \cup {"PDI"} =>
               Delta(text, i, pos) = Delta(text, i, pos - 1)
<1> DEFINE m == pos - 1
<1>1. m \in Nat /\ m \in Int /\ i \in Int /\ i <= m + 1 /\ i # m + 1 /\ pos = m + 1
  BY DEF TextInv
<1> HIDE DEF m
<1>2. Pending(text, i, m + 1) <=> Pending(text, i, m) /\ Delta(text, i, m + 1) > 0
  BY <1>1, PendingStep
<1>3. /\ Class(text[m + 1]) \in Initiators => Delta(text, i, m + 1) = Delta(text, i, m) + 1
      /\ Class(text[m + 1]) = "PDI" => Delta(text, i, m + 1) = Delta(text, i, m) - 1
      /\ Class(text[m + 1]) \notin Initiators \cup {"PDI"} => Delta(text, i, m + 1) = Delta(text, i, m)
  BY <1>1, DeltaStep
<1>4. pos - 1 = m
  BY DEF m
<1> QED BY <1>1, <1>2, <1>3, <1>4

\* An entry that was like a rune before pos still is.
LEMMA LikeStep ==
  ASSUME TextInv, Settles, NEW i \in 1..(pos - 1), NEW e,
         Like(embeddingLevels, runeClasses, i, e)
  PROVE  Like(embeddingLevels', runeClasses', i, e)
<1>1. i \in 1..Len(text) /\ i # pos
  BY LenProperties DEF TextInv, Settles
<1>2. /\ embeddingLevels'[i] = embeddingLevels[i]
      /\ runeClasses'[i] \in {"L", "R"} <=> runeClasses[i] \in {"L", "R"}
  BY <1>1 DEF Settles
<1> QED BY <1>2 DEF Like

\* To show that the open isolates are described after a step.
LEMMA DescribedNext ==
  ASSUME Settles,
         \A k \in Isolates' :
            /\ Pending(text, Stack'[k].index, pos)
            /\ Delta(text, Stack'[k].index, pos) = Cardinality(Above(k)') + overflowIsolateCount'
            /\ Like(embeddingLevels', runeClasses', Stack'[k].index, Stack'[k - 1]),
         \A i \in 1..pos :
            Pending(text, i, pos) /\ (\A k \in Isolates' : Stack'[k].index # i) =>
               /\ Delta(text, i, pos) <= overflowIsolateCount'
               /\ Like(embeddingLevels', runeClasses', i, Peek(Stack'))
  PROVE  OpenInv' /\ SwallowedInv'
<1>1. text' = text /\ pos' - 1 = pos
  BY DEF Settles
<1> QED BY <1>1 DEF OpenInv, SwallowedInv

\* A rune that neither opens nor closes an isolate, with a push or a pop of an
\* embedding only when nothing has overflowed.
LEMMA PlainStep ==
  ASSUME IInv, BD9Inv, Settles, Class(text[pos]) \notin Initiators \cup {"PDI"},
         UNCHANGED <<overflowIsolateCount, isolatePDIs>>,
         Isolates' = Isolates,
         \A k \in Isolates : Stack'[k] = Stack[k] /\ Stack'[k - 1] = Stack[k - 1],
         overflowIsolateCount = 0 \/ Stack' = Stack
  PROVE  BD9Inv'
<1>1. pos \in 1..Len(text) /\ text' = text /\ pos \in Nat /\ TextInv' /\ ClassInv' /\ TextInv
  BY DEF Settles, BD9Inv
<1>2. \A i \in 1..(pos - 1) : Delta(text, i, pos) = Delta(text, i, pos - 1) /\ Delta(text, i, pos) \in Int
  BY <1>1, OpenStep, OpenFacts
<1>3. \A i \in 1..(pos - 1) : Pending(text, i, pos) <=> Pending(text, i, pos - 1)
  <2> TAKE i \in 1..(pos - 1)
  <2>1. Pending(text, i, pos) <=> Pending(text, i, pos - 1) /\ Delta(text, i, pos) > 0
    BY <1>1, OpenStep
  <2>2. Pending(text, i, pos - 1) => Delta(text, i, pos - 1) > 0
    BY <1>1, OpenFacts
  <2> QED BY <1>2, <2>1, <2>2
<1>4. ASSUME NEW k \in Isolates'
      PROVE  /\ Pending(text, Stack'[k].index, pos)
             /\ Delta(text, Stack'[k].index, pos) = Cardinality(Above(k)') + overflowIsolateCount'
             /\ Like(embeddingLevels', runeClasses', Stack'[k].index, Stack'[k - 1])
  <2>1. /\ Stack[k].index \in 1..(pos - 1)
        /\ Pending(text, Stack[k].index, pos - 1)
        /\ Delta(text, Stack[k].index, pos - 1) = Cardinality(Above(k)) + overflowIsolateCount
        /\ Like(embeddingLevels, runeClasses, Stack[k].index, Stack[k - 1])
    BY <1>1, OpenFacts
  <2>2. Above(k)' = Above(k)
    BY DEF Above
  <2>3. Like(embeddingLevels', runeClasses', Stack[k].index, Stack[k - 1])
    BY <1>1, <2>1, LikeStep
  <2>4. Stack'[k] = Stack[k] /\ Stack'[k - 1] = Stack[k - 1]
    OBVIOUS
  <2> QED BY <1>2, <1>3, <2>1, <2>2, <2>3, <2>4
<1>5. ASSUME NEW i \in 1..pos, Pending(text, i, pos), \A k \in Isolates' : Stack'[k].index # i
      PROVE  /\ Delta(text, i, pos) <= overflowIsolateCount'
             /\ Like(embeddingLevels', runeClasses', i, Peek(Stack'))
  <2>1. i \in 1..(pos - 1)
    BY <1>1, <1>5 DEF Pending
  <2>2. Pending(text, i, pos - 1) /\ \A k \in Isolates : Stack[k].index # i
    BY <1>3, <1>5, <2>1
  <2>3. /\ overflowIsolateCount > 0
        /\ Delta(text, i, pos - 1) <= overflowIsolateCount
        /\ Like(embeddingLevels, runeClasses, i, Peek(Stack))
    BY <1>1, <2>1, <2>2, OpenFacts
  <2>4. Stack' = Stack
    BY <2>3
  <2>5. Like(embeddingLevels', runeClasses', i, Peek(Stack))
    BY <1>1, <2>1, <2>3, LikeStep
  <2> QED BY <1>2, <2>1, <2>3, <2>4, <2>5
<1>6. OpenInv' /\ SwallowedInv'
  BY <1>4, <1>5, DescribedNext
<1>7. MatchedInv'
  BY <1>1, MatchedStep DEF BD9Inv
<1>8. ClosedInv'
  <2>1. \A i \in 1..Len(text) : ~Closes(pos, i)
    BY DEF Closes
  <2> QED BY <2>1, ClosedStep DEF BD9Inv
<1> QED BY <1>1, <1>6, <1>7, <1>8 DEF BD9Inv

LEMMA PlainActions ==
  ASSUME IInv, BD9Inv, PushEmbedding \/ PopEmbedding \/ Skip \/ Other
  PROVE  BD9Inv'
<1>1. Settles /\ Class(text[pos]) \notin Initiators \cup {"PDI"}
  BY PlainSettles DEF BD9Inv
<1>2. UNCHANGED <<overflowIsolateCount, isolatePDIs>>
  BY DEF PushEmbedding, PopEmbedding, Skip, Other, counters
<1>3. pos \in 1..Len(text) /\ pos' = pos + 1
  BY <1>1 DEF Settles
<1>4. Len(Stack) \in Nat \ {0}
  BY TopFacts
<1>5. \A k \in Isolates : k \in 1..Len(Stack) /\ k - 1 \in 1..Len(Stack)
  <2> TAKE k \in Isolates
  <2>1. k \in 2..Len(Stack)
    BY <1>3, OpenFacts
  <2> QED BY <2>1
<1>6. CASE Stack' = Stack
  <2>1. Isolates' = Isolates
    BY <1>6 DEF Isolates, Stack
  <2> QED BY <1>1, <1>2, <1>6, <2>1, PlainStep
<1>7. CASE PushEmbedding /\ Stack' # Stack
  <2> DEFINE c   == runeClasses[pos]
             lvl == NextLevel(Peek(Stack).level, RightToLeft(c))
             o   == IF c = "RLO" THEN "R" ELSE IF c = "LRO" THEN "L" ELSE "neutral"
  <2>1. /\ lvl <= MaxDepth /\ NoOverflow
        /\ Stack' = Append(Stack, Status(pos, lvl, o, FALSE))
    BY <1>7, Zenon DEF PushEmbedding, Stack
  <2>2. o \in Override
    BY DEF Override
  <2>3. Peek(Stack).level \in Int /\ lvl \in {Peek(Stack).level + 1, Peek(Stack).level + 2}
    BY TopFacts, NextLevelFacts
  <2> HIDE DEF lvl, o
  <2>4. lvl \in Int /\ Peek(Stack).level < lvl
    BY <2>3
  <2>5. Isolates' = Isolates
    BY <1>2, <1>3, <2>1, <2>2, <2>4, PushInv
  <2>6. \A k \in 1..Len(Stack) : Stack'[k] = Stack[k]
    <3> DEFINE e == Status(pos, lvl, o, FALSE)
    <3>1. e \in Entry
      BY <1>3, <2>2, <2>4 DEF Status, Entry
    <3>2. Stack \in Seq(Entry) /\ Stack' = Append(Stack, e)
      BY <2>1 DEF IInv, BaseInv
    <3> HIDE DEF e
    <3> QED BY <3>1, <3>2, AppendProperties
  <2>7. \A k \in Isolates : Stack'[k] = Stack[k] /\ Stack'[k - 1] = Stack[k - 1]
    BY <1>5, <2>6
  <2>8. overflowIsolateCount = 0
    BY <2>1 DEF NoOverflow
  <2> QED BY <1>1, <1>2, <2>5, <2>7, <2>8, PlainStep
<1>8. CASE PopEmbedding /\ Stack' # Stack
  <2>1. NoOverflow /\ ~Peek(Stack).isolate /\ Len(Stack) >= 2 /\ Stack' = Front(Stack)
    BY <1>8, Zenon DEF PopEmbedding, Stack
  <2>2. Len(Stack) - 1 \in 1..Len(Stack) /\ Stack' = SubSeq(Stack, 1, Len(Stack) - 1)
    BY <1>4, <2>1 DEF Front
  <2>3. /\ \A k \in 1..(Len(Stack) - 1) : Stack'[k] = Stack[k]
        /\ Isolates' = {k \in Isolates : k <= Len(Stack) - 1}
    BY <1>3, <2>2, PopsInv
  <2>4. \A k \in Isolates : k # Len(Stack)
    BY <2>1 DEF Isolates, Peek, Stack
  <2>5. \A k \in Isolates : k \in 1..(Len(Stack) - 1) /\ k - 1 \in 1..(Len(Stack) - 1)
    BY <1>4, <1>5, <2>4
  <2>6. Isolates' = Isolates
    BY <2>3, <2>5
  <2>7. \A k \in Isolates : Stack'[k] = Stack[k] /\ Stack'[k - 1] = Stack[k - 1]
    BY <2>3, <2>5
  <2>8. overflowIsolateCount = 0
    BY <2>1 DEF NoOverflow
  <2> QED BY <1>1, <1>2, <2>6, <2>7, <2>8, PlainStep
<1>9. CASE (Skip \/ Other) /\ Stack' # Stack
  BY <1>9 DEF Skip, Other, Stack
<1> QED BY <1>6, <1>7, <1>8, <1>9

\* An override changes the class of a rune or leaves it.
LEMMA OverriddenFacts ==
  ASSUME NEW e \in Entry, NEW c \in Classes, c \in Initiators \cup {"PDI"}
  PROVE  /\ Overridden(e, c) \in Classes
         /\ Overridden(e, c) \in {"L", "R"} \/ Overridden(e, c) = c
         /\ Overridden(e, c) \in {"L", "R"} <=> e.override # "neutral"
<1>1. c \notin {"L", "R"}
  BY DEF Initiators
<1>2. "L" \in Classes /\ "R" \in Classes
  BY DEF Classes, Plain
<1>3. e.override \in {"neutral", "R", "L"}
  BY DEF Entry, Override
<1> QED BY <1>1, <1>2, <1>3 DEF Overridden

\* What an initiator does to the data: it has the level of the top.
LEMMA InitiatorSettles ==
  ASSUME IInv, TextInv, ClassInv, PushIsolate
  PROVE  /\ Settles /\ Class(text[pos]) \in Initiators
         /\ Like(embeddingLevels', runeClasses', pos, Peek(Stack))
<1>1. /\ pos \in 1..Len(text) /\ pos' = pos + 1 /\ UNCHANGED paragraph
      /\ runeClasses[pos] \in Initiators
  BY DEF PushIsolate, Current
<1> DEFINE cl == IF runeClasses[pos] = "FSI" THEN ResolveFSI(runeClasses, pos) ELSE runeClasses
           e  == Peek(Stack)
           c  == Overridden(e, cl[pos])
<1>2. /\ runeClasses' = [cl EXCEPT ![pos] = c]
      /\ embeddingLevels' = [embeddingLevels EXCEPT ![pos] = e.level]
  BY DEF PushIsolate, Stack
<1>3. /\ runeClasses \in [1..Len(text) -> Classes] /\ Len(text) \in Nat
      /\ embeddingLevels \in [1..Len(text) -> Int]
  BY LenProperties DEF TextInv
<1>4. /\ cl \in [1..Len(text) -> Classes]
      /\ \A k \in 1..Len(text) : IF runeClasses[k] \in Initiators THEN cl[k] \in Initiators
                                                                  ELSE cl[k] = runeClasses[k]
  <2> DEFINE r == ResolveFSI(runeClasses, pos)
  <2>1. /\ r \in [1..Len(text) -> Classes]
        /\ \A k \in 1..Len(text) : IF runeClasses[k] \in Initiators THEN r[k] \in Initiators
                                                                    ELSE r[k] = runeClasses[k]
    BY <1>1, <1>3, ResolveFSIFacts
  <2>2. cl = r \/ cl = runeClasses
    OBVIOUS
  <2> HIDE DEF r, cl
  <2> QED BY <1>3, <2>1, <2>2
<1>5. e \in Entry /\ e.level \in Int
  BY TopFacts
<1> HIDE DEF cl, e
<1>6. cl[pos] \in Initiators /\ cl[pos] \in Classes
  BY <1>1, <1>4
<1>7. c \in Classes /\ (c \in {"L", "R"} \/ c = cl[pos]) /\ (c \in {"L", "R"} <=> e.override # "neutral")
  BY <1>5, <1>6, OverriddenFacts
<1> HIDE DEF c
<1>8. Settles
  BY <1>1, <1>2, <1>4, <1>5, <1>7, SettlesFacts DEF BD9Inv
<1>9. Class(text[pos]) \in Initiators
  BY <1>1, KindFacts
<1>10. runeClasses'[pos] = c /\ embeddingLevels'[pos] = e.level
  BY <1>1, <1>2, <1>3, <1>4
<1>11. Like(embeddingLevels', runeClasses', pos, e)
  BY <1>7, <1>10 DEF Like
<1> QED BY <1>8, <1>9, <1>11 DEF e

\* An initiator opens an isolate inside all that are open.
LEMMA InitiatorOpens ==
  ASSUME TextInv, Settles, Class(text[pos]) \in Initiators
  PROVE  /\ \A i \in 1..(pos - 1) : Pending(text, i, pos - 1) /\ Delta(text, i, pos - 1) \in Int
                                        /\ Delta(text, i, pos - 1) > 0
               => Pending(text, i, pos) /\ Delta(text, i, pos) = Delta(text, i, pos - 1) + 1
         /\ \A i : Pending(text, i, pos) => i = pos \/ (i \in 1..(pos - 1) /\ Pending(text, i, pos - 1))
         /\ Pending(text, pos, pos) /\ Delta(text, pos, pos) = 1
<1> DEFINE m == pos - 1
<1>1. pos \in 1..Len(text) /\ m \in Nat /\ m + 1 = pos
  BY DEF TextInv, Settles
<1>2. ASSUME NEW i \in 1..m, Pending(text, i, m), Delta(text, i, m) \in Int, Delta(text, i, m) > 0
      PROVE  Pending(text, i, pos) /\ Delta(text, i, pos) = Delta(text, i, m) + 1
  <2>1. Delta(text, i, pos) = Delta(text, i, m) + 1
    BY <1>1, OpenStep
  <2>2. Pending(text, i, pos) <=> Pending(text, i, m) /\ Delta(text, i, pos) > 0
    BY <1>1, OpenStep
  <2> HIDE DEF m
  <2> QED BY <1>2, <2>1, <2>2
<1> HIDE DEF m
<1>3. /\ \A i : Pending(text, i, m + 1) <=>
                  \/ Pending(text, i, m) /\ Delta(text, i, m + 1) > 0
                  \/ i = m + 1 /\ Class(text[i]) \in Initiators
      /\ Delta(text, m + 1, m + 1) = 1
  BY <1>1, PendingStep
<1>4. \A i : Pending(text, i, m) => i \in 1..m
  BY DEF Pending
<1>5. /\ \A i : Pending(text, i, pos) => i = pos \/ (i \in 1..m /\ Pending(text, i, m))
      /\ Pending(text, pos, pos) /\ Delta(text, pos, pos) = 1
  BY <1>1, <1>3, <1>4
<1> QED BY <1>2, <1>5 DEF m

LEMMA PushIsolateStep ==
  ASSUME IInv, BD9Inv, PushIsolate
  PROVE  BD9Inv'
<1>1. /\ Settles /\ Class(text[pos]) \in Initiators
      /\ Like(embeddingLevels', runeClasses', pos, Peek(Stack))
  BY InitiatorSettles DEF BD9Inv
<1>2. /\ pos \in 1..Len(text) /\ pos' = pos + 1 /\ text' = text /\ pos \in Nat
      /\ TextInv' /\ ClassInv' /\ TextInv
  BY <1>1 DEF Settles, BD9Inv
<1>3. UNCHANGED isolatePDIs
  BY DEF PushIsolate
<1>4. MatchedInv'
  BY <1>2, <1>3, MatchedStep DEF BD9Inv
<1>5. ClosedInv'
  <2>1. "PDI" \notin Initiators
    BY DEF Initiators
  <2>2. \A i \in 1..Len(text) : ~Closes(pos, i)
    BY <1>1, <2>1 DEF Closes
  <2> QED BY <1>1, <1>3, <2>2, ClosedStep DEF BD9Inv
<1>6. /\ \A i \in 1..(pos - 1) : Pending(text, i, pos - 1) /\ Delta(text, i, pos - 1) \in Int
                                     /\ Delta(text, i, pos - 1) > 0
               => Pending(text, i, pos) /\ Delta(text, i, pos) = Delta(text, i, pos - 1) + 1
      /\ \A i : Pending(text, i, pos) => i = pos \/ (i \in 1..(pos - 1) /\ Pending(text, i, pos - 1))
      /\ Pending(text, pos, pos) /\ Delta(text, pos, pos) = 1
  BY <1>1, <1>2, InitiatorOpens
<1>7. \A i \in 1..(pos - 1) : Pending(text, i, pos - 1) =>
         /\ Delta(text, i, pos - 1) \in Int
         /\ Pending(text, i, pos) /\ Delta(text, i, pos) = Delta(text, i, pos - 1) + 1
  <2> TAKE i \in 1..(pos - 1)
  <2>1. Delta(text, i, pos - 1) \in Int /\ (Pending(text, i, pos - 1) => Delta(text, i, pos - 1) > 0)
    BY <1>2, OpenFacts
  <2> QED BY <1>6, <2>1
<1>8. IsFiniteSet(Isolates) /\ \A k \in Isolates : IsFiniteSet(Above(k)) /\ Cardinality(Above(k)) \in Nat
  <2>1. IsFiniteSet(Isolates)
    BY IsolatesFinite DEF IInv
  <2>2. \A k \in Isolates : Above(k) \in SUBSET Isolates
    BY DEF Above
  <2> QED BY <2>1, <2>2, FS_Subset, FS_CardinalityType
<1>9. PICK odd \in BOOLEAN :
        \/ /\ NextLevel(Peek(Stack).level, odd) <= MaxDepth /\ NoOverflow
           /\ Stack' = Append(Stack, Status(pos, NextLevel(Peek(Stack).level, odd), "neutral", TRUE))
           /\ UNCHANGED overflowIsolateCount
        \/ /\ overflowIsolateCount' = overflowIsolateCount + 1
           /\ UNCHANGED directionalStatusStack
  <2> DEFINE cl == IF runeClasses[pos] = "FSI" THEN ResolveFSI(runeClasses, pos) ELSE runeClasses
             r  == RightToLeft(cl[pos])
  <2>1. r \in BOOLEAN
    BY DEF RightToLeft
  <2>2. \/ /\ NextLevel(Peek(Stack).level, r) <= MaxDepth /\ NoOverflow
           /\ Stack' = Append(Stack, Status(pos, NextLevel(Peek(Stack).level, r), "neutral", TRUE))
           /\ UNCHANGED overflowIsolateCount
        \/ /\ overflowIsolateCount' = overflowIsolateCount + 1
           /\ UNCHANGED directionalStatusStack
    BY Zenon DEF PushIsolate, Stack
  <2> HIDE DEF r
  <2> QED BY <2>1, <2>2
<1>10. CASE /\ NextLevel(Peek(Stack).level, odd) <= MaxDepth /\ NoOverflow
            /\ Stack' = Append(Stack, Status(pos, NextLevel(Peek(Stack).level, odd), "neutral", TRUE))
            /\ UNCHANGED overflowIsolateCount
  <2>1. PICK l \in Nat \ {0} : l = Len(Stack)
    BY TopFacts
  <2> DEFINE lvl == NextLevel(Peek(Stack).level, odd)
             e   == Status(pos, lvl, "neutral", TRUE)
  <2>2. Peek(Stack).level \in Int /\ lvl \in {Peek(Stack).level + 1, Peek(Stack).level + 2}
    BY TopFacts, NextLevelFacts
  <2>3. Stack' = Append(Stack, Status(pos, lvl, "neutral", TRUE)) /\ lvl <= MaxDepth
    BY <1>10
  <2> HIDE DEF lvl
  <2>4. lvl \in Int /\ Peek(Stack).level < lvl /\ "neutral" \in Override
    BY <2>2 DEF Override
  <2>5. Isolates' = Isolates \cup {l + 1}
    BY <2>1, <1>2, <1>3, <2>3, <2>4, PushInv
  <2>6. l \in Nat \ {0} /\ Peek(Stack) = Stack[l]
    BY <2>1, TopFacts
  <2>7. /\ \A k \in 1..l : Stack'[k] = Stack[k]
        /\ Stack'[l + 1] = e
    <3>1. e \in Entry
      BY <1>2, <2>4 DEF Status, Entry
    <3>2. Stack \in Seq(Entry) /\ Stack' = Append(Stack, e)
      BY <2>3 DEF IInv, BaseInv
    <3> HIDE DEF e
    <3> QED BY <2>1, <3>1, <3>2, AppendProperties
  <2>8. e.index = pos
    BY DEF Status
  <2> HIDE DEF e
  <2>9. overflowIsolateCount = 0 /\ overflowIsolateCount' = 0
    BY <1>10 DEF NoOverflow
  <2>10. ASSUME NEW k \in Isolates
        PROVE  /\ Pending(text, Stack'[k].index, pos)
               /\ Delta(text, Stack'[k].index, pos) = Cardinality(Above(k)') + overflowIsolateCount'
               /\ Like(embeddingLevels', runeClasses', Stack'[k].index, Stack'[k - 1])
    <3>1. /\ k \in 2..l /\ k - 1 \in 1..l
          /\ Stack[k].index \in 1..(pos - 1)
          /\ Pending(text, Stack[k].index, pos - 1)
          /\ Delta(text, Stack[k].index, pos - 1) = Cardinality(Above(k)) + overflowIsolateCount
          /\ Like(embeddingLevels, runeClasses, Stack[k].index, Stack[k - 1])
      BY <1>2, <2>1, OpenFacts
    <3>2. k \in 1..l /\ Stack'[k] = Stack[k] /\ Stack'[k - 1] = Stack[k - 1]
      BY <2>6, <2>7, <3>1
    <3>3. Like(embeddingLevels', runeClasses', Stack[k].index, Stack[k - 1])
      BY <1>1, <1>2, <3>1, LikeStep
    <3>4. Pending(text, Stack[k].index, pos) /\ Delta(text, Stack[k].index, pos) = Cardinality(Above(k)) + 1
      BY <1>7, <1>8, <2>9, <3>1
    <3>5. Cardinality(Above(k)') = Cardinality(Above(k)) + 1
      <4>1. Above(k)' = Above(k) \cup {l + 1}
        BY <2>5, <2>6, <3>2 DEF Above
      <4>2. l + 1 \notin Above(k)
        BY <2>1, <2>6 DEF Above, Isolates, Stack
      <4> QED BY <1>8, <4>1, <4>2, FS_AddElement
    <3> QED BY <1>8, <2>9, <3>2, <3>3, <3>4, <3>5
  <2>11. /\ Pending(text, Stack'[l + 1].index, pos)
         /\ Delta(text, Stack'[l + 1].index, pos) = Cardinality(Above(l + 1)') + overflowIsolateCount'
         /\ Like(embeddingLevels', runeClasses', Stack'[l + 1].index, Stack'[(l + 1) - 1])
    <3>1. Stack'[l + 1].index = pos /\ Stack'[(l + 1) - 1] = Peek(Stack)
      BY <2>6, <2>7, <2>8
    <3>2. Above(l + 1)' = {l + 1}
      <4>1. \A k \in Isolates : k \in 1..l
        BY <2>1 DEF Isolates, Stack
      <4>2. Above(l + 1)' = {n \in Isolates \cup {l + 1} : n >= l + 1}
        BY <2>5 DEF Above
      <4> QED BY <2>6, <4>1, <4>2
    <3>3. Cardinality(Above(l + 1)') = 1
      BY <3>2, FS_Singleton
    <3> QED BY <1>1, <1>6, <2>9, <3>1, <3>3
  <2>12. \A i \in 1..pos : Pending(text, i, pos) => \E k \in Isolates' : Stack'[k].index = i
    <3> TAKE i \in 1..pos
    <3> HAVE Pending(text, i, pos)
    <3>1. CASE i = pos
      BY <2>5, <2>7, <2>8, <3>1
    <3>2. CASE i \in 1..(pos - 1) /\ Pending(text, i, pos - 1)
      <4>1. PICK k \in Isolates : Stack[k].index = i
        BY <1>2, <2>9, <3>2, OpenFacts
      <4>2. k \in 1..l
        BY <2>1 DEF Isolates, Stack
      <4> QED BY <2>5, <2>7, <4>1, <4>2
    <3> QED BY <1>6, <3>1, <3>2
  <2>13. OpenInv' /\ SwallowedInv'
    <3>1. \A k \in Isolates' :
            /\ Pending(text, Stack'[k].index, pos)
            /\ Delta(text, Stack'[k].index, pos) = Cardinality(Above(k)') + overflowIsolateCount'
            /\ Like(embeddingLevels', runeClasses', Stack'[k].index, Stack'[k - 1])
      <4> TAKE k \in Isolates'
      <4>1. CASE k = l + 1
        BY <2>11, <4>1
      <4>2. CASE k \in Isolates
        BY <2>10, <4>2
      <4> QED BY <2>5, <4>1, <4>2
    <3> QED BY <1>1, <2>12, <3>1, DescribedNext
  <2> QED BY <1>2, <1>4, <1>5, <2>13 DEF BD9Inv
<1>11. CASE /\ overflowIsolateCount' = overflowIsolateCount + 1
            /\ UNCHANGED directionalStatusStack
  <2>1. Stack' = Stack /\ Isolates' = Isolates /\ overflowIsolateCount \in Nat
    BY <1>11 DEF Stack, Isolates, IInv, BaseInv
  <2>2. ASSUME NEW k \in Isolates'
        PROVE  /\ Pending(text, Stack'[k].index, pos)
               /\ Delta(text, Stack'[k].index, pos) = Cardinality(Above(k)') + overflowIsolateCount'
               /\ Like(embeddingLevels', runeClasses', Stack'[k].index, Stack'[k - 1])
    <3>1. /\ Stack[k].index \in 1..(pos - 1)
          /\ Pending(text, Stack[k].index, pos - 1)
          /\ Delta(text, Stack[k].index, pos - 1) = Cardinality(Above(k)) + overflowIsolateCount
          /\ Like(embeddingLevels, runeClasses, Stack[k].index, Stack[k - 1])
      BY <1>2, <2>1, OpenFacts
    <3>2. Like(embeddingLevels', runeClasses', Stack[k].index, Stack[k - 1])
      BY <1>1, <1>2, <3>1, LikeStep
    <3>3. Above(k)' = Above(k) /\ Cardinality(Above(k)) \in Nat
      BY <1>8, <2>1 DEF Above
    <3>4. /\ Pending(text, Stack[k].index, pos)
          /\ Delta(text, Stack[k].index, pos) = Cardinality(Above(k)) + overflowIsolateCount + 1
      BY <1>7, <3>1
    <3> QED BY <1>11, <2>1, <3>2, <3>3, <3>4
  <2>3. ASSUME NEW i \in 1..pos, Pending(text, i, pos), \A k \in Isolates' : Stack'[k].index # i
        PROVE  /\ Delta(text, i, pos) <= overflowIsolateCount'
               /\ Like(embeddingLevels', runeClasses', i, Peek(Stack'))
    <3>1. CASE i = pos
      BY <1>1, <1>6, <1>11, <2>1, <3>1
    <3>2. CASE i \in 1..(pos - 1) /\ Pending(text, i, pos - 1)
      <4>1. /\ Delta(text, i, pos - 1) <= overflowIsolateCount
            /\ Like(embeddingLevels, runeClasses, i, Peek(Stack))
        BY <1>2, <2>1, <2>3, <3>2, OpenFacts
      <4>2. Like(embeddingLevels', runeClasses', i, Peek(Stack))
        BY <1>1, <1>2, <3>2, <4>1, LikeStep
      <4>3. Delta(text, i, pos) = Delta(text, i, pos - 1) + 1 /\ Delta(text, i, pos - 1) \in Int
        BY <1>7, <3>2
      <4> QED BY <1>11, <2>1, <4>1, <4>2, <4>3
    <3> QED BY <1>6, <2>3, <3>1, <3>2
  <2>4. OpenInv' /\ SwallowedInv'
    BY <1>1, <2>2, <2>3, DescribedNext
  <2> QED BY <1>2, <1>4, <1>5, <2>4 DEF BD9Inv
<1> QED BY <1>9, <1>10, <1>11

\* What a PDI does to the data: it has the level of the top that it leaves.
LEMMA PDISettles ==
  ASSUME IInv, TextInv, ClassInv, PopIsolate
  PROVE  /\ Settles /\ Class(text[pos]) = "PDI"
         /\ Like(embeddingLevels', runeClasses', pos, Peek(Stack'))
<1>1. /\ pos \in 1..Len(text) /\ pos' = pos + 1 /\ UNCHANGED paragraph
      /\ runeClasses[pos] = "PDI"
  BY DEF PopIsolate, Current
<1> DEFINE e == Peek(Stack')
           c == Overridden(e, runeClasses[pos])
<1>2. /\ runeClasses' = [runeClasses EXCEPT ![pos] = c]
      /\ embeddingLevels' = [embeddingLevels EXCEPT ![pos] = e.level]
  BY DEF PopIsolate, Stack
<1>3. /\ runeClasses \in [1..Len(text) -> Classes] /\ Len(text) \in Nat
      /\ embeddingLevels \in [1..Len(text) -> Int] /\ runeClasses[pos] \in Classes
  BY <1>1, LenProperties DEF TextInv
<1>4. e \in Entry /\ e.level \in Int
  <2>1. Stack' \in Seq(Entry) /\ Len(Stack') >= 1
    BY PopIsolateInv DEF IInv, BaseInv, LevelInv
  <2> DEFINE s == Stack'
  <2>2. s \in Seq(Entry) /\ Len(s) \in Nat \ {0}
    <3>1. s \in Seq(Entry) /\ Len(s) >= 1
      BY <2>1
    <3> HIDE DEF s
    <3> QED BY <3>1, LenProperties
  <2>3. e = s[Len(s)]
    BY DEF Peek
  <2> HIDE DEF s, e
  <2>4. e \in Entry
    BY <2>2, <2>3, ElementOfSeq
  <2> QED BY <2>4 DEF Entry
<1> HIDE DEF e
<1>5. c \in Classes /\ (c \in {"L", "R"} \/ c = runeClasses[pos]) /\ (c \in {"L", "R"} <=> e.override # "neutral")
  BY <1>1, <1>3, <1>4, OverriddenFacts
<1> HIDE DEF c
<1>6. Settles
  BY <1>1, <1>2, <1>3, <1>4, <1>5, SettlesFacts
<1>7. Class(text[pos]) = "PDI"
  BY <1>1, KindFacts
<1>8. runeClasses'[pos] = c /\ embeddingLevels'[pos] = e.level
  BY <1>1, <1>2, <1>3
<1>9. Like(embeddingLevels', runeClasses', pos, e)
  BY <1>5, <1>8 DEF Like
<1> QED BY <1>6, <1>7, <1>9 DEF e

\* A PDI closes what has nothing else open in it.
LEMMA PDICloses ==
  ASSUME IInv, BD9Inv, pos \in 1..Len(text), Class(text[pos]) = "PDI"
  PROVE  /\ \A i \in 1..(pos - 1) :
               /\ Pending(text, i, pos) <=> Pending(text, i, pos - 1) /\ Delta(text, i, pos - 1) > 1
               /\ Delta(text, i, pos) = Delta(text, i, pos - 1) - 1
               /\ Delta(text, i, pos - 1) \in Int
         /\ \A i : Pending(text, i, pos) => i \in 1..(pos - 1)
         /\ \A i \in Nat \ {0} :
               Closes(pos, i) <=> Pending(text, i, pos - 1) /\ Delta(text, i, pos - 1) = 1
         /\ \A i : Closes(pos, i) => i < pos
<1>1. TextInv
  BY DEF BD9Inv
<1>2. ASSUME NEW i \in 1..(pos - 1)
      PROVE  /\ Pending(text, i, pos) <=> Pending(text, i, pos - 1) /\ Delta(text, i, pos - 1) > 1
             /\ Delta(text, i, pos) = Delta(text, i, pos - 1) - 1
             /\ Delta(text, i, pos - 1) \in Int
  <2>1. /\ Pending(text, i, pos) <=> Pending(text, i, pos - 1) /\ Delta(text, i, pos) > 0
        /\ Delta(text, i, pos) = Delta(text, i, pos - 1) - 1
    BY <1>1, OpenStep
  <2>2. Delta(text, i, pos - 1) \in Int
    BY OpenFacts
  <2> QED BY <2>1, <2>2
<1>3. \A i : Pending(text, i, pos) => i \in 1..(pos - 1)
  <2>1. "PDI" \notin Initiators
    BY DEF Initiators
  <2> QED BY <1>1, <2>1 DEF Pending, TextInv
<1>4. ASSUME NEW i \in Nat \ {0}
      PROVE  Closes(pos, i) <=> Pending(text, i, pos - 1) /\ Delta(text, i, pos - 1) = 1
  <2> DEFINE m == pos - 1
  <2>1. m \in Nat /\ pos = m + 1
    OBVIOUS
  <2> HIDE DEF m
  <2>2. Closes(m + 1, i) <=>
            Class(text[m + 1]) = "PDI" /\ Pending(text, i, m) /\ Delta(text, i, m) = 1
    BY <2>1, ClosesFacts
  <2>3. pos - 1 = m
    BY DEF m
  <2> QED BY <2>1, <2>2, <2>3
<1>5. \A i : Closes(pos, i) => i < pos
  BY DEF Closes
<1> QED BY <1>2, <1>3, <1>4, <1>5

\* A PDI that closes an initiator that overflowed.
LEMMA SwallowedStep ==
  ASSUME IInv, BD9Inv, PopIsolate, overflowIsolateCount > 0,
         overflowIsolateCount' = overflowIsolateCount - 1,
         UNCHANGED <<directionalStatusStack, isolatePDIs>>
  PROVE  BD9Inv'
<1>1. /\ Settles /\ Class(text[pos]) = "PDI"
      /\ Like(embeddingLevels', runeClasses', pos, Peek(Stack))
  BY PDISettles DEF BD9Inv, Stack
<1>2. /\ pos \in 1..Len(text) /\ text' = text /\ TextInv' /\ ClassInv' /\ TextInv /\ ClosedInv
      /\ Stack' = Stack /\ Isolates' = Isolates /\ overflowIsolateCount \in Nat
  BY <1>1 DEF Settles, BD9Inv, Isolates, Stack, IInv, BaseInv
<1>3. MatchedInv'
  BY <1>2, MatchedStep DEF BD9Inv
<1>4. /\ \A i \in 1..(pos - 1) :
            /\ Pending(text, i, pos) <=> Pending(text, i, pos - 1) /\ Delta(text, i, pos - 1) > 1
            /\ Delta(text, i, pos) = Delta(text, i, pos - 1) - 1
            /\ Delta(text, i, pos - 1) \in Int
      /\ \A i : Pending(text, i, pos) => i \in 1..(pos - 1)
      /\ \A i \in Nat \ {0} :
            Closes(pos, i) <=> Pending(text, i, pos - 1) /\ Delta(text, i, pos - 1) = 1
      /\ \A i : Closes(pos, i) => i < pos
  BY <1>1, <1>2, PDICloses
<1>5. ASSUME NEW k \in Isolates
      PROVE  /\ Stack[k].index \in 1..(pos - 1)
             /\ Pending(text, Stack[k].index, pos - 1)
             /\ Delta(text, Stack[k].index, pos - 1) = Cardinality(Above(k)) + overflowIsolateCount
             /\ Like(embeddingLevels, runeClasses, Stack[k].index, Stack[k - 1])
             /\ Cardinality(Above(k)) \in Nat /\ Cardinality(Above(k)) > 0
  <2>1. IsFiniteSet(Isolates) /\ Above(k) \in SUBSET Isolates /\ k \in Above(k)
    BY IsolatesFinite DEF IInv, Above, Isolates
  <2>2. IsFiniteSet(Above(k)) /\ Above(k) # {}
    BY <2>1, FS_Subset
  <2>3. Cardinality(Above(k)) \in Nat /\ Cardinality(Above(k)) # 0
    BY <2>2, FS_CardinalityType, FS_EmptySet
  <2> QED BY <1>2, <2>3, OpenFacts
<1>6. ASSUME NEW k \in Isolates'
      PROVE  /\ Pending(text, Stack'[k].index, pos)
             /\ Delta(text, Stack'[k].index, pos) = Cardinality(Above(k)') + overflowIsolateCount'
             /\ Like(embeddingLevels', runeClasses', Stack'[k].index, Stack'[k - 1])
  <2>1. k \in Isolates /\ Above(k)' = Above(k)
    BY <1>2 DEF Above
  <2>2. Like(embeddingLevels', runeClasses', Stack[k].index, Stack[k - 1])
    BY <1>1, <1>2, <1>5, <2>1, LikeStep
  <2>3. /\ Pending(text, Stack[k].index, pos)
        /\ Delta(text, Stack[k].index, pos) = Cardinality(Above(k)) + (overflowIsolateCount - 1)
    BY <1>2, <1>4, <1>5, <2>1
  <2> QED BY <1>2, <2>1, <2>2, <2>3
<1>7. ASSUME NEW i \in 1..(pos - 1), Pending(text, i, pos - 1), \A k \in Isolates : Stack[k].index # i
      PROVE  /\ Delta(text, i, pos - 1) <= overflowIsolateCount
             /\ Like(embeddingLevels, runeClasses, i, Peek(Stack))
             /\ Like(embeddingLevels', runeClasses', i, Peek(Stack))
  <2>1. /\ Delta(text, i, pos - 1) <= overflowIsolateCount
        /\ Like(embeddingLevels, runeClasses, i, Peek(Stack))
    BY <1>2, <1>7, OpenFacts
  <2>2. Like(embeddingLevels', runeClasses', i, Peek(Stack))
    BY <1>1, <1>2, <2>1, LikeStep
  <2> QED BY <2>1, <2>2
<1>8. ASSUME NEW i \in 1..pos, Pending(text, i, pos), \A k \in Isolates' : Stack'[k].index # i
      PROVE  /\ Delta(text, i, pos) <= overflowIsolateCount'
             /\ Like(embeddingLevels', runeClasses', i, Peek(Stack'))
  <2>1. i \in 1..(pos - 1) /\ Pending(text, i, pos - 1) /\ \A k \in Isolates : Stack[k].index # i
    BY <1>2, <1>4, <1>8
  <2>2. /\ Delta(text, i, pos - 1) <= overflowIsolateCount
        /\ Like(embeddingLevels', runeClasses', i, Peek(Stack))
    BY <1>7, <2>1
  <2> QED BY <1>2, <1>4, <2>1, <2>2
<1>9. OpenInv' /\ SwallowedInv'
  BY <1>1, <1>6, <1>8, DescribedNext
<1>10. ASSUME NEW i \in 1..Len(text), Closes(pos, i)
       PROVE  Agree(embeddingLevels', runeClasses', isolatePDIs', i, pos)
  <2>1. i \in 1..(pos - 1) /\ Pending(text, i, pos - 1) /\ Delta(text, i, pos - 1) = 1
    <3>1. i \in Nat \ {0} /\ i < pos /\ pos \in Nat
      BY <1>2, <1>4, <1>10
    <3> QED BY <1>4, <1>10, <3>1
  <2>2. \A k \in Isolates : Stack[k].index # i
    <3>1. \A k \in Isolates : Delta(text, Stack[k].index, pos - 1) > 1
      BY <1>2, <1>5
    <3> QED BY <2>1, <3>1
  <2>3. Like(embeddingLevels', runeClasses', i, Peek(Stack))
    BY <1>7, <2>1, <2>2
  <2>4. Peek(Stack).level >= MaxDepth - 1 /\ Peek(Stack).level \in Int
    <3>1. ~NoOverflow
      BY <1>2 DEF NoOverflow
    <3> QED BY <3>1, TopFacts DEF IInv, OverflowMeansFull, Stack
  <2>5. /\ embeddingLevels'[i] = Peek(Stack).level /\ embeddingLevels'[pos] = Peek(Stack).level
        /\ runeClasses'[pos] \in {"L", "R"} <=> runeClasses'[i] \in {"L", "R"}
    BY <1>1, <2>3 DEF Like
  <2>6. ~(embeddingLevels'[i] + 2 <= MaxDepth)
    BY <2>4, <2>5, DepthAssumption
  <2> QED BY <2>5, <2>6 DEF Agree
<1>11. ClosedInv'
  BY <1>1, <1>2, <1>10, ClosedStep
<1> QED BY <1>2, <1>3, <1>9, <1>11 DEF BD9Inv

\* A PDI that closes nothing.
LEMMA StrayStep ==
  ASSUME IInv, BD9Inv, PopIsolate, overflowIsolateCount = 0, validIsolateCount = 0,
         UNCHANGED <<overflowIsolateCount, directionalStatusStack, isolatePDIs>>
  PROVE  BD9Inv'
<1>1. Settles /\ Class(text[pos]) = "PDI"
  BY PDISettles DEF BD9Inv
<1>2. /\ pos \in 1..Len(text) /\ text' = text /\ TextInv' /\ ClassInv' /\ TextInv /\ ClosedInv
  BY <1>1 DEF Settles, BD9Inv
<1>3. MatchedInv'
  BY <1>2, MatchedStep DEF BD9Inv
<1>4. Isolates = {} /\ Isolates' = {}
  <2>1. Isolates = {}
    BY IsolatesFinite, FS_EmptySet DEF IInv, CountInv
  <2> QED BY <2>1 DEF Isolates
<1>5. \A i \in 1..(pos - 1) : ~Pending(text, i, pos - 1)
  BY <1>2, <1>4, OpenFacts
<1>6. /\ \A i \in 1..(pos - 1) : ~Pending(text, i, pos)
      /\ \A i : Pending(text, i, pos) => i \in 1..(pos - 1)
      /\ \A i \in Nat \ {0} : Closes(pos, i) => Pending(text, i, pos - 1)
      /\ \A i : Closes(pos, i) => i < pos
  BY <1>1, <1>2, <1>5, PDICloses
<1>7. OpenInv' /\ SwallowedInv'
  BY <1>1, <1>4, <1>6, DescribedNext
<1>8. \A i \in 1..Len(text) : ~Closes(pos, i)
  <2> TAKE i \in 1..Len(text)
  <2>1. i \in Nat \ {0} /\ pos \in Nat /\ (i < pos => i \in 1..(pos - 1))
    BY <1>2
  <2> QED BY <1>5, <1>6, <2>1
<1>9. ClosedInv'
  BY <1>1, <1>2, <1>8, ClosedStep
<1> QED BY <1>2, <1>3, <1>7, <1>9 DEF BD9Inv

\* A PDI that is matched with the last isolate on the stack.
LEMMA CloseStep ==
  ASSUME IInv, BD9Inv, PopIsolate, overflowIsolateCount = 0, validIsolateCount # 0,
         Stack' = MatchedStack(Stack),
         NEW x, x = Stack[LastIsolate(Stack)].index,
         isolatePDIs' = [k \in DOMAIN isolatePDIs \cup {x} |-> IF k = x THEN pos ELSE isolatePDIs[k]],
         UNCHANGED overflowIsolateCount
  PROVE  BD9Inv'
<1>1. /\ Settles /\ Class(text[pos]) = "PDI"
      /\ Like(embeddingLevels', runeClasses', pos, Peek(Stack'))
  BY PDISettles DEF BD9Inv
<1>2. /\ pos \in 1..Len(text) /\ pos' = pos + 1 /\ text' = text
      /\ TextInv' /\ ClassInv' /\ TextInv /\ ClosedInv
  BY <1>1 DEF Settles, BD9Inv
<1>3. Isolates # {} /\ IsFiniteSet(Isolates) /\ Stack \in Seq(Entry) /\ Len(Stack) \in Nat \ {0}
  BY IsolatesFinite, FS_EmptySet, TopFacts DEF IInv, CountInv, BaseInv
<1>4. PICK last : last = LastIsolate(Stack)
  OBVIOUS
<1>5. /\ last \in 1..Len(Stack) /\ last \in Isolates
      /\ \A n \in Isolates : n <= last
  <2>1. \E k \in 1..Len(Stack) : Stack[k].isolate
    BY <1>3 DEF Isolates, Stack
  <2>2. /\ last \in 1..Len(Stack) /\ Stack[last].isolate
        /\ \A n \in 1..Len(Stack) : Stack[n].isolate => n <= last
    BY <1>3, <1>4, <2>1, LastIsolateFacts
  <2> QED BY <2>2 DEF Isolates, Stack
<1>6. x = Stack[last].index /\ last - 1 \in 1..Len(Stack) /\ Stack' = SubSeq(Stack, 1, last - 1)
  <2>1. last \in 2..Len(Stack)
    BY <1>2, <1>5, OpenFacts
  <2> QED BY <1>3, <1>4, <2>1 DEF MatchedStack
<1>7. /\ Len(Stack') = last - 1
      /\ \A k \in 1..(last - 1) : Stack'[k] = Stack[k]
      /\ Isolates' = {k \in Isolates : k <= last - 1}
  BY <1>2, <1>6, PopsInv
<1>8. Peek(Stack') = Stack[last - 1]
  <2>1. last - 1 \in 1..(last - 1)
    BY <1>5, <1>6
  <2> QED BY <1>7, <2>1 DEF Peek
<1>9. Isolates' = Isolates \ {last}
  <2>1. \A k \in Isolates : k \in Int
    BY DEF Isolates
  <2> QED BY <1>5, <1>7, <2>1
<1>10. /\ \A i \in 1..(pos - 1) :
             /\ Pending(text, i, pos) <=> Pending(text, i, pos - 1) /\ Delta(text, i, pos - 1) > 1
             /\ Delta(text, i, pos) = Delta(text, i, pos - 1) - 1
             /\ Delta(text, i, pos - 1) \in Int
       /\ \A i : Pending(text, i, pos) => i \in 1..(pos - 1)
       /\ \A i \in Nat \ {0} :
             Closes(pos, i) <=> Pending(text, i, pos - 1) /\ Delta(text, i, pos - 1) = 1
       /\ \A i : Closes(pos, i) => i < pos
  BY <1>1, <1>2, PDICloses
<1>11. ASSUME NEW k \in Isolates
       PROVE  /\ k \in 2..Len(Stack)
              /\ Stack[k].index \in 1..(pos - 1)
              /\ Pending(text, Stack[k].index, pos - 1)
              /\ Delta(text, Stack[k].index, pos - 1) = Cardinality(Above(k))
              /\ Like(embeddingLevels, runeClasses, Stack[k].index, Stack[k - 1])
              /\ IsFiniteSet(Above(k)) /\ Cardinality(Above(k)) \in Nat
  <2>1. Above(k) \in SUBSET Isolates
    BY DEF Above
  <2>2. IsFiniteSet(Above(k)) /\ Cardinality(Above(k)) \in Nat
    BY <1>3, <2>1, FS_Subset, FS_CardinalityType
  <2>3. /\ k \in 2..Len(Stack)
        /\ Stack[k].index \in 1..(pos - 1)
        /\ Pending(text, Stack[k].index, pos - 1)
        /\ Delta(text, Stack[k].index, pos - 1) = Cardinality(Above(k)) + overflowIsolateCount
        /\ Like(embeddingLevels, runeClasses, Stack[k].index, Stack[k - 1])
    BY <1>2, OpenFacts
  <2> QED BY <2>2, <2>3
<1>12. Delta(text, x, pos - 1) = 1
  <2>1. Above(last) = {last}
    <3>1. \A k \in Isolates : k \in Int
      BY DEF Isolates
    <3>2. Above(last) = {n \in Isolates : n >= last}
      BY DEF Above
    <3>3. last \in Int /\ last \in Isolates /\ \A n \in Isolates : n \in Int /\ n <= last
      BY <1>5, <3>1
    <3>4. \A n \in Isolates : n >= last <=> n = last
      BY <3>3
    <3> QED BY <3>2, <3>3, <3>4
  <2> QED BY <1>5, <1>6, <1>11, <2>1, FS_Singleton
<1>13. ASSUME NEW k \in Isolates'
       PROVE  /\ Pending(text, Stack'[k].index, pos)
              /\ Delta(text, Stack'[k].index, pos) = Cardinality(Above(k)') + overflowIsolateCount'
              /\ Like(embeddingLevels', runeClasses', Stack'[k].index, Stack'[k - 1])
  <2>1. k \in Isolates /\ k # last /\ k \in 1..(last - 1)
    BY <1>5, <1>7, <1>9 DEF Isolates
  <2>2. k - 1 \in 1..(last - 1)
    BY <1>3, <1>5, <1>11, <2>1
  <2>3. Stack'[k] = Stack[k] /\ Stack'[k - 1] = Stack[k - 1]
    BY <1>7, <2>1, <2>2
  <2>4. Like(embeddingLevels', runeClasses', Stack[k].index, Stack[k - 1])
    BY <1>1, <1>2, <1>11, <2>1, LikeStep
  <2>5. Above(k)' = Above(k) \ {last} /\ last \in Above(k)
    BY <1>5, <1>9, <2>1 DEF Above
  <2>6. Cardinality(Above(k)') = Cardinality(Above(k)) - 1 /\ Cardinality(Above(k)') \in Nat
    <3>1. IsFiniteSet(Above(k))
      BY <1>11, <2>1
    <3> QED BY <2>5, <3>1, FS_RemoveElement, FS_CardinalityType
  <2>7. Cardinality(Above(k)') # 0
    <3>1. k \in Above(k)'
      <4>1. k \in Above(k)
        BY <2>1 DEF Above, Isolates
      <4> QED BY <2>1, <2>5, <4>1
    <3>2. IsFiniteSet(Above(k)')
      BY <1>11, <2>1, <2>5, FS_RemoveElement
    <3> QED BY <3>1, <3>2, FS_EmptySet
  <2>8. /\ Pending(text, Stack[k].index, pos)
        /\ Delta(text, Stack[k].index, pos) = Cardinality(Above(k)) - 1
    BY <1>10, <1>11, <2>1, <2>6, <2>7
  <2> QED BY <2>3, <2>4, <2>6, <2>8
<1>14. ASSUME NEW i \in 1..(pos - 1), Pending(text, i, pos - 1)
       PROVE  i = x \/ \E k \in Isolates' : Stack'[k].index = i
  <2>1. PICK k \in Isolates : Stack[k].index = i
    BY <1>2, <1>14, OpenFacts, SMTT(20)
  <2>2. CASE k = last
    BY <1>6, <2>1, <2>2
  <2>3. CASE k # last
    <3>1. k \in Isolates' /\ k \in 1..(last - 1)
      BY <1>7, <1>9, <2>3 DEF Isolates
    <3> QED BY <1>7, <2>1, <3>1
  <2> QED BY <2>2, <2>3
<1>15. \A i \in 1..pos : Pending(text, i, pos) => \E k \in Isolates' : Stack'[k].index = i
  <2> TAKE i \in 1..pos
  <2> HAVE Pending(text, i, pos)
  <2>1. i \in 1..(pos - 1) /\ Pending(text, i, pos - 1) /\ Delta(text, i, pos - 1) > 1
    BY <1>10
  <2>2. i # x
    BY <1>12, <2>1
  <2> QED BY <1>14, <2>1, <2>2
<1>16. OpenInv' /\ SwallowedInv'
  BY <1>1, <1>13, <1>15, DescribedNext
<1>17. x \in 1..(pos - 1) /\ Closes(pos, x)
  <2>1. x \in 1..(pos - 1) /\ Pending(text, x, pos - 1)
    BY <1>5, <1>6, <1>11
  <2> QED BY <1>10, <1>12, <2>1
<1>18. MatchedInv'
  <2>1. \A i, j : Closes(j, i)' <=> Closes(j, i)
    BY <1>2 DEF Closes, CountIn
  <2>2. \A i \in DOMAIN isolatePDIs' : Closes(isolatePDIs'[i], i)
    <3> TAKE i \in DOMAIN isolatePDIs'
    <3>1. CASE i = x
      BY <1>17, <3>1
    <3>2. CASE i # x
      <4>1. i \in DOMAIN isolatePDIs /\ isolatePDIs'[i] = isolatePDIs[i]
        BY <3>2
      <4> QED BY <4>1 DEF BD9Inv, MatchedInv
    <3> QED BY <3>1, <3>2
  <2> QED BY <2>1, <2>2 DEF MatchedInv
<1>19. ASSUME NEW i \in 1..Len(text), Closes(pos, i)
       PROVE  Agree(embeddingLevels', runeClasses', isolatePDIs', i, pos)
  <2>1. i \in 1..(pos - 1) /\ Pending(text, i, pos - 1) /\ Delta(text, i, pos - 1) = 1
    <3>1. i \in Nat \ {0} /\ i < pos /\ pos \in Nat
      BY <1>2, <1>10, <1>19
    <3> QED BY <1>10, <1>19, <3>1
  <2>2. i = x
    <3>1. CASE \E k \in Isolates' : Stack'[k].index = i
      BY <1>10, <1>13, <2>1, <3>1
    <3> QED BY <1>14, <2>1, <3>1
  <2>3. Like(embeddingLevels, runeClasses, i, Stack[last - 1])
    BY <1>5, <1>6, <1>11, <2>2
  <2>4. Like(embeddingLevels', runeClasses', i, Stack[last - 1])
    BY <1>1, <1>2, <2>1, <2>3, LikeStep
  <2>5. Like(embeddingLevels', runeClasses', pos, Stack[last - 1])
    BY <1>1, <1>8
  <2>6. i \in DOMAIN isolatePDIs'
    BY <2>2
  <2> QED BY <2>4, <2>5, <2>6 DEF Agree, Like
<1>20. ClosedInv'
  <2>1. DOMAIN isolatePDIs \subseteq DOMAIN isolatePDIs'
    OBVIOUS
  <2> QED BY <1>1, <1>2, <1>19, <2>1, ClosedStep
<1> QED BY <1>2, <1>16, <1>18, <1>20 DEF BD9Inv

LEMMA PopIsolateStep ==
  ASSUME IInv, BD9Inv, PopIsolate
  PROVE  BD9Inv'
<1>1. \/ /\ overflowIsolateCount > 0
         /\ overflowIsolateCount' = overflowIsolateCount - 1
         /\ UNCHANGED <<directionalStatusStack, isolatePDIs>>
      \/ /\ overflowIsolateCount = 0 /\ validIsolateCount = 0
         /\ UNCHANGED <<overflowIsolateCount, directionalStatusStack, isolatePDIs>>
      \/ /\ overflowIsolateCount = 0 /\ validIsolateCount # 0
         /\ Stack' = MatchedStack(Stack)
         /\ isolatePDIs' = [k \in DOMAIN isolatePDIs \cup {Stack[LastIsolate(Stack)].index} |->
                               IF k = Stack[LastIsolate(Stack)].index THEN pos ELSE isolatePDIs[k]]
         /\ UNCHANGED overflowIsolateCount
  BY Zenon DEF PopIsolate, counters, Stack
<1> QED BY <1>1, SwallowedStep, StrayStep, CloseStep

\* Removing the formatting characters leaves initiators and PDIs alone.
LEMMA RemoveStep ==
  ASSUME IInv, BD9Inv, RemoveFormatting
  PROVE  BD9Inv'
<1>1. /\ pos = Len(text) + 1 /\ pos' = pos + 1 /\ UNCHANGED <<paragraph, runeClasses, isolatePDIs>>
      /\ embeddingLevels' = [i \in 1..Len(text) |->
                                IF runeClasses[i] \in Removed THEN -1 ELSE embeddingLevels[i]]
      /\ Len(text) \in Nat /\ text' = text
  BY LenProperties DEF RemoveFormatting, paragraph, BD9Inv, TextInv
<1>2. TextInv'
  <2>1. embeddingLevels' \in [1..Len(text) -> Int]
    BY <1>1 DEF BD9Inv, TextInv
  <2> QED BY <1>1, <2>1 DEF BD9Inv, TextInv, paragraph
<1>3. ClassInv'
  <2>1. \A q \in 1..Len(text) : q < pos /\ ~(q >= pos + 1)
    BY <1>1
  <2> QED BY <1>1, <2>1 DEF BD9Inv, ClassInv
<1>4. OpenInv' /\ SwallowedInv'
  BY <1>1 DEF OpenInv, SwallowedInv
<1>5. MatchedInv'
  BY <1>1, MatchedStep DEF BD9Inv
<1>6. ClosedInv'
  <2>1. \A i, j : Closes(j, i)' <=> Closes(j, i)
    BY <1>1 DEF Closes, CountIn
  <2>2. ASSUME NEW i \in 1..Len(text), NEW j \in 1..Len(text), Closes(j, i)
        PROVE  Agree(embeddingLevels', runeClasses', isolatePDIs', i, j)
    <3>1. i < pos /\ j < pos
      BY <1>1
    <3>2. Class(text[i]) \in Initiators /\ Class(text[j]) = "PDI"
      BY <2>2 DEF Closes
    <3>3. /\ runeClasses[i] \in Initiators \cup {"PDI", "L", "R"}
          /\ runeClasses[j] \in Initiators \cup {"PDI", "L", "R"}
      BY <3>1, <3>2 DEF BD9Inv, ClassInv
    <3>4. runeClasses[i] \notin Removed /\ runeClasses[j] \notin Removed
      BY <3>3 DEF Removed, Embeddings, Overrides, Initiators
    <3>5. embeddingLevels'[i] = embeddingLevels[i] /\ embeddingLevels'[j] = embeddingLevels[j]
      BY <1>1, <3>4
    <3>6. Agree(embeddingLevels, runeClasses, isolatePDIs, i, j)
      BY <2>2, <3>1 DEF BD9Inv, ClosedInv
    <3> QED BY <1>1, <3>5, <3>6 DEF Agree
  <2> QED BY <1>1, <2>1, <2>2 DEF ClosedInv
<1> QED BY <1>2, <1>3, <1>4, <1>5, <1>6 DEF BD9Inv

LEMMA InitBD9 == Init => BD9Inv
<1> SUFFICES ASSUME Init PROVE BD9Inv
  OBVIOUS
<1>1. text \in Seq(Runes) /\ Len(text) \in Nat /\ \A q \in 1..Len(text) : text[q] \in Runes
  <2>1. text \in Seq(Runes)
    BY TextsAssumption DEF Init
  <2> QED BY <2>1, LenProperties, ElementOfSeq
<1>2. \A q \in 1..Len(text) : runeClasses[q] = Class(text[q]) /\ runeClasses[q] \in Classes
  BY <1>1, ClassFacts DEF Init
<1>3. pos = 1 /\ DOMAIN isolatePDIs = {}
  BY DEF Init
<1>4. TextInv
  <2>1. runeClasses = [q \in 1..Len(text) |-> Class(text[q])]
    BY DEF Init
  <2>2. runeClasses \in [1..Len(text) -> Classes]
    BY <1>2, <2>1
  <2>3. embeddingLevels \in [1..Len(text) -> Int]
    BY DEF Init
  <2>4. paragraphEmbeddingLevel \in {0, 1}
    BY DEF Init
  <2> QED BY <1>1, <1>3, <2>2, <2>3, <2>4 DEF TextInv
<1>5. ClassInv
  BY <1>2, <1>3 DEF ClassInv
<1>6. Isolates = {}
  <2>1. directionalStatusStack = <<Status(0, paragraphEmbeddingLevel, "neutral", FALSE)>>
    BY DEF Init
  <2>2. ~directionalStatusStack[1].isolate /\ Len(directionalStatusStack) = 1
    BY <2>1 DEF Status
  <2> QED BY <2>2 DEF Isolates
<1>7. OpenInv /\ SwallowedInv
  BY <1>3, <1>6 DEF OpenInv, SwallowedInv
<1>8. MatchedInv
  BY <1>3 DEF MatchedInv
<1>9. ClosedInv
  BY <1>3 DEF ClosedInv
<1> QED BY <1>4, <1>5, <1>7, <1>8, <1>9 DEF BD9Inv

LEMMA StepBD9 == IInv /\ BD9Inv /\ [Next]_vars => BD9Inv'
<1> SUFFICES ASSUME IInv, BD9Inv, [Next]_vars PROVE BD9Inv'
  OBVIOUS
<1>1. CASE UNCHANGED vars
  <2>1. \A i, j : Closes(j, i)' <=> Closes(j, i)
    BY <1>1 DEF Closes, CountIn, vars
  <2>2. \A k : Above(k)' = Above(k)
    BY <1>1 DEF Above, Isolates, vars
  <2>3. TextInv' /\ ClassInv' /\ MatchedInv' /\ ClosedInv'
    BY <1>1, <2>1 DEF BD9Inv, TextInv, ClassInv, MatchedInv, ClosedInv, vars
  <2>4. OpenInv' /\ SwallowedInv'
    BY <1>1, <2>2 DEF BD9Inv, OpenInv, SwallowedInv, Isolates, Stack, vars
  <2> QED BY <2>3, <2>4 DEF BD9Inv
<1> QED BY <1>1, PlainActions, PushIsolateStep, PopIsolateStep, RemoveStep DEF Next

\* When the explicit levels are done, an initiator is matched with the PDI that
\* closes it by BD9 and none other, each PDI is back at the level and the
\* override of its initiator, and only initiators near the depth limit go
\* unmatched: for every text and every depth (bidi.go:429-548).
THEOREM IsolatesMatchBD9 == Spec => []IsolatesMatch
<1>1. Spec => []BD9Inv
  BY InitBD9, StepBD9, Invariance, PTL DEF Spec
<1>2. ASSUME BD9Inv PROVE IsolatesMatch
  <2>1. DOMAIN text = 1..Len(text) /\ Len(text) \in Nat
    BY <1>2, LenProperties DEF BD9Inv, TextInv
  <2>2. ASSUME Explicit, NEW i \in DOMAIN text, NEW j \in DOMAIN text, Closes(j, i)
        PROVE  /\ embeddingLevels[i] = embeddingLevels[j]
               /\ runeClasses[j] \in {"L", "R"} <=> runeClasses[i] \in {"L", "R"}
               /\ embeddingLevels[i] + 2 <= MaxDepth => i \in DOMAIN isolatePDIs
    <3>1. i \in 1..Len(text) /\ j \in 1..Len(text) /\ j < pos
      BY <2>1, <2>2 DEF Explicit
    <3>2. Agree(embeddingLevels, runeClasses, isolatePDIs, i, j)
      BY <1>2, <2>2, <3>1 DEF BD9Inv, ClosedInv
    <3> QED BY <3>2 DEF Agree
  <2>3. \A i \in DOMAIN isolatePDIs : Closes(isolatePDIs[i], i)
    BY <1>2 DEF BD9Inv, MatchedInv
  <2> QED BY <2>2, <2>3 DEF IsolatesMatch
<1> QED BY <1>1, <1>2, PTL

\* L2 puts the runs of any line into visual order.
LEMMA LineInVisualOrder ==
  ASSUME NEW n \in Nat, NEW lv \in LevelLists(n), NEW highest \in Int,
         \A i \in 1..n : lv[i] <= highest
  PROVE  LET order == ReorderRuns(Runs(lv), highest)
         IN  InVisualOrder([k \in DOMAIN order |-> Runs(lv)[order[k]]], lv)
<1>1. CASE n = 0
  <2>1. Kept(lv) = {}
    BY <1>1 DEF Kept, LevelLists
  <2> QED BY <2>1 DEF InVisualOrder
<1>2. CASE n # 0
  <2>1. n \in Nat \ {0}
    BY <1>2
  <2>0. PICK m \in Nat : SplitInto(n, lv, m, Runs(lv))
    BY <2>1, RunsFacts
  <2>2. PICK runs : runs = Runs(lv) /\ SplitInto(n, lv, m, runs)
    BY <2>0
  <2>3. DOMAIN runs = 1..m /\ \A j \in 1..m : runs[j].start \in 1..n /\ runs[j].level = lv[runs[j].start]
    BY <2>2 DEF SplitInto
  <2>4. PICK lev : lev = [j \in 1..m |-> runs[j].level]
    OBVIOUS
  <2>5. \A j \in 1..m : lev[j] = runs[j].level /\ lev[j] <= highest /\ lev[j] \in Nat \cup {-1}
    <3>1. \A i \in 1..n : lv[i] \in Nat \cup {-1}
      BY DEF LevelLists
    <3> QED BY <2>3, <2>4, <3>1
  <2>6. lev \in LevelLists(m)
    BY <2>4, <2>5 DEF LevelLists
  <2>7. PICK order : order = ReorderRuns(runs, highest)
    OBVIOUS
  <2>8. order \in Places(m) /\ VisualPlaces(m, lev, order)
    <3>1. \A k \in 1..m : runs[k].level = lev[k]
      BY <2>5
    <3>2. \A k \in 1..m : lev[k] <= highest
      BY <2>5
    <3> QED BY <2>3, <2>6, <2>7, <3>1, <3>2, ReorderFacts
  <2>9. DOMAIN order = 1..m /\ \A p \in 1..m : order[p] \in 1..m
    BY <2>8 DEF Places
  <2>10. PICK d : d = [k \in DOMAIN order |-> runs[order[k]]]
    OBVIOUS
  <2>11. DOMAIN d = 1..m /\ \A p \in 1..m : d[p] = runs[order[p]]
    BY <2>9, <2>10
  <2>12. ASSUME NEW a \in Kept(lv), NEW A \in 1..m, runs[A].start <= a, a <= runs[A].end
         PROVE  \E p \in 1..m : /\ order[p] = A
                                /\ p = CHOOSE k \in DOMAIN d : a \in d[k].start..d[k].end
    <3>1. PICK p \in 1..m : order[p] = A
      BY <2>8 DEF VisualPlaces
    <3>2. a \in 1..n
      BY DEF Kept, LevelLists
    <3>3. \A j \in 1..m : runs[j].start \in 1..n /\ runs[j].end \in 1..n
      BY <2>2 DEF SplitInto
    <3>4. \A j, k \in 1..m : j < k => runs[j].end < runs[k].start
      BY <2>2 DEF SplitInto
    <3>5. a \in d[p].start..d[p].end
      BY <2>11, <2>12, <3>1, <3>2, <3>3
    <3>6. ASSUME NEW k \in 1..m, a \in d[k].start..d[k].end PROVE k = p
      <4>1. PICK K \in 1..m : K = order[k]
        BY <2>9
      <4>2. runs[K].start <= a /\ a <= runs[K].end /\ runs[K].start \in 1..n /\ runs[K].end \in 1..n
        BY <2>11, <3>2, <3>3, <3>6, <4>1
      <4>3. runs[A].start \in 1..n /\ runs[A].end \in 1..n
        BY <3>3
      <4>4. ~(K < A)
        BY <2>12, <3>2, <3>4, <4>2, <4>3
      <4>5. ~(A < K)
        BY <2>12, <3>2, <3>4, <4>2, <4>3
      <4>6. K = A
        BY <4>4, <4>5
      <4> QED BY <2>8, <3>1, <4>1, <4>6 DEF VisualPlaces
    <3> QED BY <2>11, <3>1, <3>5, <3>6
  <2>13. ASSUME NEW a \in Kept(lv), NEW b \in Kept(lv), a < b
         PROVE  LeftOf(d, a, b) <=> Min({lv[k] : k \in Kept(lv) \cap a..b}) % 2 = 0
    <3>1. a \in 1..n /\ b \in 1..n
      BY DEF Kept, LevelLists
    <3>2. PICK A \in 1..m : runs[A].start <= a /\ a <= runs[A].end
      BY <2>2, <3>1 DEF SplitInto
    <3>3. PICK B \in 1..m : runs[B].start <= b /\ b <= runs[B].end
      BY <2>2, <3>1 DEF SplitInto
    <3>4. PICK p \in 1..m : order[p] = A /\ p = CHOOSE k \in DOMAIN d : a \in d[k].start..d[k].end
      BY <2>12, <3>2
    <3>5. PICK q \in 1..m : order[q] = B /\ q = CHOOSE k \in DOMAIN d : b \in d[k].start..d[k].end
      BY <2>12, <3>3
    <3>6. LeftOf(d, a, b) <=> IF p = q THEN d[p].level % 2 = 0 ELSE p < q
      BY <3>4, <3>5 DEF LeftOf
    <3>7. A <= B /\ Min({lv[k] : k \in Kept(lv) \cap a..b}) = Lowest(lev, A, B)
      <4>1. a < b /\ \A j \in 1..m : lev[j] = runs[j].level
        BY <2>5, <2>13
      <4> QED BY <2>1, <2>2, <2>6, <3>2, <3>3, <4>1, LowestBetween
    <3>8. CASE A = B
      <4>1. p = q
        BY <2>8, <3>4, <3>5, <3>8 DEF VisualPlaces
      <4>2. d[p].level = lev[A]
        BY <2>5, <2>11, <3>4
      <4>3. \E k \in 1..m : A <= k /\ k <= A /\ lev[k] = Lowest(lev, A, A)
        <5>1. A <= A
          OBVIOUS
        <5> QED BY <2>6, <5>1, LowestFacts
      <4>4. lev[A] = Lowest(lev, A, A)
        BY <4>3
      <4> QED BY <3>6, <3>7, <3>8, <4>1, <4>2, <4>4
    <3>9. CASE A # B
      <4>1. A < B
        BY <3>7, <3>9
      <4>2. p # q
        BY <3>4, <3>5, <3>9
      <4>3. p < q <=> Lowest(lev, A, B) % 2 = 0
        BY <2>8, <3>4, <3>5, <4>1 DEF VisualPlaces
      <4> QED BY <3>6, <3>7, <4>2, <4>3
    <3> QED BY <3>8, <3>9
  <2>14. InVisualOrder(d, lv)
    BY <2>13 DEF InVisualOrder
  <2> QED BY <2>2, <2>7, <2>10, <2>14
<1> QED BY <1>1, <1>2

\* Whether L1 resets rune i: what follows it, to the end of the line or to a
\* separator, is white space and isolates.
Trailing(lv, line, i) ==
    \E k \in i..(Len(line) + 1) :
        /\ k = Len(line) + 1 \/ (lv[k] # -1 /\ Class(line[k]) \in {"B", "S"})
        /\ \A n \in i..(k - 1) : lv[n] = -1 \/ Class(line[n]) \in Initiators \cup {"PDI", "WS"}

Space == Initiators \cup {"PDI", "WS"}

\* From the rune after i one knows whether rune i is reset.
LEMMA TrailingFacts ==
  ASSUME NEW n \in Nat, NEW lv \in LevelLists(n), NEW line, Len(line) = n
  PROVE  /\ Trailing(lv, line, n + 1)
         /\ \A i \in 1..n :
               /\ lv[i] = -1 \/ (Class(line[i]) \in Space /\ Class(line[i]) \notin {"B", "S"})
                     => (Trailing(lv, line, i) <=> Trailing(lv, line, i + 1))
               /\ lv[i] # -1 /\ Class(line[i]) \in {"B", "S"} => Trailing(lv, line, i)
               /\ lv[i] # -1 /\ Class(line[i]) \notin Space \cup {"B", "S"} => ~Trailing(lv, line, i)
<1> DEFINE Stop(k) == k = n + 1 \/ (lv[k] # -1 /\ Class(line[k]) \in {"B", "S"})
           Pass(k) == lv[k] = -1 \/ Class(line[k]) \in Space
<1>1. \A i : Trailing(lv, line, i) <=>
                \E k \in i..(n + 1) : Stop(k) /\ \A j \in i..(k - 1) : Pass(j)
  BY DEF Trailing, Space
<1>2. Stop(n + 1)
  OBVIOUS
<1>3. \A i \in 1..n : /\ Stop(i) <=> lv[i] # -1 /\ Class(line[i]) \in {"B", "S"}
                      /\ Pass(i) <=> lv[i] = -1 \/ Class(line[i]) \in Space
  OBVIOUS
<1> HIDE DEF Stop, Pass
<1>4. Trailing(lv, line, n + 1)
  <2>1. n + 1 \in (n + 1)..(n + 1) /\ \A j \in (n + 1)..(n + 1 - 1) : Pass(j)
    OBVIOUS
  <2> QED BY <1>1, <1>2, <2>1
<1>5. ASSUME NEW i \in 1..n, Stop(i) PROVE Trailing(lv, line, i)
  <2>1. i \in i..(n + 1) /\ \A j \in i..(i - 1) : Pass(j)
    OBVIOUS
  <2> QED BY <1>1, <1>5, <2>1
<1>6. ASSUME NEW i \in 1..n, ~Stop(i), ~Pass(i) PROVE ~Trailing(lv, line, i)
  <2> SUFFICES ASSUME NEW k \in i..(n + 1), Stop(k), \A j \in i..(k - 1) : Pass(j)
               PROVE  FALSE
    BY <1>1
  <2>1. k # i
    BY <1>6
  <2>2. i \in i..(k - 1)
    BY <2>1
  <2> QED BY <1>6, <2>2
<1>7. ASSUME NEW i \in 1..n, ~Stop(i), Pass(i)
      PROVE  Trailing(lv, line, i) <=> Trailing(lv, line, i + 1)
  <2>1. ASSUME NEW k \in i..(n + 1), Stop(k), \A j \in i..(k - 1) : Pass(j)
        PROVE  k \in (i + 1)..(n + 1) /\ \A j \in (i + 1)..(k - 1) : Pass(j)
    <3>1. k # i
      BY <1>7, <2>1
    <3> QED BY <2>1, <3>1
  <2>2. ASSUME NEW k \in (i + 1)..(n + 1), Stop(k), \A j \in (i + 1)..(k - 1) : Pass(j)
        PROVE  k \in i..(n + 1) /\ \A j \in i..(k - 1) : Pass(j)
    <3>1. \A j \in i..(k - 1) : j = i \/ j \in (i + 1)..(k - 1)
      OBVIOUS
    <3> QED BY <1>7, <2>2, <3>1
  <2> QED BY <1>1, <2>1, <2>2
<1> QED BY <1>3, <1>4, <1>5, <1>6, <1>7

\* What the loop of LineLevels carries from rune to rune.
LineStates(n) == [lv : LevelLists(n), separator : BOOLEAN, eol : BOOLEAN]

\* One round of that loop, and all of them.
LineStep(lv, line, par, a, i) ==
    LET c == Class(line[i])
    IN  CASE lv[i] = -1 -> a
          [] lv[i] # -1 /\ c \in {"B", "S"} ->
                [lv |-> [a.lv EXCEPT ![i] = par], separator |-> TRUE, eol |-> FALSE]
          [] lv[i] # -1 /\ c \in Initiators \cup {"PDI", "WS"} ->
                IF a.separator \/ a.eol THEN [a EXCEPT !.lv[i] = par] ELSE a
          [] OTHER -> [a EXCEPT !.separator = FALSE, !.eol = FALSE]

LineRounds(n, lv, line, par, f) ==
    f = [i \in 1..(n + 1) |->
            IF i = n + 1 THEN [lv |-> lv, separator |-> FALSE, eol |-> TRUE]
            ELSE LineStep(lv, line, par, f[i + 1], i)]

\* After the rounds down to rune i, the runes from i on have their levels, and
\* the flags tell whether rune i - 1, if it is white space, is reset.
LineDone(n, lv, line, par, a, i) ==
    /\ a \in LineStates(n)
    /\ \A k \in 1..n : a.lv[k] = IF i <= k /\ lv[k] # -1 /\ Trailing(lv, line, k) THEN par ELSE lv[k]
    /\ a.separator \/ a.eol <=> Trailing(lv, line, i)

\* What a round does, case by case.
LEMMA LineStepCases ==
  ASSUME NEW n \in Nat, NEW lv \in LevelLists(n), NEW line, NEW par \in Nat,
         NEW a \in LineStates(n), NEW i \in 1..n
  PROVE  /\ lv[i] = -1 => LineStep(lv, line, par, a, i) = a
         /\ lv[i] # -1 /\ Class(line[i]) \in {"B", "S"} =>
               LineStep(lv, line, par, a, i)
                  = [lv |-> [a.lv EXCEPT ![i] = par], separator |-> TRUE, eol |-> FALSE]
         /\ lv[i] # -1 /\ Class(line[i]) \in Space /\ Class(line[i]) \notin {"B", "S"} =>
               LineStep(lv, line, par, a, i)
                  = IF a.separator \/ a.eol
                    THEN [lv |-> [a.lv EXCEPT ![i] = par], separator |-> a.separator, eol |-> a.eol]
                    ELSE a
         /\ lv[i] # -1 /\ Class(line[i]) \notin Space \cup {"B", "S"} =>
               LineStep(lv, line, par, a, i) = [lv |-> a.lv, separator |-> FALSE, eol |-> FALSE]
<1>1. /\ a = [lv |-> a.lv, separator |-> a.separator, eol |-> a.eol]
      /\ a.lv \in LevelLists(n) /\ a.separator \in BOOLEAN /\ a.eol \in BOOLEAN
  BY DEF LineStates
<1>2. [a EXCEPT !.lv[i] = par] = [lv |-> [a.lv EXCEPT ![i] = par], separator |-> a.separator, eol |-> a.eol]
  BY <1>1
<1>4. [a EXCEPT !.separator = FALSE, !.eol = FALSE] = [lv |-> a.lv, separator |-> FALSE, eol |-> FALSE]
  <2>1. PICK L, M : L = LevelLists(n) /\ M = BOOLEAN
    OBVIOUS
  <2>2. a \in [lv : L, separator : M, eol : M]
    BY <2>1 DEF LineStates
  <2>3. ASSUME NEW z \in BOOLEAN
        PROVE  [a EXCEPT !.separator = z, !.eol = z] = [lv |-> a.lv, separator |-> z, eol |-> z]
    <3>1. PICK b : b = [a EXCEPT !.separator = z]
      OBVIOUS
    <3>2. b = [lv |-> a.lv, separator |-> z, eol |-> a.eol]
      BY <2>2, <3>1
    <3>3. b \in [lv : L, separator : M, eol : M]
      BY <2>1, <2>2, <3>2
    <3>4. [b EXCEPT !.eol = z] = [lv |-> b.lv, separator |-> b.separator, eol |-> z]
      BY <3>3
    <3>5. [a EXCEPT !.separator = z, !.eol = z] = [b EXCEPT !.eol = z]
      BY <3>1, Zenon
    <3>6. b.lv = a.lv /\ b.separator = z
      BY <3>2
    <3> QED BY <3>4, <3>5, <3>6
  <2>4. FALSE \in BOOLEAN
    OBVIOUS
  <2> QED BY <2>3, <2>4, Zenon
<1>5. lv[i] = -1 => LineStep(lv, line, par, a, i) = a
  BY DEF LineStep
<1>6. lv[i] # -1 /\ Class(line[i]) \in {"B", "S"} =>
         LineStep(lv, line, par, a, i)
            = [lv |-> [a.lv EXCEPT ![i] = par], separator |-> TRUE, eol |-> FALSE]
  BY DEF LineStep, Initiators
<1>7. lv[i] # -1 /\ Class(line[i]) \in Space /\ Class(line[i]) \notin {"B", "S"} =>
         LineStep(lv, line, par, a, i) = IF a.separator \/ a.eol THEN [a EXCEPT !.lv[i] = par] ELSE a
  BY DEF LineStep, Space
<1>8. lv[i] # -1 /\ Class(line[i]) \notin Space \cup {"B", "S"} =>
         LineStep(lv, line, par, a, i) = [a EXCEPT !.separator = FALSE, !.eol = FALSE]
  BY DEF LineStep, Space
<1> QED BY <1>2, <1>4, <1>5, <1>6, <1>7, <1>8

LEMMA LineStepDone ==
  ASSUME NEW n \in Nat, NEW lv \in LevelLists(n), NEW line, Len(line) = n, NEW par \in Nat,
         NEW i \in 1..n, NEW a, LineDone(n, lv, line, par, a, i + 1)
  PROVE  LineDone(n, lv, line, par, LineStep(lv, line, par, a, i), i)
<1>1. /\ a \in LineStates(n)
      /\ \A k \in 1..n : a.lv[k] = IF i + 1 <= k /\ lv[k] # -1 /\ Trailing(lv, line, k) THEN par ELSE lv[k]
      /\ a.separator \/ a.eol <=> Trailing(lv, line, i + 1)
  BY DEF LineDone
<1>2. PICK c : c = Class(line[i])
  OBVIOUS
<1>3. PICK b : b = LineStep(lv, line, par, a, i)
  OBVIOUS
<1>4. a.lv \in LevelLists(n) /\ a.separator \in BOOLEAN /\ a.eol \in BOOLEAN
  BY <1>1 DEF LineStates
<1>5. PICK e : e = [a.lv EXCEPT ![i] = par]
  OBVIOUS
<1>6. e \in LevelLists(n) /\ e[i] = par /\ \A k \in 1..n : k # i => e[k] = a.lv[k]
  BY <1>4, <1>5 DEF LevelLists
<1>7. PICK t \in BOOLEAN, u \in BOOLEAN : (t <=> Trailing(lv, line, i)) /\ (u <=> Trailing(lv, line, i + 1))
  OBVIOUS
<1>8. /\ lv[i] = -1 \/ (c \in Space /\ c \notin {"B", "S"}) => (t <=> u)
      /\ lv[i] # -1 /\ c \in {"B", "S"} => t
      /\ lv[i] # -1 /\ c \notin Space \cup {"B", "S"} => ~t
  BY <1>2, <1>7, TrailingFacts
<1>9. \A k \in 1..n : i <= k <=> i + 1 <= k \/ k = i
  OBVIOUS
<1>10. ASSUME b.lv = a.lv, lv[i] = -1 \/ ~t
       PROVE  \A k \in 1..n : b.lv[k] = IF i <= k /\ lv[k] # -1 /\ Trailing(lv, line, k) THEN par ELSE lv[k]
  <2> TAKE k \in 1..n
  <2>1. CASE k = i
    <3>1. a.lv[k] = lv[k]
      BY <1>1, <2>1
    <3> QED BY <1>7, <1>10, <2>1, <3>1
  <2>2. CASE k # i
    BY <1>1, <1>9, <1>10, <2>2
  <2> QED BY <2>1, <2>2
<1>11. ASSUME b.lv = e, lv[i] # -1, t
       PROVE  \A k \in 1..n : b.lv[k] = IF i <= k /\ lv[k] # -1 /\ Trailing(lv, line, k) THEN par ELSE lv[k]
  <2> TAKE k \in 1..n
  <2>1. CASE k = i
    BY <1>6, <1>7, <1>11, <2>1
  <2>2. CASE k # i
    BY <1>1, <1>6, <1>9, <1>11, <2>2
  <2> QED BY <2>1, <2>2
<1>12. CASE lv[i] = -1
  <2>1. b = a
    BY <1>1, <1>3, <1>12, LineStepCases
  <2>2. a.separator \/ a.eol <=> Trailing(lv, line, i)
    BY <1>1, <1>7, <1>8, <1>12
  <2> QED BY <1>1, <1>3, <1>10, <1>12, <2>1, <2>2 DEF LineDone
<1>13. CASE lv[i] # -1 /\ c \in {"B", "S"}
  <2>1. b = [lv |-> e, separator |-> TRUE, eol |-> FALSE]
    BY <1>1, <1>2, <1>3, <1>5, <1>13, LineStepCases, SMTT(20)
  <2>2. b \in LineStates(n) /\ b.lv = e /\ b.separator = TRUE
    BY <1>6, <2>1 DEF LineStates
  <2>3. t
    BY <1>8, <1>13
  <2>4. b.separator \/ b.eol <=> Trailing(lv, line, i)
    BY <1>7, <2>2, <2>3
  <2> QED BY <1>3, <1>11, <1>13, <2>2, <2>3, <2>4 DEF LineDone
<1>14. CASE lv[i] # -1 /\ c \in Space /\ c \notin {"B", "S"}
  <2>1. b = IF a.separator \/ a.eol
            THEN [lv |-> e, separator |-> a.separator, eol |-> a.eol] ELSE a
    BY <1>1, <1>2, <1>3, <1>5, <1>14, LineStepCases
  <2>2. t <=> u
    BY <1>8, <1>14
  <2>3. CASE a.separator \/ a.eol
    <3>1. b = [lv |-> e, separator |-> a.separator, eol |-> a.eol]
      BY <2>1, <2>3
    <3>2. b \in LineStates(n) /\ b.lv = e /\ b.separator = a.separator /\ b.eol = a.eol
      BY <1>4, <1>6, <3>1 DEF LineStates
    <3>3. t
      BY <1>1, <1>7, <2>2, <2>3
    <3>4. b.separator \/ b.eol <=> Trailing(lv, line, i)
      BY <1>7, <2>3, <3>2, <3>3
    <3> QED BY <1>3, <1>11, <1>14, <3>2, <3>3, <3>4 DEF LineDone
  <2>4. CASE ~(a.separator \/ a.eol)
    <3>1. b = a
      BY <2>1, <2>4
    <3>2. ~t
      BY <1>1, <1>7, <2>2, <2>4
    <3>3. a.separator \/ a.eol <=> Trailing(lv, line, i)
      BY <1>7, <2>4, <3>2
    <3> QED BY <1>1, <1>3, <1>10, <3>1, <3>2, <3>3 DEF LineDone
  <2> QED BY <2>3, <2>4
<1>15. CASE lv[i] # -1 /\ c \notin Space \cup {"B", "S"}
  <2>1. b = [lv |-> a.lv, separator |-> FALSE, eol |-> FALSE]
    BY <1>1, <1>2, <1>3, <1>15, LineStepCases, SMTT(20)
  <2>2. b \in LineStates(n) /\ b.lv = a.lv /\ b.separator = FALSE /\ b.eol = FALSE
    BY <1>4, <2>1 DEF LineStates
  <2>3. ~t
    BY <1>8, <1>15
  <2>4. b.separator \/ b.eol <=> Trailing(lv, line, i)
    BY <1>7, <2>2, <2>3
  <2> QED BY <1>3, <1>10, <2>2, <2>3, <2>4 DEF LineDone
<1> QED BY <1>12, <1>13, <1>14, <1>15

LEMMA LineStepState ==
  ASSUME NEW n \in Nat, NEW lv \in LevelLists(n), NEW line, NEW par \in Nat,
         NEW a \in LineStates(n), NEW i \in 1..n
  PROVE  LineStep(lv, line, par, a, i) \in LineStates(n)
<1>1. /\ a.lv \in LevelLists(n) /\ a.separator \in BOOLEAN /\ a.eol \in BOOLEAN
  BY DEF LineStates
<1>2. PICK e : e = [a.lv EXCEPT ![i] = par]
  OBVIOUS
<1>3. e \in LevelLists(n)
  BY <1>1, <1>2 DEF LevelLists
<1>4. PICK c : c = Class(line[i])
  OBVIOUS
<1>5. CASE lv[i] = -1
  <2>1. LineStep(lv, line, par, a, i) = a
    BY <1>5 DEF LineStep
  <2> QED BY <2>1
<1>6. CASE lv[i] # -1 /\ c \in {"B", "S"}
  <2>1. LineStep(lv, line, par, a, i) = [lv |-> e, separator |-> TRUE, eol |-> FALSE]
    BY <1>2, <1>4, <1>6, LineStepCases
  <2> QED BY <1>3, <2>1 DEF LineStates
<1>7. CASE lv[i] # -1 /\ c \in Space /\ c \notin {"B", "S"}
  <2>1. LineStep(lv, line, par, a, i)
           = IF a.separator \/ a.eol
             THEN [lv |-> e, separator |-> a.separator, eol |-> a.eol] ELSE a
    BY <1>2, <1>4, <1>7, LineStepCases
  <2>2. [lv |-> e, separator |-> a.separator, eol |-> a.eol] \in LineStates(n)
    BY <1>1, <1>3 DEF LineStates
  <2> QED BY <2>1, <2>2
<1>8. CASE lv[i] # -1 /\ c \notin Space \cup {"B", "S"}
  <2>1. LineStep(lv, line, par, a, i) = [lv |-> a.lv, separator |-> FALSE, eol |-> FALSE]
    BY <1>4, <1>8, LineStepCases
  <2> QED BY <1>1, <2>1 DEF LineStates
<1> QED BY <1>4, <1>5, <1>6, <1>7, <1>8

LEMMA LineRoundsExist ==
  ASSUME NEW n \in Nat, NEW lv \in LevelLists(n), NEW line, NEW par \in Nat
  PROVE  \E f : LineRounds(n, lv, line, par, f)
<1>1. PICK b \in Int : b = n + 1 /\ 1 <= b
  OBVIOUS
<1>2. PICK start \in LineStates(n) : start = [lv |-> lv, separator |-> FALSE, eol |-> TRUE]
  BY DEF LineStates
<1> DEFINE step == [j \in 1..b |-> [a \in LineStates(n) |->
                      IF j = b THEN a ELSE LineStep(lv, line, par, a, j)]]
<1>3. step \in Steps(1, b, LineStates(n))
  <2>1. \A j \in 1..b : j # b => j \in 1..n
    BY <1>1
  <2> QED BY <2>1, LineStepState DEF Steps
<1>4. PICK f : ComesDown(1, b, LineStates(n), start, step, f)
  <2> HIDE DEF step
  <2>1. 1 \in Int
    OBVIOUS
  <2> QED BY <1>1, <1>3, <2>1, RecursionDown
<1>9. /\ f \in [1..b -> LineStates(n)]
      /\ \A j \in 1..b : f[j] = IF j = b THEN start ELSE step[j][f[j + 1]]
  <2> HIDE DEF step
  <2> QED BY <1>4 DEF ComesDown
<1>5. ASSUME NEW j \in 1..b, j # b
      PROVE  step[j][f[j + 1]] = LineStep(lv, line, par, f[j + 1], j)
  <2>1. j + 1 \in 1..b
    BY <1>1, <1>5
  <2>2. f[j + 1] \in LineStates(n)
    BY <1>9, <2>1
  <2> QED BY <1>5, <2>2
<1> HIDE DEF step
<1>6. \A j \in 1..b : f[j] = IF j = b THEN start ELSE LineStep(lv, line, par, f[j + 1], j)
  BY <1>9, <1>5
<1>7. f = [j \in 1..b |-> f[j]]
  BY <1>9
<1>8. f = [j \in 1..b |-> IF j = b THEN start ELSE LineStep(lv, line, par, f[j + 1], j)]
  BY <1>6, <1>7, Zenon
<1> QED BY <1>1, <1>2, <1>8 DEF LineRounds

\* What L1 says of each rune of a line.
LineReset(n, lv, line, par) ==
    [i \in 1..n |-> IF lv[i] # -1 /\ Trailing(lv, line, i) THEN par ELSE lv[i]]

\* L1 as one pass from the last rune to the first gives that.
LEMMA LineLevelsFacts ==
  ASSUME NEW n \in Nat, NEW lv \in LevelLists(n), NEW line, Len(line) = n, NEW par \in Nat
  PROVE  LineLevels(lv, line, par) = LineReset(n, lv, line, par)
<1>1. Len(lv) = n
  BY DEF LevelLists
<1> DEFINE from == CHOOSE f : LineRounds(Len(lv), lv, line, par, f)
<1>2. LineLevels(lv, line, par) = from[1].lv
  BY DEF LineLevels, LineRounds, LineStep
<1>3. PICK start : start = [lv |-> lv, separator |-> FALSE, eol |-> TRUE]
  OBVIOUS
<1>4. start \in LineStates(n) /\ LineDone(n, lv, line, par, start, n + 1)
  <2>1. start \in LineStates(n) /\ start.lv = lv /\ start.eol = TRUE
    BY <1>3 DEF LineStates
  <2>2. \A k \in 1..n : ~(n + 1 <= k)
    OBVIOUS
  <2>3. Trailing(lv, line, n + 1)
    BY TrailingFacts
  <2> QED BY <2>1, <2>2, <2>3 DEF LineDone
<1>6. PICK b \in Int : b = n + 1 /\ 1 <= b
  OBVIOUS
<1>8. LineRounds(n, lv, line, par, from)
  BY <1>1, LineRoundsExist
<1> HIDE DEF from
<1>9. \A j \in 1..b : from[j] = IF j = b THEN start ELSE LineStep(lv, line, par, from[j + 1], j)
  BY <1>3, <1>6, <1>8 DEF LineRounds
<1> DEFINE P == {j \in 1..b : LineDone(n, lv, line, par, from[j], j)}
<1>10. b \in P
  <2>1. b \in 1..b /\ from[b] = start
    BY <1>6, <1>9
  <2> QED BY <1>4, <1>6, <2>1
<1>11. ASSUME NEW j \in 1..(b - 1), j + 1 \in P PROVE j \in P
  <2>1. j \in 1..n /\ j \in 1..b /\ j # b
    BY <1>6
  <2>2. PICK a : a = from[j + 1]
    OBVIOUS
  <2>3. LineDone(n, lv, line, par, a, j + 1)
    BY <1>11, <2>2
  <2>4. LineDone(n, lv, line, par, LineStep(lv, line, par, a, j), j)
    BY <2>1, <2>3, LineStepDone
  <2>5. from[j] = LineStep(lv, line, par, a, j)
    BY <1>9, <2>1, <2>2
  <2> QED BY <2>1, <2>4, <2>5
<1>12. 1 \in P
  <2> HIDE DEF P
  <2>1. 1 \in Int /\ 1 \in 1..b
    BY <1>6
  <2>2. \A j \in 1..b : j \in P
    BY <1>6, <1>10, <1>11, <2>1, InductionDown
  <2> QED BY <2>1, <2>2
<1>13. PICK r : r = from[1].lv
  OBVIOUS
<1>14. /\ r \in LevelLists(n)
       /\ \A k \in 1..n : r[k] = IF 1 <= k /\ lv[k] # -1 /\ Trailing(lv, line, k) THEN par ELSE lv[k]
  BY <1>12, <1>13 DEF LineDone, LineStates
<1>15. r = [k \in 1..n |-> r[k]]
  BY <1>14 DEF LevelLists
<1>16. \A k \in 1..n : r[k] = IF lv[k] # -1 /\ Trailing(lv, line, k) THEN par ELSE lv[k]
  BY <1>14
<1>17. r = [k \in 1..n |-> IF lv[k] # -1 /\ Trailing(lv, line, k) THEN par ELSE lv[k]]
  BY <1>15, <1>16, Zenon
<1> QED BY <1>2, <1>13, <1>17 DEF LineReset

(***************************************************************************)
(* The levels that the pass assigns.                                       *)
(***************************************************************************)

\* The first entry of the stack is that of the paragraph.
FirstInv == Stack[1].level = paragraphEmbeddingLevel /\ Stack[1].index = 0

\* A rune that the pass has come by has at least the level of the paragraph,
\* unless it is to be removed; in the end those that are removed have none.
RuneLevelInv ==
    \A q \in 1..Len(text) :
        /\ pos <= Len(text) + 1 => 0 <= embeddingLevels[q] /\ embeddingLevels[q] <= MaxDepth
        /\ pos <= Len(text) + 1 /\ q < pos /\ runeClasses[q] \notin Removed =>
              paragraphEmbeddingLevel <= embeddingLevels[q]
        /\ pos > Len(text) + 1 =>
              \/ embeddingLevels[q] = -1
              \/ paragraphEmbeddingLevel <= embeddingLevels[q] /\ embeddingLevels[q] <= MaxDepth

\* The entries of the stack are of runes of the text.
EntriesInv ==
    text \in Texts /\ (pos > Len(text) + 1 => \A k \in 1..Len(Stack) : Stack[k].index <= Len(text))

LevelsInv == FirstInv /\ RuneLevelInv /\ EntriesInv

\* No entry is below the first.
LEMMA FloorFacts ==
  ASSUME NEW s, s \in Seq(Entry), Len(s) >= 1,
         \A k \in 2..Len(s) : s[k - 1].level < s[k].level
  PROVE  \A k \in 1..Len(s) : s[1].level <= s[k].level
<1>1. PICK n \in Nat : n = Len(s) /\ 1 <= n
  BY LenProperties
<1>2. \A k \in 1..n : s[k].level \in Int
  <2>1. \A k \in 1..n : s[k] \in Entry
    BY <1>1, ElementOfSeq
  <2> QED BY <2>1 DEF Entry
<1> DEFINE P == {k \in 1..n : s[1].level <= s[k].level}
<1>3. 1 \in P
  BY <1>1, <1>2
<1>4. ASSUME NEW k \in 2..n, k - 1 \in P PROVE k \in P
  <2>1. k \in 1..n /\ k - 1 \in 1..n /\ 1 \in 1..n
    BY <1>1
  <2>2. PICK a \in Int, b \in Int, c \in Int : a = s[1].level /\ b = s[k - 1].level /\ c = s[k].level
    BY <1>2, <2>1
  <2>3. a <= b /\ b < c
    BY <1>1, <1>4, <2>1, <2>2
  <2>4. a <= c
    BY <2>2, <2>3, SMTT(20)
  <2> QED BY <2>1, <2>2, <2>4
<1>5. \A k \in 1..n : k \in P
  <2> HIDE DEF P
  <2>1. 1 \in Int /\ n \in Int /\ \A k \in (1 + 1)..n : k - 1 \in P => k \in P
    BY <1>1, <1>4
  <2> QED BY <1>1, <1>3, <2>1, InductionUp
<1> QED BY <1>1, <1>5

\* The current level is at least that of the paragraph.
LEMMA TopLevel ==
  ASSUME IInv, FirstInv
  PROVE  paragraphEmbeddingLevel <= Peek(Stack).level
<1>1. Stack \in Seq(Entry) /\ Len(Stack) >= 1 /\ \A k \in 2..Len(Stack) : Stack[k - 1].level < Stack[k].level
  BY DEF IInv, BaseInv, LevelInv
<1>2. \A k \in 1..Len(Stack) : Stack[1].level <= Stack[k].level
  BY <1>1, FloorFacts
<1>3. Len(Stack) \in 1..Len(Stack) /\ Peek(Stack) = Stack[Len(Stack)]
  BY TopFacts
<1> QED BY <1>2, <1>3 DEF FirstInv

LEMMA TopLevelNext ==
  ASSUME IInv', FirstInv'
  PROVE  /\ paragraphEmbeddingLevel' <= Peek(Stack').level
         /\ Peek(Stack').level \in Int /\ Peek(Stack').level <= MaxDepth
<1>1. /\ Stack' \in Seq(Entry) /\ Len(Stack') >= 1
      /\ \A k \in 2..Len(Stack') : Stack'[k - 1].level < Stack'[k].level
      /\ \A k \in 1..Len(Stack') : Stack'[k].level <= MaxDepth
  BY DEF IInv, BaseInv, LevelInv
<1>2. PICK s : s = Stack'
  OBVIOUS
<1>3. \A k \in 1..Len(s) : s[1].level <= s[k].level
  BY <1>1, <1>2, FloorFacts
<1>4. Len(s) \in 1..Len(s) /\ Peek(s) = s[Len(s)]
  BY <1>1, <1>2, LenProperties DEF Peek
<1>5. s[Len(s)] \in Entry
  BY <1>1, <1>2, <1>4, ElementOfSeq
<1> QED BY <1>1, <1>2, <1>3, <1>4, <1>5 DEF FirstInv, Entry

\* What a step leaves of the stack: the first entry, and but for a push no
\* entry that was not there.
LEMMA StackSteps ==
  ASSUME IInv, [Next]_vars
  PROVE  /\ Stack'[1] = Stack[1]
         /\ pos' > pos + 1 => FALSE
         /\ pos = Len(text) + 1 => Stack' = Stack
<1>1. Stack \in Seq(Entry) /\ Len(Stack) \in Nat \ {0} /\ pos \in Nat
  BY TopFacts DEF IInv, BaseInv
<1>2. CASE PushEmbedding \/ PushIsolate
  <2>1. Stack' = Stack \/ \E e : Stack' = Append(Stack, e)
    BY <1>2, Zenon DEF PushEmbedding, PushIsolate, Stack
  <2>2. pos \in 1..Len(text) /\ pos' = pos + 1
    BY <1>2 DEF PushEmbedding, PushIsolate, Current
  <2>3. Stack'[1] = Stack[1]
    <3>1. CASE Stack' = Stack
      BY <3>1
    <3>2. ASSUME NEW e, Stack' = Append(Stack, e) PROVE Stack'[1] = Stack[1]
      BY <1>1, <3>2
    <3> QED BY <2>1, <3>1, <3>2
  <2> QED BY <1>1, <2>2, <2>3
<1>3. CASE PopIsolate
  <2>1. \/ Stack' = Stack
        \/ overflowIsolateCount = 0 /\ validIsolateCount # 0 /\ Stack' = MatchedStack(Stack)
    BY <1>3, Zenon DEF PopIsolate, counters, Stack
  <2>2. pos \in 1..Len(text) /\ pos' = pos + 1
    BY <1>3 DEF PopIsolate, Current
  <2>3. ASSUME validIsolateCount # 0, Stack' = MatchedStack(Stack) PROVE Stack'[1] = Stack[1]
    <3>1. Isolates # {}
      BY <2>3, IsolatesFinite, FS_EmptySet DEF IInv, CountInv
    <3>2. PICK last : last = LastIsolate(Stack)
      OBVIOUS
    <3>3. last \in 1..Len(Stack) /\ Stack[last].isolate
      <4>1. \E k \in 1..Len(Stack) : Stack[k].isolate
        BY <3>1 DEF Isolates, Stack
      <4> QED BY <1>1, <3>2, <4>1, LastIsolateFacts
    <3>4. last # 1
      BY <3>3 DEF IInv, LevelInv
    <3>5. last - 1 \in 1..Len(Stack) /\ Stack' = SubSeq(Stack, 1, last - 1)
      BY <1>1, <2>3, <3>2, <3>3, <3>4 DEF MatchedStack
    <3>6. 1 \in 1..(last - 1) /\ \A k \in 1..(last - 1) : Stack'[k] = Stack[k]
      BY <2>2, <3>5, PopsInv
    <3> QED BY <3>6
  <2> QED BY <1>1, <2>1, <2>2, <2>3
<1>4. CASE PopEmbedding
  <2>1. \/ Stack' = Stack
        \/ Len(Stack) >= 2 /\ Stack' = Front(Stack)
    BY <1>4, Zenon DEF PopEmbedding, Stack
  <2>2. pos \in 1..Len(text) /\ pos' = pos + 1
    BY <1>4 DEF PopEmbedding, Current
  <2>3. ASSUME Len(Stack) >= 2, Stack' = Front(Stack) PROVE Stack'[1] = Stack[1]
    <3>1. Len(Stack) - 1 \in 1..Len(Stack) /\ Stack' = SubSeq(Stack, 1, Len(Stack) - 1)
      BY <1>1, <2>3 DEF Front
    <3>2. 1 \in 1..(Len(Stack) - 1) /\ \A k \in 1..(Len(Stack) - 1) : Stack'[k] = Stack[k]
      BY <2>2, <3>1, PopsInv
    <3> QED BY <3>2
  <2> QED BY <1>1, <2>1, <2>2, <2>3
<1>5. CASE Skip \/ Other
  BY <1>1, <1>5 DEF Skip, Other, Current, Stack
<1>6. CASE RemoveFormatting
  BY <1>1, <1>6 DEF RemoveFormatting, Stack
<1>7. CASE UNCHANGED vars
  BY <1>1, <1>7 DEF vars, Stack
<1> QED BY <1>2, <1>3, <1>4, <1>5, <1>6, <1>7 DEF Next

\* The rune at pos gets at least the level of the paragraph, or is to be
\* removed; what was settled before stays.
LEMMA RuneLevelStep ==
  ASSUME TextInv, RuneLevelInv, pos \in 1..Len(text), pos' = pos + 1, UNCHANGED paragraph,
         NEW cl \in [1..Len(text) -> Classes],
         \A k \in 1..Len(text) : IF runeClasses[k] \in Initiators THEN cl[k] \in Initiators
                                                                  ELSE cl[k] = runeClasses[k],
         NEW c \in Classes, runeClasses' = [cl EXCEPT ![pos] = c],
         NEW l \in Int, embeddingLevels' = [embeddingLevels EXCEPT ![pos] = l],
         0 <= l, l <= MaxDepth, c \in Removed \/ paragraphEmbeddingLevel <= l
  PROVE  RuneLevelInv'
<1>1. /\ Len(text) \in Nat /\ text' = text /\ paragraphEmbeddingLevel' = paragraphEmbeddingLevel
      /\ pos <= Len(text) + 1 /\ ~(pos' > Len(text) + 1)
  BY LenProperties DEF TextInv, paragraph
<1>2. \A k \in 1..Len(text) : runeClasses'[k] = IF k = pos THEN c ELSE cl[k]
  OBVIOUS
<1>3. \A k \in 1..Len(text) : embeddingLevels'[k] = IF k = pos THEN l ELSE embeddingLevels[k]
  BY DEF TextInv
<1>4. ASSUME NEW q \in 1..Len(text)
      PROVE  /\ 0 <= embeddingLevels'[q] /\ embeddingLevels'[q] <= MaxDepth
             /\ q < pos + 1 /\ runeClasses'[q] \notin Removed =>
                   paragraphEmbeddingLevel <= embeddingLevels'[q]
  <2>1. CASE q = pos
    BY <1>2, <1>3, <2>1
  <2>2. CASE q # pos
    <3>1. embeddingLevels'[q] = embeddingLevels[q] /\ runeClasses'[q] = cl[q]
      BY <1>2, <1>3, <2>2
    <3>2. runeClasses[q] \in Removed => cl[q] \in Removed
      <4>1. runeClasses[q] \in Removed => runeClasses[q] \notin Initiators
        BY DEF Removed, Embeddings, Overrides, Initiators
      <4> QED BY <4>1
    <3>3. q < pos + 1 => q < pos
      BY <2>2
    <3>4. /\ 0 <= embeddingLevels[q] /\ embeddingLevels[q] <= MaxDepth
          /\ q < pos /\ runeClasses[q] \notin Removed =>
                paragraphEmbeddingLevel <= embeddingLevels[q]
      BY <1>1 DEF RuneLevelInv
    <3> QED BY <3>1, <3>2, <3>3, <3>4
  <2> QED BY <2>1, <2>2
<1> QED BY <1>1, <1>4 DEF RuneLevelInv

\* A step that leaves the classes and the levels, of a rune to be removed.
LEMMA RuneLevelSame ==
  ASSUME TextInv, RuneLevelInv, pos \in 1..Len(text), pos' = pos + 1,
         UNCHANGED <<paragraph, runeClasses, embeddingLevels>>,
         runeClasses[pos] \in Removed
  PROVE  RuneLevelInv'
<1>1. /\ Len(text) \in Nat /\ text' = text /\ paragraphEmbeddingLevel' = paragraphEmbeddingLevel
      /\ pos <= Len(text) + 1 /\ ~(pos' > Len(text) + 1)
      /\ \A q \in 1..Len(text) : q < pos + 1 => q < pos \/ q = pos
  BY LenProperties DEF TextInv, paragraph
<1> QED BY <1>1 DEF RuneLevelInv

\* The class of a rune under an override.
LEMMA OverriddenClass ==
  ASSUME NEW e \in Entry, NEW c \in Classes
  PROVE  Overridden(e, c) \in Classes
<1>1. "L" \in Classes /\ "R" \in Classes
  BY DEF Classes, Plain
<1>2. e.override \in {"neutral", "R", "L"}
  BY DEF Entry, Override
<1> QED BY <1>1, <1>2 DEF Overridden

LEMMA RuneLevelsInv ==
  ASSUME IInv, BD9Inv, LevelsInv, [Next]_vars, IInv', FirstInv'
  PROVE  RuneLevelInv'
<1>1. TextInv /\ ClassInv /\ RuneLevelInv /\ FirstInv
  BY DEF BD9Inv, LevelsInv
<1>2. /\ Len(text) \in Nat /\ paragraphEmbeddingLevel \in {0, 1} /\ MaxDepth \in Nat /\ MaxDepth >= 1
      /\ runeClasses \in [1..Len(text) -> Classes] /\ embeddingLevels \in [1..Len(text) -> Int]
  BY <1>1, LenProperties, DepthAssumption DEF TextInv
<1>3. CASE PushEmbedding \/ PopEmbedding
  <2>1. /\ pos \in 1..Len(text) /\ pos' = pos + 1
        /\ UNCHANGED <<paragraph, runeClasses, embeddingLevels>>
        /\ runeClasses[pos] \in Embeddings \cup Overrides \cup {"PDF"}
    BY <1>3 DEF PushEmbedding, PopEmbedding, Current
  <2>2. runeClasses[pos] \in Removed
    BY <2>1 DEF Removed
  <2> QED BY <1>1, <2>1, <2>2, RuneLevelSame
<1>4. CASE PushIsolate
  <2> DEFINE cl == IF runeClasses[pos] = "FSI" THEN ResolveFSI(runeClasses, pos) ELSE runeClasses
             e  == Peek(Stack)
             c  == Overridden(e, cl[pos])
  <2>1. /\ pos \in 1..Len(text) /\ pos' = pos + 1 /\ UNCHANGED paragraph
        /\ runeClasses' = [cl EXCEPT ![pos] = c]
        /\ embeddingLevels' = [embeddingLevels EXCEPT ![pos] = e.level]
    BY <1>4 DEF PushIsolate, Current, Stack
  <2>2. /\ cl \in [1..Len(text) -> Classes]
        /\ \A k \in 1..Len(text) : IF runeClasses[k] \in Initiators THEN cl[k] \in Initiators
                                                                    ELSE cl[k] = runeClasses[k]
    <3> DEFINE r == ResolveFSI(runeClasses, pos)
    <3>1. /\ r \in [1..Len(text) -> Classes]
          /\ \A k \in 1..Len(text) : IF runeClasses[k] \in Initiators THEN r[k] \in Initiators
                                                                      ELSE r[k] = runeClasses[k]
      BY <1>2, <2>1, ResolveFSIFacts
    <3>2. cl = r \/ cl = runeClasses
      OBVIOUS
    <3> HIDE DEF r, cl
    <3> QED BY <1>2, <3>1, <3>2
  <2>3. e \in Entry /\ e.level \in Int /\ e.level <= MaxDepth /\ paragraphEmbeddingLevel <= e.level
    BY <1>1, TopFacts, TopLevel
  <2> HIDE DEF e, cl
  <2>4. c \in Classes
    <3>1. cl[pos] \in Classes
      BY <2>1, <2>2
    <3> QED BY <2>3, <3>1, OverriddenClass
  <2>5. PICK l \in Int : l = e.level
    BY <2>3
  <2>6. 0 <= l /\ l <= MaxDepth /\ paragraphEmbeddingLevel <= l
    BY <1>2, <2>3, <2>5
  <2> HIDE DEF c
  <2> QED BY <1>1, <2>1, <2>2, <2>4, <2>5, <2>6, RuneLevelStep
<1>5. CASE PopIsolate
  <2> DEFINE e == Peek(Stack')
             c == Overridden(e, runeClasses[pos])
  <2>1. /\ pos \in 1..Len(text) /\ pos' = pos + 1 /\ UNCHANGED paragraph
        /\ runeClasses' = [runeClasses EXCEPT ![pos] = c]
        /\ embeddingLevels' = [embeddingLevels EXCEPT ![pos] = e.level]
    BY <1>5 DEF PopIsolate, Current, Stack
  <2>2. /\ e \in Entry /\ e.level \in Int /\ e.level <= MaxDepth
        /\ paragraphEmbeddingLevel <= e.level
    <3>1. paragraphEmbeddingLevel' = paragraphEmbeddingLevel
      BY <2>1 DEF paragraph
    <3>2. /\ paragraphEmbeddingLevel' <= Peek(Stack').level
          /\ Peek(Stack').level \in Int /\ Peek(Stack').level <= MaxDepth
      BY TopLevelNext
    <3>3. Stack' \in Seq(Entry) /\ Len(Stack') >= 1
      BY DEF IInv, BaseInv, LevelInv
    <3>4. Len(Stack') \in 1..Len(Stack')
      BY <3>3, LenProperties
    <3>5. Peek(Stack') \in Entry
      BY <3>3, <3>4, ElementOfSeq DEF Peek
    <3> QED BY <3>1, <3>2, <3>5
  <2> HIDE DEF e
  <2>3. c \in Classes
    <3>1. runeClasses[pos] \in Classes
      BY <1>2, <2>1
    <3> QED BY <2>2, <3>1, OverriddenClass
  <2>4. PICK l \in Int : l = e.level
    BY <2>2
  <2>5. 0 <= l /\ l <= MaxDepth /\ paragraphEmbeddingLevel <= l
    BY <1>2, <2>2, <2>4
  <2>6. \A k \in 1..Len(text) : IF runeClasses[k] \in Initiators THEN runeClasses[k] \in Initiators
                                                                 ELSE runeClasses[k] = runeClasses[k]
    OBVIOUS
  <2> HIDE DEF c
  <2> QED BY <1>1, <1>2, <2>1, <2>3, <2>4, <2>5, <2>6, RuneLevelStep
<1>6. CASE Skip
  <2>1. /\ pos \in 1..Len(text) /\ pos' = pos + 1 /\ runeClasses[pos] \in {"BN", "B"}
        /\ UNCHANGED <<paragraph, runeClasses>>
        /\ embeddingLevels' = [embeddingLevels EXCEPT ![pos] =
                                 IF runeClasses[pos] = "B" THEN paragraphEmbeddingLevel
                                                           ELSE embeddingLevels[pos]]
    BY <1>6 DEF Skip, Current
  <2>2. CASE runeClasses[pos] = "BN"
    <3>1. embeddingLevels' = embeddingLevels
      BY <1>2, <2>1, <2>2
    <3>2. runeClasses[pos] \in Removed
      BY <2>2 DEF Removed
    <3> QED BY <1>1, <2>1, <3>1, <3>2, RuneLevelSame
  <2>3. CASE runeClasses[pos] = "B"
    <3>1. PICK l \in Int, c \in Classes : l = paragraphEmbeddingLevel /\ c = runeClasses[pos]
      BY <1>2, <2>1
    <3>2. 0 <= l /\ l <= MaxDepth /\ paragraphEmbeddingLevel <= l
      BY <1>2, <3>1
    <3>3. /\ embeddingLevels' = [embeddingLevels EXCEPT ![pos] = l]
          /\ runeClasses' = [runeClasses EXCEPT ![pos] = c]
      BY <1>2, <2>1, <2>3, <3>1
    <3>4. \A k \in 1..Len(text) : IF runeClasses[k] \in Initiators THEN runeClasses[k] \in Initiators
                                                                   ELSE runeClasses[k] = runeClasses[k]
      OBVIOUS
    <3>5. UNCHANGED paragraph
      BY <2>1
    <3> QED BY <1>1, <1>2, <2>1, <3>2, <3>3, <3>4, <3>5, RuneLevelStep
  <2> QED BY <2>1, <2>2, <2>3
<1>7. CASE Other
  <2> DEFINE e == Peek(Stack)
             c == Overridden(e, runeClasses[pos])
  <2>1. /\ pos \in 1..Len(text) /\ pos' = pos + 1 /\ UNCHANGED paragraph
        /\ runeClasses' = [runeClasses EXCEPT ![pos] = c]
        /\ embeddingLevels' = [embeddingLevels EXCEPT ![pos] = e.level]
    BY <1>7 DEF Other, Current, Stack
  <2>2. e \in Entry /\ e.level \in Int /\ e.level <= MaxDepth /\ paragraphEmbeddingLevel <= e.level
    BY <1>1, TopFacts, TopLevel
  <2> HIDE DEF e
  <2>3. c \in Classes
    <3>1. runeClasses[pos] \in Classes
      BY <1>2, <2>1
    <3> QED BY <2>2, <3>1, OverriddenClass
  <2>4. PICK l \in Int : l = e.level
    BY <2>2
  <2>5. 0 <= l /\ l <= MaxDepth /\ paragraphEmbeddingLevel <= l
    BY <1>2, <2>2, <2>4
  <2>6. \A k \in 1..Len(text) : IF runeClasses[k] \in Initiators THEN runeClasses[k] \in Initiators
                                                                 ELSE runeClasses[k] = runeClasses[k]
    OBVIOUS
  <2> HIDE DEF c
  <2> QED BY <1>1, <1>2, <2>1, <2>3, <2>4, <2>5, <2>6, RuneLevelStep
<1>8. CASE RemoveFormatting
  <2>1. /\ pos = Len(text) + 1 /\ pos' = pos + 1 /\ UNCHANGED <<paragraph, runeClasses>>
        /\ embeddingLevels' = [i \in 1..Len(text) |->
                                 IF runeClasses[i] \in Removed THEN -1 ELSE embeddingLevels[i]]
    BY <1>8 DEF RemoveFormatting
  <2>2. /\ text' = text /\ paragraphEmbeddingLevel' = paragraphEmbeddingLevel
        /\ ~(pos' <= Len(text) + 1)
    BY <1>2, <2>1 DEF paragraph
  <2>3. ASSUME NEW q \in 1..Len(text)
        PROVE  \/ embeddingLevels'[q] = -1
               \/ /\ paragraphEmbeddingLevel <= embeddingLevels'[q]
                  /\ embeddingLevels'[q] <= MaxDepth
    <3>1. q < pos /\ pos <= Len(text) + 1
      BY <1>2, <2>1
    <3>2. embeddingLevels'[q] = IF runeClasses[q] \in Removed THEN -1 ELSE embeddingLevels[q]
      BY <2>1
    <3>3. /\ embeddingLevels[q] <= MaxDepth
          /\ runeClasses[q] \notin Removed => paragraphEmbeddingLevel <= embeddingLevels[q]
      BY <1>1, <3>1 DEF RuneLevelInv
    <3> QED BY <3>2, <3>3
  <2> QED BY <2>2, <2>3 DEF RuneLevelInv
<1>9. CASE UNCHANGED vars
  BY <1>1, <1>9 DEF vars, RuneLevelInv
<1> QED BY <1>3, <1>4, <1>5, <1>6, <1>7, <1>8, <1>9 DEF Next

LEMMA InitLevels == Init => LevelsInv
<1> SUFFICES ASSUME Init PROVE LevelsInv
  OBVIOUS
<1>1. text \in Texts /\ pos = 1 /\ Len(text) \in Nat /\ paragraphEmbeddingLevel \in {0, 1}
  BY InitBD9, LenProperties DEF Init, BD9Inv, TextInv
<1>2. FirstInv
  <2>1. Stack = <<Status(0, paragraphEmbeddingLevel, "neutral", FALSE)>>
    BY DEF Init, Stack
  <2> QED BY <2>1 DEF FirstInv, Status
<1>3. RuneLevelInv
  <2>1. \A q \in 1..Len(text) : embeddingLevels[q] = 0 /\ ~(q < pos)
    BY <1>1 DEF Init
  <2> QED BY <1>1, <2>1, DepthAssumption DEF RuneLevelInv
<1>4. EntriesInv
  BY <1>1 DEF EntriesInv
<1> QED BY <1>2, <1>3, <1>4 DEF LevelsInv

LEMMA StepLevels == IInv /\ BD9Inv /\ LevelsInv /\ [Next]_vars => LevelsInv'
<1> SUFFICES ASSUME IInv, BD9Inv, LevelsInv, [Next]_vars PROVE LevelsInv'
  OBVIOUS
<1>1. IInv'
  BY StepInv
<1>2. UNCHANGED paragraph
  BY DEF Next, PushEmbedding, PushIsolate, PopIsolate, PopEmbedding, Skip, Other, RemoveFormatting,
         vars, paragraph
<1>3. /\ Stack'[1] = Stack[1] /\ ~(pos' > pos + 1)
      /\ pos = Len(text) + 1 => Stack' = Stack
  BY StackSteps
<1>4. FirstInv'
  BY <1>2, <1>3 DEF LevelsInv, FirstInv, paragraph
<1>5. RuneLevelInv'
  BY <1>1, <1>4, RuneLevelsInv
<1>6. EntriesInv'
  <2>1. text \in Texts /\ text' = text /\ Len(text) \in Nat
    BY <1>2, LenProperties DEF LevelsInv, EntriesInv, paragraph, BD9Inv, TextInv
  <2>2. ASSUME pos' > Len(text) + 1 PROVE \A k \in 1..Len(Stack') : Stack'[k].index <= Len(text)
    <3>1. pos \in Nat /\ pos' \in Nat /\ pos <= Len(text) + 2
      BY <1>1 DEF IInv, BaseInv, BD9Inv, TextInv
    <3>2. pos = Len(text) + 1 \/ pos = Len(text) + 2
      BY <1>3, <2>1, <2>2, <3>1
    <3>3. CASE pos = Len(text) + 1
      <4>1. Stack' = Stack
        BY <1>3, <3>3
      <4>2. \A k \in 1..Len(Stack) : Stack[k].index < Len(text) + 1 /\ Stack[k].index \in Nat
        <5>1. \A k \in 1..Len(Stack) : Stack[k] \in Entry
          BY ElementOfSeq, LenProperties DEF IInv, BaseInv
        <5> QED BY <3>3, <5>1 DEF IInv, IndexInv, Entry
      <4>3. \A k \in 1..Len(Stack) : Stack[k].index <= Len(text)
        BY <2>1, <4>2
      <4> QED BY <4>1, <4>3
    <3>4. CASE pos = Len(text) + 2
      <4>1. UNCHANGED vars
        <5>1. pos \notin 1..Len(text) /\ pos # Len(text) + 1
          BY <2>1, <3>4
        <5>2. PushEmbedding \/ PushIsolate \/ PopIsolate \/ PopEmbedding \/ Skip \/ Other =>
                pos \in 1..Len(text)
          BY DEF PushEmbedding, PushIsolate, PopIsolate, PopEmbedding, Skip, Other, Current
        <5>3. RemoveFormatting => pos = Len(text) + 1
          BY DEF RemoveFormatting
        <5> QED BY <5>1, <5>2, <5>3 DEF Next
      <4>2. Stack' = Stack
        BY <4>1 DEF vars, Stack
      <4>3. pos > Len(text) + 1
        BY <2>1, <3>4
      <4> QED BY <4>2, <4>3 DEF LevelsInv, EntriesInv
    <3> QED BY <3>2, <3>3, <3>4
  <2> QED BY <2>1, <2>2 DEF EntriesInv
<1> QED BY <1>4, <1>5, <1>6 DEF LevelsInv

(***************************************************************************)
(* The order of the runs.                                                  *)
(***************************************************************************)

\* What is made of the explicit levels: a removed rune stays removed, the
\* others have at least the level of the paragraph.
LEMMA ResolvedFacts ==
  ASSUME BD9Inv, LevelsInv, Explicit, NEW n, n = Len(text), NEW levels, levels = ResolvedLevels
  PROVE  /\ n \in Nat /\ levels \in LevelLists(n)
         /\ \A i \in 1..n : levels[i] = -1 \/ paragraphEmbeddingLevel <= levels[i]
         /\ \A i \in 1..n : levels[i] <= MaxDepth + 2
<1>1. /\ n \in Nat /\ paragraphEmbeddingLevel \in {0, 1} /\ MaxDepth \in Nat
      /\ embeddingLevels \in [1..n -> Int] /\ pos > n + 1
  BY LenProperties, DepthAssumption DEF BD9Inv, TextInv, Explicit
<1>2. \A i \in 1..n : /\ embeddingLevels[i] \in Int
                      /\ \/ embeddingLevels[i] = -1
                         \/ /\ paragraphEmbeddingLevel <= embeddingLevels[i]
                            /\ embeddingLevels[i] <= MaxDepth
  BY <1>1 DEF LevelsInv, RuneLevelInv
<1>3. ASSUME NEW c, NEW l \in Int, l = -1 \/ l >= 0
      PROVE  Implicit(c, l) = l \/ (l >= 0 /\ Implicit(c, l) \in {l + 1, l + 2})
  BY <1>3 DEF Implicit
<1>4. PICK cl : cl = ResolvedClasses
  OBVIOUS
<1>5. levels = [i \in 1..n |-> Implicit(cl[i], embeddingLevels[i])]
  BY <1>1, <1>4 DEF ResolvedLevels, ImplicitLevels
<1>6. ASSUME NEW i \in 1..n
      PROVE  /\ levels[i] \in Nat \cup {-1}
             /\ levels[i] = -1 \/ paragraphEmbeddingLevel <= levels[i]
             /\ levels[i] <= MaxDepth + 2
  <2>0. PICK l \in Int : l = embeddingLevels[i]
    BY <1>2
  <2>1. PICK c : l = embeddingLevels[i] /\ c = cl[i]
    BY <2>0
  <2>2. l = -1 \/ (paragraphEmbeddingLevel <= l /\ l <= MaxDepth /\ l >= 0)
    BY <1>1, <1>2, <2>1
  <2>3. levels[i] = l \/ (l >= 0 /\ levels[i] \in {l + 1, l + 2})
    BY <1>3, <1>5, <2>1, <2>2
  <2> QED BY <1>1, <2>2, <2>3
<1>7. levels \in LevelLists(n)
  BY <1>5, <1>6 DEF LevelLists
<1> QED BY <1>1, <1>6, <1>7

\* The part of a sequence from start to end.
LEMMA SliceFacts ==
  ASSUME NEW n \in Nat, NEW S, NEW s, \A k \in 1..n : s[k] \in S,
         NEW start \in 1..n, NEW end \in 1..n, start <= end
  PROVE  /\ SubSeq(s, start, end) \in [1..(end - start + 1) -> S]
         /\ Len(SubSeq(s, start, end)) = end - start + 1
         /\ \A i \in 1..(end - start + 1) : SubSeq(s, start, end)[i] = s[start + i - 1]
<1>1. start \in Int /\ end \in Int /\ \A k \in start..end : s[k] \in S
  OBVIOUS
<1>2. PICK t : t = SubSeq(s, start, end)
  OBVIOUS
<1>3. /\ t \in Seq(S) /\ Len(t) = end - start + 1
      /\ \A i \in 1..(end - start + 1) : t[i] = s[start + i - 1]
  BY <1>1, <1>2, SubSeqProperties
<1>4. t \in [1..(end - start + 1) -> S]
  BY <1>3, LenProperties
<1> QED BY <1>2, <1>3, <1>4

\* The levels of the runes of a line.
LEMMA SliceLevels ==
  ASSUME NEW n \in Nat, NEW levels \in LevelLists(n),
         NEW start \in 1..n, NEW end \in 1..n, start <= end, NEW m \in Nat, m = end - start + 1
  PROVE  /\ SubSeq(levels, start, end) \in LevelLists(m)
         /\ \A i \in 1..m : SubSeq(levels, start, end)[i] = levels[start + i - 1]
<1>1. PICK V : V = Nat \cup {-1}
  OBVIOUS
<1>2. \A k \in 1..n : levels[k] \in V
  BY <1>1 DEF LevelLists
<1>3. start \in Int /\ end \in Int /\ \A k \in start..end : levels[k] \in V
  BY <1>2
<1>4. PICK t : t = SubSeq(levels, start, end)
  OBVIOUS
<1>5. /\ t \in Seq(V) /\ Len(t) = end - start + 1
      /\ \A i \in 1..(end - start + 1) : t[i] = levels[start + i - 1]
  BY <1>3, <1>4, SubSeqProperties
<1>6. t \in [1..m -> V] /\ \A i \in 1..m : t[i] = levels[start + i - 1]
  BY <1>5, LenProperties
<1> QED BY <1>1, <1>4, <1>6 DEF LevelLists

\* In a line, whose levels L1 has reset, L2 gives the visual order.
LEMMA LineOrder ==
  ASSUME NEW m \in Nat, NEW lv \in LevelLists(m), NEW line, Len(line) = m,
         paragraphEmbeddingLevel \in Nat, NEW highest \in Int,
         \A i \in 1..m : lv[i] = -1 \/ paragraphEmbeddingLevel <= lv[i],
         \A i \in 1..m : lv[i] <= highest,
         NEW runs, runs = Runs(LineLevels(lv, line, paragraphEmbeddingLevel)),
         NEW order, order = ReorderRuns(runs, highest)
  PROVE  InVisualOrder([k \in DOMAIN order |-> runs[order[k]]],
                       [i \in DOMAIN lv |-> IF lv[i] = -1 THEN -1 ELSE RuleLineLevel(lv, line, i)])
<1>1. PICK par \in Nat : par = paragraphEmbeddingLevel
  OBVIOUS
<1>2. PICK r : r = LineLevels(lv, line, par)
  OBVIOUS
<1>3. r = [i \in 1..m |-> IF lv[i] # -1 /\ Trailing(lv, line, i) THEN par ELSE lv[i]]
  <2>1. m \in Nat /\ lv \in LevelLists(m) /\ Len(line) = m /\ par \in Nat
    OBVIOUS
  <2>2. LineLevels(lv, line, par) = LineReset(m, lv, line, par)
    BY <2>1, LineLevelsFacts
  <2> QED BY <1>2, <2>2 DEF LineReset
<1>4. \A i \in 1..m : lv[i] \in Nat \cup {-1}
  BY DEF LevelLists
<1>5. r \in LevelLists(m)
  BY <1>3, <1>4 DEF LevelLists
<1>6. \A i \in 1..m : r[i] <= highest
  <2> TAKE i \in 1..m
  <2>1. lv[i] # -1 => par <= lv[i]
    BY <1>1
  <2>2. lv[i] <= highest /\ lv[i] \in Int
    BY <1>4
  <2> QED BY <1>3, <2>1, <2>2
<1>7. InVisualOrder([k \in DOMAIN order |-> runs[order[k]]], r)
  BY <1>1, <1>2, <1>5, <1>6, LineInVisualOrder
<1>8. \A i \in 1..m : RuleLineLevel(lv, line, i) = IF Trailing(lv, line, i) THEN par ELSE lv[i]
  BY <1>1 DEF RuleLineLevel, Trailing
<1>9. \A i \in 1..m : (IF lv[i] = -1 THEN -1 ELSE RuleLineLevel(lv, line, i))
                         = IF lv[i] # -1 /\ Trailing(lv, line, i) THEN par ELSE lv[i]
  BY <1>8
<1>10. DOMAIN lv = 1..m
  BY DEF LevelLists
<1>11. [i \in DOMAIN lv |-> IF lv[i] = -1 THEN -1 ELSE RuleLineLevel(lv, line, i)] = r
  BY <1>3, <1>9, <1>10
<1> QED BY <1>7, <1>11

\* The types of the pass, for every text and every depth.
THEOREM ExplicitTypes == Spec => []TypeOK
<1>1. Spec => []LevelsInv
  BY InitLevels, StepLevels, InitBD9, StepBD9, Invariance, PTL DEF Spec
<1>2. Spec => []BD9Inv
  BY InitBD9, StepBD9, Invariance, PTL DEF Spec
<1>3. ASSUME IInv, BD9Inv, LevelsInv PROVE TypeOK
  <2>1. /\ Len(text) \in Nat /\ paragraphEmbeddingLevel \in {0, 1} /\ pos \in 1..(Len(text) + 2)
        /\ runeClasses \in [1..Len(text) -> Classes] /\ embeddingLevels \in [1..Len(text) -> Int]
        /\ text \in Texts /\ MaxDepth \in Nat
    BY <1>3, LenProperties, DepthAssumption DEF BD9Inv, TextInv, LevelsInv, EntriesInv
  <2>2. embeddingLevels \in [1..Len(text) -> -1..MaxDepth]
    <3>1. ASSUME NEW q \in 1..Len(text) PROVE embeddingLevels[q] \in -1..MaxDepth
      <4>1. embeddingLevels[q] \in Int /\ (pos <= Len(text) + 1 \/ pos > Len(text) + 1)
        BY <2>1
      <4>2. /\ pos <= Len(text) + 1 => 0 <= embeddingLevels[q] /\ embeddingLevels[q] <= MaxDepth
            /\ pos > Len(text) + 1 =>
                  \/ embeddingLevels[q] = -1
                  \/ paragraphEmbeddingLevel <= embeddingLevels[q] /\ embeddingLevels[q] <= MaxDepth
        BY <1>3 DEF LevelsInv, RuneLevelInv
      <4> QED BY <2>1, <4>1, <4>2
    <3> QED BY <2>1, <3>1
  <2>3. Stack \in Seq([index : 0..Len(text), level : 0..MaxDepth, override : Override, isolate : BOOLEAN])
    <3>1. Stack \in Seq(Entry) /\ Len(Stack) \in Nat /\ \A k \in 1..Len(Stack) : Stack[k] \in Entry
      BY <1>3, LenProperties, ElementOfSeq DEF IInv, BaseInv
    <3>2. ASSUME NEW k \in 1..Len(Stack)
          PROVE  Stack[k].index \in 0..Len(text) /\ Stack[k].level \in 0..MaxDepth
      <4>1. Stack[k].index \in Nat /\ Stack[k].level \in Int
        BY <3>1 DEF Entry
      <4>2. k - 1 <= Stack[k].level /\ Stack[k].level <= MaxDepth /\ k \in Nat /\ 1 <= k
        BY <1>3, <3>1 DEF IInv, LevelInv
      <4>3. Stack[k].index <= Len(text)
        <5>1. Stack[k].index < pos
          BY <1>3 DEF IInv, IndexInv
        <5>2. pos > Len(text) + 1 => Stack[k].index <= Len(text)
          BY <1>3 DEF LevelsInv, EntriesInv
        <5> QED BY <2>1, <4>1, <5>1, <5>2
      <4> QED BY <2>1, <4>1, <4>2, <4>3
    <3> DEFINE E == [index : 0..Len(text), level : 0..MaxDepth, override : Override, isolate : BOOLEAN]
    <3>3. ASSUME NEW e \in Entry, e.index \in 0..Len(text), e.level \in 0..MaxDepth
          PROVE  e \in E
      BY <3>3 DEF Entry
    <3>4. \A k \in 1..Len(Stack) : Stack[k] \in E
      BY <3>1, <3>2, <3>3
    <3>5. Stack = [k \in 1..Len(Stack) |-> Stack[k]]
      BY <3>1
    <3> HIDE DEF E
    <3>6. PICK m, V : m \in Nat /\ m = Len(Stack) /\ V = E
      BY <3>1
    <3>7. Stack \in [1..m -> V]
      BY <3>4, <3>5, <3>6
    <3>8. Stack \in Seq(V)
      BY <3>6, <3>7
    <3>9. Stack \in Seq(E)
      BY <3>6, <3>8
    <3> QED BY <3>9 DEF E
  <2>4. /\ overflowIsolateCount \in Nat /\ overflowEmbeddingCount \in Nat /\ validIsolateCount \in Nat
    BY <1>3, IsolatesFinite, FS_CardinalityType DEF IInv, BaseInv, CountInv
  <2>5. ASSUME NEW i \in DOMAIN isolatePDIs PROVE i \in 1..Len(text)
    <3>1. i \in Nat /\ isolatePDIs[i] \in Nat /\ isolatePDIs[i] < pos /\ i < isolatePDIs[i]
      BY <1>3 DEF IInv, PairInv, WellNested
    <3>2. 1 \in 1..Len(Stack)
      BY <1>3, TopFacts
    <3>3. Stack[1].index < i \/ isolatePDIs[i] < Stack[1].index
      BY <1>3, <3>2 DEF IInv, PairInv
    <3>4. Stack[1].index = 0
      BY <1>3 DEF LevelsInv, FirstInv
    <3> QED BY <2>1, <3>1, <3>3, <3>4
  <2> QED BY <2>1, <2>2, <2>3, <2>4, <2>5 DEF TypeOK, Stack
<1> QED BY <1>1, <1>2, <1>3, Invariance, PTL

\* In the runs of the whole paragraph, and in those of any line of it, a rune is
\* drawn to the left of a later one if and only if the lowest level on the way
\* from one to the other is even: for every text and every depth
\* (bidi.go:1354-1490).
THEOREM RunsInVisualOrder == Spec => []VisualOrder
<1>1. Spec => []LevelsInv
  BY InitLevels, StepLevels, InitBD9, StepBD9, Invariance, PTL DEF Spec
<1>2. Spec => []BD9Inv
  BY InitBD9, StepBD9, Invariance, PTL DEF Spec
<1>3. ASSUME BD9Inv, LevelsInv PROVE VisualOrder
  <2> SUFFICES ASSUME Explicit PROVE VisualOrder
    BY DEF VisualOrder
  <2>1. PICK n, levels : n = Len(text) /\ levels = ResolvedLevels
    OBVIOUS
  <2>2. /\ n \in Nat /\ levels \in LevelLists(n)
        /\ \A i \in 1..n : levels[i] = -1 \/ paragraphEmbeddingLevel <= levels[i]
        /\ \A i \in 1..n : levels[i] <= MaxDepth + 2
    BY <1>3, <2>1, ResolvedFacts
  <2>3. /\ text \in Seq(Runes) /\ paragraphEmbeddingLevel \in Nat /\ DOMAIN text = 1..n
        /\ MaxDepth \in Nat /\ \A k \in 1..n : text[k] \in Runes
    BY <1>3, <2>1, DepthAssumption, LenProperties, ElementOfSeq DEF BD9Inv, TextInv
  <2>4. DOMAIN levels = 1..n /\ \A i \in 1..n : levels[i] \in Nat \cup {-1}
    BY <2>2 DEF LevelLists
  <2>5. PICK M : M = {levels[i] : i \in DOMAIN levels} \cup {0}
    OBVIOUS
  <2>6. M \in SUBSET Int /\ M # {} /\ MaxDepth + 2 \in Int /\ \A x \in M : x <= MaxDepth + 2
    BY <2>2, <2>3, <2>4, <2>5
  <2>7. Max(M) \in M /\ \A x \in M : x <= Max(M)
    BY <2>6, MaxFacts
  <2>8. PICK highest \in Int : highest = Max(M)
    BY <2>6, <2>7
  <2>9. \A i \in 1..n : levels[i] <= highest
    BY <2>4, <2>5, <2>7, <2>8
  <2>10. PICK runs, order : runs = Runs(levels) /\ order = ReorderRuns(runs, highest)
    OBVIOUS
  <2>11. InVisualOrder([k \in DOMAIN order |-> runs[order[k]]], levels)
    BY <2>2, <2>9, <2>10, LineInVisualOrder
  <2>12. ASSUME NEW start \in DOMAIN text, NEW end \in DOMAIN text, start <= end,
                NEW lv, lv = SubSeq(levels, start, end), NEW line, line = SubSeq(text, start, end)
         PROVE  InVisualOrder(Order(levels, start, end),
                   [i \in DOMAIN lv |-> IF lv[i] = -1 THEN -1 ELSE RuleLineLevel(lv, line, i)])
    <3>1. start \in 1..n /\ end \in 1..n
      BY <2>3
    <3>2. PICK m \in Nat : m = end - start + 1
      BY <2>12, <3>1
    <3>3. lv \in LevelLists(m) /\ \A i \in 1..m : lv[i] = levels[start + i - 1]
      <4>1. start <= end
        BY <2>12
      <4>2. /\ SubSeq(levels, start, end) \in LevelLists(m)
            /\ \A i \in 1..m : SubSeq(levels, start, end)[i] = levels[start + i - 1]
        BY <2>2, <3>1, <3>2, <4>1, SliceLevels
      <4> QED BY <2>12, <4>2
    <3>4. Len(line) = m
      BY <2>2, <2>3, <2>12, <3>1, <3>2, SliceFacts
    <3>6. \A i \in 1..m : start + i - 1 \in 1..n
      BY <2>2, <3>1, <3>2
    <3>7. /\ \A i \in 1..m : lv[i] = -1 \/ paragraphEmbeddingLevel <= lv[i]
          /\ \A i \in 1..m : lv[i] <= highest
      BY <2>2, <2>9, <3>3, <3>6
    <3>8. PICK r, o : /\ r = Runs(LineLevels(lv, line, paragraphEmbeddingLevel))
                      /\ o = ReorderRuns(r, highest)
      OBVIOUS
    <3>9. Order(levels, start, end) = [k \in DOMAIN o |-> r[o[k]]]
      BY <2>5, <2>8, <2>12, <3>8 DEF Order
    <3>10. InVisualOrder([k \in DOMAIN o |-> r[o[k]]],
              [i \in DOMAIN lv |-> IF lv[i] = -1 THEN -1 ELSE RuleLineLevel(lv, line, i)])
      BY <2>3, <3>3, <3>4, <3>7, <3>8, LineOrder
    <3> QED BY <3>9, <3>10
  <2> QED BY <2>1, <2>5, <2>8, <2>10, <2>11, <2>12 DEF VisualOrder, EachInVisualOrder
<1> QED BY <1>1, <1>2, <1>3, PTL
=============================================================================

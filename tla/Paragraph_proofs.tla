---------------------------- MODULE Paragraph_proofs ----------------------------
(***************************************************************************)
(* Proofs about Paragraph: for every text, with any styles, levels and      *)
(* widths, the lines of a layout cover the text, each ends where the text   *)
(* may be broken, and the runs of a line are exactly its runes; and every   *)
(* line takes the paragraph further, if every stretch between two breaks    *)
(* fits and the last rune has a glyph of its own.                           *)
(*                                                                         *)
(* The argument follows the stages.  LineBreak allows a break after the     *)
(* last rune and none before the first (BreaksInv).  The runs tile what has *)
(* been added (Collected), then the text (TextRuns), through each split.    *)
(* The lines follow each other until none fits any more; from there on the  *)
(* layout runs in circles (Trapped), and is never done.  Where every stretch *)
(* fits, a width never decreases from a glyph to the next, so that the next *)
(* break is a candidate for the end of a line.                              *)
(***************************************************************************)
EXTENDS Paragraph, BidiRuns_proofs

(***************************************************************************)
(* Tuples, of elements that need not be of one kind.                       *)
(***************************************************************************)
\* A tuple, whatever its elements are.
IsList(s) == \E V : s \in Seq(V)

\* The two ways in which a tuple is changed, as predicates.
Appends(s, x, t) == t = Append(s, x)
Puts(s, j, x, t) == t = [s EXCEPT ![j] = x]

\* The length of a tuple and its places.
LEMMA ListFacts ==
  ASSUME NEW s, IsList(s)
  PROVE  Len(s) \in Nat /\ DOMAIN s = 1..Len(s)
BY DEF IsList

\* A function on 1..m is a tuple.
LEMMA ListOf ==
  ASSUME NEW m \in Nat, NEW s, s = [k \in 1..m |-> s[k]]
  PROVE  IsList(s) /\ Len(s) = m
<1>1. PICK V : V = {s[k] : k \in 1..m}
  OBVIOUS
<1>2. \A k \in 1..m : s[k] \in V
  BY <1>1
<1>3. s \in [1..m -> V]
  BY <1>2
<1>4. s \in Seq(V) /\ Len(s) = m
  BY <1>3, SeqDef
<1> QED BY <1>4 DEF IsList

\* What an element at the end changes.
LEMMA ListAppend ==
  ASSUME NEW s, IsList(s), NEW x, NEW t, Appends(s, x, t)
  PROVE  /\ IsList(t) /\ Len(t) = Len(s) + 1 /\ t[Len(s) + 1] = x
         /\ \A k \in 1..Len(s) : t[k] = s[k]
<1>1. PICK V : s \in Seq(V)
  BY DEF IsList
<1>2. PICK W : W = V \cup {x}
  OBVIOUS
<1>3. s \in Seq(W) /\ x \in W
  BY <1>1, <1>2, SeqMonotonic
<1>4. t = Append(s, x)
  BY DEF Appends
<1>5. t \in Seq(W)
  BY <1>3, <1>4
<1> QED BY <1>3, <1>4, <1>5 DEF IsList

\* A tuple without its last element.
LEMMA ListFront ==
  ASSUME NEW s, IsList(s), Len(s) >= 1
  PROVE  /\ IsList(Front(s)) /\ Len(Front(s)) = Len(s) - 1
         /\ \A k \in 1..(Len(s) - 1) : Front(s)[k] = s[k]
<1>1. PICK V : s \in Seq(V)
  BY DEF IsList
<1>2. PICK m \in Nat : m = Len(s) - 1
  BY <1>1
<1>3. Front(s) = SubSeq(s, 1, m)
  BY <1>2 DEF Front
<1>4. 1 \in 1..(Len(s) + 1) /\ m \in 0..Len(s)
  BY <1>1, <1>2
<1>5. /\ SubSeq(s, 1, m) \in Seq(V) /\ Len(SubSeq(s, 1, m)) = m
      /\ \A k \in 1..m : SubSeq(s, 1, m)[k] = s[k]
  BY <1>1, <1>2, <1>4, SubSeqProperties
<1> QED BY <1>2, <1>3, <1>5 DEF IsList

\* What putting an element in the place of another changes.
LEMMA ListSet ==
  ASSUME NEW s, IsList(s), NEW j \in 1..Len(s), NEW x, NEW t, Puts(s, j, x, t)
  PROVE  /\ IsList(t) /\ Len(t) = Len(s) /\ t[j] = x
         /\ \A k \in 1..Len(s) : k # j => t[k] = s[k]
<1>1. PICK V : s \in Seq(V)
  BY DEF IsList
<1>2. PICK W : W = V \cup {x}
  OBVIOUS
<1>3. s \in Seq(W) /\ x \in W
  BY <1>1, <1>2, SeqMonotonic
<1>4. t = [s EXCEPT ![j] = x]
  BY DEF Puts
<1>5. t \in Seq(W) /\ Len(t) = Len(s)
  BY <1>3, <1>4, ExceptSeq
<1> QED BY <1>3, <1>4, <1>5 DEF IsList

\* One tuple behind another.
LEMMA ListConcat ==
  ASSUME NEW s, IsList(s), NEW t, IsList(t)
  PROVE  /\ IsList(s \o t) /\ Len(s \o t) = Len(s) + Len(t)
         /\ \A k \in 1..Len(s) : (s \o t)[k] = s[k]
         /\ \A k \in 1..Len(t) : (s \o t)[Len(s) + k] = t[k]
<1>1. PICK V : s \in Seq(V)
  BY DEF IsList
<1>2. PICK U : t \in Seq(U)
  BY DEF IsList
<1>3. PICK W : W = V \cup U
  OBVIOUS
<1>4. s \in Seq(W) /\ t \in Seq(W)
  BY <1>1, <1>2, <1>3, SeqMonotonic
<1>5. PICK c : c = s \o t
  OBVIOUS
<1>6. c \in Seq(W) /\ Len(c) = Len(s) + Len(t) /\
      \A i \in 1..(Len(s) + Len(t)) : c[i] = IF i <= Len(s) THEN s[i] ELSE t[i - Len(s)]
  BY <1>4, <1>5, ConcatProperties
<1>7. Len(s) \in Nat /\ Len(t) \in Nat
  BY <1>4
<1>8. ASSUME NEW k \in 1..Len(s) PROVE c[k] = s[k]
  BY <1>6, <1>7
<1>9. ASSUME NEW k \in 1..Len(t) PROVE c[Len(s) + k] = t[k]
  <2>1. Len(s) + k \in 1..(Len(s) + Len(t)) /\ ~(Len(s) + k <= Len(s)) /\ (Len(s) + k) - Len(s) = k
    BY <1>7
  <2> QED BY <1>6, <2>1
<1> QED BY <1>5, <1>6, <1>8, <1>9 DEF IsList

(***************************************************************************)
(* LineBreak: a text may be broken at its end and not before it.           *)
(***************************************************************************)

\* The rule of LB2 comes before those that the runes propose.
Late(proposals) == \A q \in proposals : q.rule \in Int /\ q.rule >= 40

\* Every rule on the gap around a rune comes after LB2.
LEMMA RulesAreLate ==
  ASSUME NEW i, NEW count
  PROVE  Late(RegionalRule(i, count) \cup SpacingRules(i) \cup QuoteRules(i)
               \cup PunctuationRules(i) \cup WordRules(i) \cup ScriptRules(i))
<1>1. Late(RegionalRule(i, count))
  BY DEF Late, Before, After, When, NeverBefore, NeverAfter, RegionalRule
<1>2. Late(SpacingRules(i))
  BY DEF Late, Before, After, When, NeverBefore, NeverAfter, SpacingRules
<1>3. Late(QuoteRules(i))
  BY DEF Late, Before, After, When, NeverBefore, NeverAfter, QuoteRules
<1>4. Late(PunctuationRules(i))
  BY DEF Late, Before, After, When, NeverBefore, NeverAfter, PunctuationRules
<1>5. Late(WordRules(i))
  BY DEF Late, Before, After, When, NeverBefore, NeverAfter, WordRules
<1>6. Late(ScriptRules(i))
  BY DEF Late, Before, After, When, NeverBefore, NeverAfter, ScriptRules
<1> QED BY <1>1, <1>2, <1>3, <1>4, <1>5, <1>6 DEF Late

\* The loop of Classify, in a text of n runes: no rule has spoken on the gap
\* before the first rune.
Classifying(a, n) ==
  /\ DOMAIN a = {"indices", "classes", "before", "rules", "catchCM"}
  /\ IsList(a.classes)
  /\ DOMAIN a.before = 1..(n + 1) /\ DOMAIN a.rules = 1..(n + 1) /\ a.rules[1] = 310

\* No rune is classified by a rule on the gap before the first.
LEMMA ClassifyRuneFacts ==
  ASSUME NEW n \in Nat, NEW a, Classifying(a, n), NEW i \in 1..n
  PROVE  Classifying(ClassifyRune(a, i), n)
<1> DEFINE As(d) == [a EXCEPT !.indices = Append(@, i), !.classes = Append(@, d)]
           mark  == IF a.catchCM THEN [a EXCEPT !.before[i] = "never"] ELSE As("AL")
<1>1. ASSUME NEW d PROVE Classifying(As(d), n)
  <2>1. PICK cl : cl = Append(a.classes, d)
    OBVIOUS
  <2>2. IsList(cl)
    <3> HIDE DEF As, mark
    <3>1. IsList(a.classes) /\ Appends(a.classes, d, cl)
      BY <2>1 DEF Classifying, Appends
    <3> QED BY <3>1, ListAppend
  <2>3. PICK b : b = As(d)
    OBVIOUS
  <2>4. /\ DOMAIN b = {"indices", "classes", "before", "rules", "catchCM"}
        /\ b.classes = cl /\ b.before = a.before /\ b.rules = a.rules
    BY <2>1, <2>3 DEF Classifying
  <2> HIDE DEF As
  <2> QED BY <2>2, <2>3, <2>4 DEF Classifying
<1>2. Classifying(mark, n)
  <2>1. PICK b : b = [a EXCEPT !.before[i] = "never"]
    OBVIOUS
  <2>2. /\ DOMAIN b = {"indices", "classes", "before", "rules", "catchCM"}
        /\ b.classes = a.classes /\ DOMAIN b.before = DOMAIN a.before /\ b.rules = a.rules
    BY <2>1 DEF Classifying
  <2>3. Classifying(b, n)
    BY <2>2 DEF Classifying
  <2> HIDE DEF As
  <2> QED BY <1>1, <2>1, <2>3
<1> HIDE DEF As, mark
<1>3. ASSUME NEW s, Classifying(s, n), NEW v PROVE Classifying([s EXCEPT !.catchCM = v], n)
  BY <1>3 DEF Classifying
<1>4. ASSUME NEW s, Classifying(s, n)
      PROVE  Classifying([s EXCEPT !.before[i + 1] = "never", !.rules[i + 1] = 10], n)
  <2>1. PICK b : b = [s EXCEPT !.before[i + 1] = "never", !.rules[i + 1] = 10]
    OBVIOUS
  <2>2. /\ DOMAIN b = {"indices", "classes", "before", "rules", "catchCM"}
        /\ b.classes = s.classes /\ DOMAIN b.before = DOMAIN s.before
        /\ b.rules = [s.rules EXCEPT ![i + 1] = 10]
    BY <1>4, <2>1 DEF Classifying
  <2>3. 1 \in 1..(n + 1) /\ i + 1 # 1
    OBVIOUS
  <2>4. DOMAIN b.rules = 1..(n + 1) /\ b.rules[1] = 310
    BY <1>4, <2>2, <2>3 DEF Classifying
  <2> QED BY <1>4, <2>1, <2>2, <2>4 DEF Classifying
<1>5. PICK c : c = Resolved(text[i])
  OBVIOUS
<1>6. \/ ClassifyRune(a, i) = [As(c) EXCEPT !.catchCM = FALSE]
      \/ ClassifyRune(a, i) = mark
      \/ ClassifyRune(a, i) = [mark EXCEPT !.before[i + 1] = "never", !.rules[i + 1] = 10]
      \/ ClassifyRune(a, i) = [As(c) EXCEPT !.catchCM = TRUE]
  BY <1>5 DEF ClassifyRune, As, mark
<1>7. Classifying(As(c), n) /\ Classifying(mark, n)
  BY <1>1, <1>2
<1>8. /\ Classifying([As(c) EXCEPT !.catchCM = FALSE], n)
      /\ Classifying([As(c) EXCEPT !.catchCM = TRUE], n)
  BY <1>3, <1>7, Zenon
<1>9. Classifying([mark EXCEPT !.before[i + 1] = "never", !.rules[i + 1] = 10], n)
  BY <1>4, <1>7, Zenon
<1> QED BY <1>6, <1>7, <1>8, <1>9, Zenon

\* The loop of Classify leaves that gap alone.
LEMMA ClassifiedFacts ==
  ASSUME NEW n \in Nat, Len(text) = n, DOMAIN before = 1..(n + 1),
         DOMAIN appliedRules = 1..(n + 1), appliedRules[1] = 310
  PROVE  Classifying(Classified, n)
<1> DEFINE first == [indices |-> <<>>, classes |-> <<>>, before |-> before,
                     rules |-> appliedRules, catchCM |-> FALSE]
<1>2. Classifying(first, n)
  <2>1. first.classes \in Seq({})
    OBVIOUS
  <2>2. IsList(first.classes)
    BY <2>1 DEF IsList
  <2> QED BY <2>2 DEF Classifying
<1> HIDE DEF first
<1> DEFINE Fits(f, i) == f = [j \in 0..i |-> IF j = 0 THEN first ELSE ClassifyRune(f[j - 1], j)]
           P == {i \in 0..n : \E f : Fits(f, i)}
<1>3. 0 \in P
  <2>1. PICK f : f = [j \in 0..0 |-> first]
    OBVIOUS
  <2>2. f = [j \in 0..0 |-> IF j = 0 THEN first ELSE ClassifyRune(f[j - 1], j)]
    BY <2>1
  <2> QED BY <2>2
<1>4. ASSUME NEW i \in (0 + 1)..n, i - 1 \in P PROVE i \in P
  <2>1. PICK f : Fits(f, i - 1)
    BY <1>4
  <2>2. PICK g : g = [j \in 0..i |-> IF j = i THEN ClassifyRune(f[i - 1], i) ELSE f[j]]
    OBVIOUS
  <2>3. ASSUME NEW j \in 0..i PROVE g[j] = IF j = 0 THEN first ELSE ClassifyRune(g[j - 1], j)
    <3>1. i # 0 /\ i \in Int /\ (j # 0 => j - 1 \in 0..i /\ j - 1 # i)
      OBVIOUS
    <3>2. j # 0 => g[j - 1] = f[j - 1]
      BY <2>2, <3>1
    <3>3. j # i => g[j] = f[j] /\ j \in 0..(i - 1)
      BY <2>2
    <3>4. j # i => f[j] = IF j = 0 THEN first ELSE ClassifyRune(f[j - 1], j)
      BY <2>1, <3>3
    <3>5. j = i => g[j] = ClassifyRune(f[j - 1], j)
      BY <2>2
    <3> QED BY <3>1, <3>2, <3>3, <3>4, <3>5
  <2>4. Fits(g, i)
    BY <2>2, <2>3
  <2> HIDE DEF Fits
  <2> QED BY <2>4
<1>5. n \in P
  <2> HIDE DEF P
  <2>1. 0 <= n /\ 0 \in Int /\ n \in Int /\ n \in 0..n
    OBVIOUS
  <2>2. \A k \in 0..n : k \in P
    BY <1>3, <1>4, <2>1, InductionUp
  <2> QED BY <2>1, <2>2
<1> DEFINE upTo == CHOOSE f : Fits(f, n)
<1>6. Fits(upTo, n)
  <2> HIDE DEF Fits
  <2> QED BY <1>5
<1>7. Classified = upTo[n]
  BY DEF Classified, first
<1> HIDE DEF upTo
<1>8. \A i \in 0..n : upTo[i] = IF i = 0 THEN first ELSE ClassifyRune(upTo[i - 1], i)
  BY <1>6
<1> DEFINE Q == {i \in 0..n : Classifying(upTo[i], n)}
<1>9. 0 \in Q
  BY <1>2, <1>8
<1>10. ASSUME NEW i \in (0 + 1)..n, i - 1 \in Q PROVE i \in Q
  <2>1. i \in 1..n /\ i # 0 /\ i \in 0..n
    OBVIOUS
  <2>2. Classifying(upTo[i - 1], n)
    BY <1>10
  <2>3. upTo[i] = ClassifyRune(upTo[i - 1], i)
    BY <1>8, <2>1
  <2>4. Classifying(upTo[i], n)
    BY <2>1, <2>2, <2>3, ClassifyRuneFacts
  <2> QED BY <2>1, <2>4
<1>11. n \in Q
  <2> HIDE DEF Q
  <2>1. 0 <= n /\ 0 \in Int /\ n \in Int /\ n \in 0..n
    OBVIOUS
  <2>2. \A k \in 0..n : k \in Q
    BY <1>9, <1>10, <2>1, InductionUp
  <2> QED BY <2>1, <2>2
<1> QED BY <1>7, <1>11

\* There is no break before the first rune: LB2 has the first word on it.
BreaksInv ==
  /\ text \in Texts /\ pos \in Nat
  /\ pos = 0 => /\ indices = <<>> /\ DOMAIN before = Gaps /\ DOMAIN appliedRules = Gaps
                /\ appliedRules[1] = 310
  /\ pos # 0 => Size \in Nat /\ before[1] = "never" /\ appliedRules[1] = 20
  /\ returned => res.Breaks \in SUBSET (1..Len(text)) /\ Len(text) \in res.Breaks

\* A text is a tuple and not empty.
LEMMA TextFacts ==
  ASSUME text \in Texts
  PROVE  Len(text) \in Nat \ {0} /\ DOMAIN text = 1..Len(text)
BY LineBreakAssumption, EmptySeq DEF LineBreakAssumption

\* Process begins with no rule on any gap.
LEMMA BreaksInit ==
  ASSUME Init PROVE BreaksInv
<1>1. text \in Texts /\ pos = 0 /\ indices = <<>>
  BY DEF Init
<1>2. PICK n \in Nat : n = Len(text)
  BY <1>1, TextFacts
<1>3. before = [p \in 1..(n + 1) |-> "may"] /\ appliedRules = [p \in 1..(n + 1) |-> 310]
  BY <1>2 DEF Init, Gaps
<1>4. DOMAIN before = 1..(n + 1) /\ DOMAIN appliedRules = 1..(n + 1) /\ appliedRules[1] = 310
  <2>1. 1 \in 1..(n + 1)
    OBVIOUS
  <2> QED BY <1>3, <2>1
<1> QED BY <1>1, <1>2, <1>4 DEF BreaksInv, returned, Gaps

\* What comes later than LB2 does not change the gap it has decided.
LEMMA ProposeKeepsFirst ==
  ASSUME NEW n \in Nat, Gaps = 1..(n + 1), NEW proposals, Late(proposals), Propose(proposals),
         before[1] = "never", appliedRules[1] = 20
  PROVE  before'[1] = "never" /\ appliedRules'[1] = 20
<1> DEFINE Best(p) == {q \in proposals :
                         /\ indices[q.at] = p
                         /\ \A o \in proposals : indices[o.at] = p => q.rule <= o.rule}
           wins(p) == Best(p) # {} /\ (CHOOSE q \in Best(p) : TRUE).rule < appliedRules[p]
<1>1. ~wins(1)
  <2> SUFFICES ASSUME wins(1) PROVE FALSE
    OBVIOUS
  <2>1. PICK q : q = CHOOSE x \in Best(1) : TRUE
    OBVIOUS
  <2>2. q \in Best(1)
    <3> HIDE DEF Best
    <3> QED BY <2>1
  <2>3. q \in proposals
    BY <2>2
  <2>4. q.rule \in Int /\ q.rule >= 40
    BY <2>3 DEF Late
  <2>5. q.rule < 20
    BY <2>1
  <2> QED BY <2>4, <2>5
<1>2. 1 \in Gaps
  OBVIOUS
<1> DEFINE v(p) == (CHOOSE q \in Best(p) : TRUE).verdict
           r(p) == (CHOOSE q \in Best(p) : TRUE).rule
<1>3. /\ before' = [p \in Gaps |-> IF wins(p) THEN v(p) ELSE before[p]]
      /\ appliedRules' = [p \in Gaps |-> IF wins(p) THEN r(p) ELSE appliedRules[p]]
  BY DEF Propose
<1> HIDE DEF wins, v, r, Best
<1> QED BY <1>1, <1>2, <1>3

\* Process never lets the text be broken before its first rune, and always after
\* its last (LB2, LB3 of linebreak.go).
LEMMA BreaksStep ==
  ASSUME BreaksInv, [Next]_vars
  PROVE  BreaksInv'
<1>1. PICK n \in Nat \ {0} : n = Len(text)
  BY TextFacts DEF BreaksInv
<1>2. text \in Texts /\ pos \in Nat
  BY DEF BreaksInv
<1>3. CASE UNCHANGED vars
  <2>1. /\ text' = text /\ pos' = pos /\ indices' = indices /\ runeClasses' = runeClasses
        /\ before' = before /\ appliedRules' = appliedRules /\ res' = res
    BY <1>3 DEF vars
  <2> QED BY <2>1 DEF BreaksInv, Size, Gaps, returned
<1>4. CASE Classify
  <2>1. /\ DOMAIN before = 1..(n + 1) /\ DOMAIN appliedRules = 1..(n + 1) /\ appliedRules[1] = 310
        /\ text' = text /\ pos' = 1
    BY <1>1, <1>4 DEF Classify, BreaksInv, Gaps
  <2>2. PICK a : a = Classified /\ Classifying(a, n)
    BY <1>1, <2>1, ClassifiedFacts
  <2>3. /\ runeClasses' = a.classes
        /\ before' = [a.before EXCEPT ![1] = IF 20 < a.rules[1] THEN "never" ELSE @]
        /\ appliedRules' = [a.rules EXCEPT ![1] = IF 20 < @ THEN 20 ELSE @]
    BY <1>4, <2>2 DEF Classify
  <2>4. /\ IsList(a.classes) /\ DOMAIN a.before = 1..(n + 1) /\ DOMAIN a.rules = 1..(n + 1)
        /\ a.rules[1] = 310 /\ 1 \in 1..(n + 1)
    BY <2>2 DEF Classifying
  <2>5. before'[1] = "never" /\ appliedRules'[1] = 20
    BY <2>3, <2>4
  <2>6. Size' \in Nat
    BY <2>3, <2>4, ListFacts DEF Size
  <2>7. ~returned'
    <3>1. PICK z \in Nat : z = Size'
      BY <2>6
    <3>2. pos' # z + 2
      BY <2>1
    <3> QED BY <3>1, <3>2 DEF returned
  <2> QED BY <1>2, <2>1, <2>5, <2>6, <2>7 DEF BreaksInv
<1>5. CASE ApplyRules
  <2>1. /\ pos \in 1..Size /\ pos' = pos + 1 /\ text' = text
        /\ runeClasses' = runeClasses /\ indices' = indices
    BY <1>5 DEF ApplyRules
  <2>2. Size \in Nat /\ before[1] = "never" /\ appliedRules[1] = 20
    BY <2>1 DEF BreaksInv
  <2>3. PICK proposals : Propose(proposals) /\ Late(proposals)
    BY <1>5, RulesAreLate DEF ApplyRules
  <2>4. before'[1] = "never" /\ appliedRules'[1] = 20
    BY <1>1, <2>2, <2>3, ProposeKeepsFirst DEF Gaps
  <2>5. Size' = Size /\ ~returned'
    BY <2>1, <2>2 DEF Size, returned
  <2> QED BY <1>2, <2>1, <2>2, <2>4, <2>5 DEF BreaksInv
<1>6. CASE Collect
  <2>1. /\ indices # <<>> /\ pos = Size + 1 /\ pos' = Size + 2 /\ text' = text
        /\ runeClasses' = runeClasses /\ before' = before /\ appliedRules' = appliedRules
        /\ indices' = indices
    BY <1>6 DEF Collect
  <2>2. Size \in Nat /\ before[1] = "never" /\ appliedRules[1] = 20
    BY <2>1 DEF BreaksInv
  <2>3. res'.Breaks = {p - 1 : p \in {g \in 1..(n + 1) : before[g] # "never" \/ g = n + 1}}
    BY <1>1, <1>6 DEF Collect, Gaps
  <2>4. res'.Breaks \in SUBSET (1..n) /\ n \in res'.Breaks
    <3>1. \A g \in 1..(n + 1) : g # 1 => g - 1 \in 1..n
      OBVIOUS
    <3>2. n + 1 \in 1..(n + 1) /\ (n + 1) - 1 = n /\ n + 1 # 1
      OBVIOUS
    <3> QED BY <2>2, <2>3, <3>1, <3>2
  <2>5. Size' = Size /\ pos' # 0
    BY <2>1, <2>2 DEF Size
  <2> QED BY <1>1, <1>2, <2>1, <2>2, <2>4, <2>5 DEF BreaksInv
<1> QED BY <1>3, <1>4, <1>5, <1>6 DEF Next

\* Process has nothing to do after it has returned.
LEMMA ReturnedStays ==
  ASSUME BreaksInv, returned PROVE ~Next
<1>1. pos # 0 /\ Size \in Nat /\ pos = Size + 2
  BY DEF returned, BreaksInv
<1> QED BY <1>1 DEF Next, Classify, ApplyRules, Collect

(***************************************************************************)
(* Stretches of the text that follow each other without a gap.             *)
(***************************************************************************)
\* The m stretches rs follow each other from first to last, and none is empty.
Tiles(rs, m, first, last) ==
  /\ m \in Nat \ {0} /\ first \in Int /\ last \in Int
  /\ rs[1].start = first /\ rs[m].end = last
  /\ \A k \in 1..m : /\ rs[k].start \in Int /\ rs[k].end \in Int /\ rs[k].start <= rs[k].end
                     /\ k > 1 => rs[k].start = rs[k - 1].end + 1

\* A stretch ends before a later one begins.
LEMMA TilesAscend ==
  ASSUME NEW m, NEW rs, NEW first, NEW last, Tiles(rs, m, first, last)
  PROVE  /\ \A j, k \in 1..m : j < k => rs[j].end < rs[k].start
         /\ \A k \in 1..m : first <= rs[k].start /\ rs[k].end <= last
<1> DEFINE P == {k \in 1..m : \A j \in 1..m : j < k => rs[j].end < rs[k].start}
<1>1. /\ m \in Nat \ {0} /\ rs[1].start = first /\ rs[m].end = last
      /\ \A k \in 1..m : /\ rs[k].start \in Int /\ rs[k].end \in Int /\ rs[k].start <= rs[k].end
                         /\ k > 1 => rs[k].start = rs[k - 1].end + 1
  BY DEF Tiles
<1>2. 1 \in P
  BY <1>1
<1>3. ASSUME NEW k \in (1 + 1)..m, k - 1 \in P PROVE k \in P
  <2>1. k \in 1..m /\ k - 1 \in 1..m /\ k > 1
    BY <1>1
  <2>2. \A j \in 1..m : j < k - 1 => rs[j].end < rs[k - 1].start
    BY <1>3
  <2>3. rs[k].start = rs[k - 1].end + 1 /\ rs[k - 1].start <= rs[k - 1].end
    BY <1>1, <2>1
  <2>4. ASSUME NEW j \in 1..m, j < k PROVE rs[j].end < rs[k].start
    <3>1. j = k - 1 \/ j < k - 1
      BY <1>1, <2>4
    <3>2. /\ rs[j].end \in Int /\ rs[k].start \in Int /\ rs[k - 1].start \in Int
          /\ rs[k - 1].end \in Int
      BY <1>1, <2>1
    <3> QED BY <2>2, <2>3, <3>1, <3>2
  <2> QED BY <2>1, <2>4
<1>4. \A k \in 1..m : k \in P
  <2> HIDE DEF P
  <2>1. 1 <= m /\ 1 \in Int /\ m \in Int
    BY <1>1
  <2> QED BY <1>2, <1>3, <2>1, InductionUp
<1>5. \A j, k \in 1..m : j < k => rs[j].end < rs[k].start
  BY <1>4
<1>6. ASSUME NEW k \in 1..m PROVE first <= rs[k].start /\ rs[k].end <= last
  <2>1. 1 \in 1..m /\ m \in 1..m /\ (k = 1 \/ 1 < k) /\ (k = m \/ k < m)
    BY <1>1
  <2>2. /\ rs[1].end \in Int /\ rs[1].start \in Int /\ rs[m].start \in Int /\ rs[m].end \in Int
        /\ rs[k].start \in Int /\ rs[k].end \in Int
        /\ rs[1].start <= rs[1].end /\ rs[m].start <= rs[m].end
    BY <1>1, <2>1
  <2>3. k # 1 => rs[1].end < rs[k].start
    BY <1>5, <2>1
  <2>4. k # m => rs[k].end < rs[m].start
    BY <1>5, <2>1
  <2> HIDE DEF P
  <2> QED BY <1>1, <2>2, <2>3, <2>4
<1> QED BY <1>5, <1>6

\* Every place is in a stretch.
LEMMA TilesCover ==
  ASSUME NEW m, NEW rs, NEW first, NEW last, Tiles(rs, m, first, last), NEW i \in first..last
  PROVE  \E k \in 1..m : rs[k].start <= i /\ i <= rs[k].end
<1>1. /\ m \in Nat \ {0} /\ rs[1].start = first /\ rs[m].end = last
      /\ \A k \in 1..m : /\ rs[k].start \in Int /\ rs[k].end \in Int /\ rs[k].start <= rs[k].end
                         /\ k > 1 => rs[k].start = rs[k - 1].end + 1
      /\ first \in Int /\ last \in Int
  BY DEF Tiles
<1> DEFINE S == {k \in 1..m : rs[k].start <= i}
<1>2. PICK k : k = Max(S)
  OBVIOUS
<1>3. k \in S /\ \A j \in S : j <= k
  <2>1. S \in SUBSET Int /\ 1 \in S /\ m \in Int /\ \A x \in S : x <= m
    BY <1>1
  <2>2. S # {}
    BY <2>1
  <2> HIDE DEF S
  <2> QED BY <1>2, <2>1, <2>2, MaxFacts
<1>4. i <= rs[k].end
  <2>1. CASE k = m
    BY <1>1, <2>1
  <2>2. CASE k # m
    <3>1. k + 1 \in 1..m /\ ~(k + 1 <= k) /\ (k + 1) - 1 = k /\ k + 1 > 1
      BY <1>1, <1>3, <2>2
    <3>2. ~(rs[k + 1].start <= i)
      BY <1>3, <3>1
    <3>3. rs[k + 1].start = rs[k].end + 1 /\ rs[k].end \in Int
      BY <1>1, <1>3, <3>1
    <3> QED BY <1>1, <3>2, <3>3
  <2> QED BY <2>1, <2>2
<1> QED BY <1>3, <1>4

\* At finds the only stretch that has the place.
LEMMA TilesAt ==
  ASSUME NEW m, NEW rs, NEW first, NEW last, Tiles(rs, m, first, last), DOMAIN rs = 1..m,
         NEW i \in first..last
  PROVE  /\ At(rs, i) \in 1..m /\ rs[At(rs, i)].start <= i /\ i <= rs[At(rs, i)].end
         /\ \A k \in 1..m : rs[k].start <= i /\ i <= rs[k].end => k = At(rs, i)
<1>1. PICK k \in 1..m : rs[k].start <= i /\ i <= rs[k].end
  BY TilesCover
<1>2. /\ i \in Int /\ m \in Nat
      /\ \A j \in 1..m : rs[j].start \in Int /\ rs[j].end \in Int
  BY DEF Tiles
<1>3. \A j \in 1..m : i \in rs[j].start..rs[j].end <=> rs[j].start <= i /\ i <= rs[j].end
  BY <1>2
<1>4. PICK a : a = At(rs, i)
  OBVIOUS
<1>5. a \in 1..m /\ i \in rs[a].start..rs[a].end
  BY <1>1, <1>3, <1>4 DEF At
<1>6. rs[a].start <= i /\ i <= rs[a].end
  BY <1>3, <1>5
<1>7. ASSUME NEW j \in 1..m, rs[j].start <= i, i <= rs[j].end PROVE j = a
  <2>1. j < a => rs[j].end < rs[a].start
    BY <1>5, TilesAscend
  <2>2. a < j => rs[a].end < rs[j].start
    BY <1>5, TilesAscend
  <2>3. j < a \/ a < j \/ j = a
    BY <1>2, <1>5
  <2>4. rs[j].start \in Int /\ rs[j].end \in Int /\ rs[a].start \in Int /\ rs[a].end \in Int
    BY <1>2, <1>5
  <2> QED BY <1>2, <1>6, <1>7, <2>1, <2>2, <2>3, <2>4
<1> QED BY <1>4, <1>5, <1>6, <1>7

\* The runs of the levels tile the text.
LEMMA SplitTiles ==
  ASSUME NEW n \in Nat \ {0}, NEW lv, NEW m \in Nat, NEW rs, SplitInto(n, lv, m, rs)
  PROVE  Tiles(rs, m, 1, n)
<1>1. /\ m >= 1
      /\ \A j \in 1..m : /\ rs[j].start \in 1..n /\ rs[j].end \in 1..n
                         /\ rs[j].start <= rs[j].end
      /\ \A j, k \in 1..m : j < k => rs[j].end < rs[k].start
      /\ \A i \in 1..n : \E j \in 1..m : rs[j].start <= i /\ i <= rs[j].end
  BY DEF SplitInto
<1>2. \A j \in 1..m : rs[j].start \in Int /\ rs[j].end \in Int
  BY <1>1
<1>3. rs[1].start = 1
  <2>1. PICK j \in 1..m : rs[j].start <= 1 /\ 1 <= rs[j].end
    BY <1>1
  <2>2. 1 < j => rs[1].end < rs[j].start
    BY <1>1
  <2> QED BY <1>1, <2>1, <2>2
<1>4. rs[m].end = n
  <2>1. PICK j \in 1..m : rs[j].start <= n /\ n <= rs[j].end
    BY <1>1
  <2>2. m \in 1..m /\ (j < m => rs[j].end < rs[m].start)
    BY <1>1
  <2>3. /\ j = m \/ j < m
        /\ rs[m].start \in 1..n /\ rs[m].end \in 1..n /\ rs[m].start <= rs[m].end
        /\ rs[j].end \in 1..n
    BY <1>1, <2>2
  <2> QED BY <2>1, <2>2, <2>3
<1>5. ASSUME NEW k \in 1..m, k > 1 PROVE rs[k].start = rs[k - 1].end + 1
  <2>1. k - 1 \in 1..m /\ k - 1 < k
    BY <1>5
  <2>2. /\ rs[k - 1].end < rs[k].start /\ rs[k - 1].end \in 1..n /\ rs[k].start \in 1..n
        /\ rs[k].start <= rs[k].end /\ rs[k - 1].start <= rs[k - 1].end
    BY <1>1, <2>1
  <2> SUFFICES ASSUME rs[k].start # rs[k - 1].end + 1 PROVE FALSE
    OBVIOUS
  <2>3. PICK i \in 1..n : i = rs[k - 1].end + 1 /\ i < rs[k].start
    BY <2>2
  <2>4. PICK j \in 1..m : rs[j].start <= i /\ i <= rs[j].end
    BY <1>1
  <2>5. j < k - 1 => rs[j].end < rs[k - 1].start
    BY <1>1, <2>1
  <2>6. k < j => rs[k].end < rs[j].start
    BY <1>1
  <2>7. j < k - 1 \/ j = k - 1 \/ j = k \/ k < j
    OBVIOUS
  <2>8. rs[j].start \in Int /\ rs[j].end \in Int /\ rs[k].end \in Int /\ rs[k - 1].start \in Int
    BY <1>2, <2>1
  <2> QED BY <2>2, <2>3, <2>4, <2>5, <2>6, <2>7, <2>8
<1> QED BY <1>1, <1>2, <1>3, <1>4, <1>5 DEF Tiles

(***************************************************************************)
(* Split.                                                                  *)
(***************************************************************************)
\* The fields of a run.
RunFields == {"start", "end", "style", "styles", "level", "script"}

\* What Split makes of the part that starts at i of the run one and the piece two.
IsPart(r, one, two, field, i) ==
  /\ DOMAIN r = RunFields
  /\ r.start = i /\ r.end = IF one.end < two.end THEN one.end ELSE two.end
  /\ r.style = one.style /\ r.styles = SubSeq(one.styles, i - one.start + 1, Len(one.styles))
  /\ field = "level" => r.level = two.level /\ r.script = one.script
  /\ field = "script" => r.script = two.script /\ r.level = one.level

\* A part has what IsPart says.
LEMMA PartFacts ==
  ASSUME NEW one, DOMAIN one = RunFields, NEW two, NEW field \in {"level", "script"}, NEW i, NEW r,
         r = [one EXCEPT
                ![field] = two[field],
                !.start = i,
                !.end = IF one.end < two.end THEN one.end ELSE two.end,
                !.styles = SubSeq(@, i - one.start + 1, Len(@))]
  PROVE  IsPart(r, one, two, field, i)
<1>1. PICK e : e = IF one.end < two.end THEN one.end ELSE two.end
  OBVIOUS
<1>2. PICK st : st = SubSeq(one.styles, i - one.start + 1, Len(one.styles))
  OBVIOUS
<1>3. CASE field = "level"
  <2>1. r = [one EXCEPT !["level"] = two["level"], !.start = i, !.end = e, !.styles = st]
    BY <1>1, <1>2, <1>3
  <2>2. /\ DOMAIN r = RunFields /\ r.start = i /\ r.end = e /\ r.style = one.style /\ r.styles = st
        /\ r.level = two.level /\ r.script = one.script
    BY <2>1 DEF RunFields
  <2> QED BY <1>1, <1>2, <1>3, <2>2 DEF IsPart
<1>4. CASE field = "script"
  <2>1. r = [one EXCEPT !["script"] = two["script"], !.start = i, !.end = e, !.styles = st]
    BY <1>1, <1>2, <1>4
  <2>2. /\ DOMAIN r = RunFields /\ r.start = i /\ r.end = e /\ r.style = one.style /\ r.styles = st
        /\ r.script = two.script /\ r.level = one.level
    BY <2>1 DEF RunFields
  <2> QED BY <1>1, <1>2, <1>4, <2>2 DEF IsPart
<1> QED BY <1>3, <1>4

\* Two tilings of n runes, and the starts of both.
Starts(rs, ps) == {rs[k].start : k \in DOMAIN rs} \cup {ps[k].start : k \in DOMAIN ps}

\* The part that starts at i ends before the next start.
LEMMA PartEnds ==
  ASSUME NEW n \in Nat \ {0}, NEW rs, NEW l, DOMAIN rs = 1..l, Tiles(rs, l, 1, n),
         NEW ps, NEW m, DOMAIN ps = 1..m, Tiles(ps, m, 1, n),
         NEW i \in 1..n, NEW one, one = rs[At(rs, i)], NEW two, two = ps[At(ps, i)],
         NEW e, e = IF one.end < two.end THEN one.end ELSE two.end
  PROVE  /\ e \in i..n
         /\ e = n \/ e + 1 \in Starts(rs, ps)
         /\ \A s \in Starts(rs, ps) : i < s => e < s
<1>1. PICK a : a = At(rs, i)
  OBVIOUS
<1>2. PICK b : b = At(ps, i)
  OBVIOUS
<1>3. /\ a \in 1..l /\ rs[a].start <= i /\ i <= rs[a].end
      /\ \A k \in 1..l : rs[k].start <= i /\ i <= rs[k].end => k = a
  BY <1>1, TilesAt
<1>4. /\ b \in 1..m /\ ps[b].start <= i /\ i <= ps[b].end
      /\ \A k \in 1..m : ps[k].start <= i /\ i <= ps[k].end => k = b
  BY <1>2, TilesAt
<1>5. /\ l \in Nat \ {0} /\ rs[1].start = 1 /\ rs[l].end = n
      /\ \A k \in 1..l : /\ rs[k].start \in Int /\ rs[k].end \in Int /\ rs[k].start <= rs[k].end
                         /\ k > 1 => rs[k].start = rs[k - 1].end + 1
  BY DEF Tiles
<1>6. /\ m \in Nat \ {0} /\ ps[1].start = 1 /\ ps[m].end = n
      /\ \A k \in 1..m : /\ ps[k].start \in Int /\ ps[k].end \in Int /\ ps[k].start <= ps[k].end
                         /\ k > 1 => ps[k].start = ps[k - 1].end + 1
  BY DEF Tiles
<1>7. rs[a].end <= n /\ ps[b].end <= n
  BY <1>3, <1>4, TilesAscend
<1>8. one = rs[a] /\ two = ps[b]
  BY <1>1, <1>2
<1>9. rs[a].end \in Int /\ ps[b].end \in Int /\ rs[a].start \in Int /\ ps[b].start \in Int
  BY <1>3, <1>4, <1>5, <1>6
<1>10. e \in i..n /\ (e = rs[a].end \/ e = ps[b].end) /\ e <= rs[a].end /\ e <= ps[b].end
  BY <1>3, <1>4, <1>7, <1>8, <1>9
<1>11. ASSUME e # n PROVE e + 1 \in Starts(rs, ps)
  <2>1. CASE e = rs[a].end
    <3>1. a # l
      BY <1>5, <1>11, <2>1
    <3>2. a + 1 \in 1..l /\ (a + 1) - 1 = a /\ a + 1 > 1
      BY <1>3, <1>5, <3>1
    <3>3. rs[a + 1].start = e + 1
      BY <1>5, <2>1, <3>2
    <3> QED BY <3>2, <3>3 DEF Starts
  <2>2. CASE e = ps[b].end
    <3>1. b # m
      BY <1>6, <1>11, <2>2
    <3>2. b + 1 \in 1..m /\ (b + 1) - 1 = b /\ b + 1 > 1
      BY <1>4, <1>6, <3>1
    <3>3. ps[b + 1].start = e + 1
      BY <1>6, <2>2, <3>2
    <3> QED BY <3>2, <3>3 DEF Starts
  <2> QED BY <1>10, <2>1, <2>2
<1>12. ASSUME NEW s \in Starts(rs, ps), i < s PROVE e < s
  <2>1. CASE \E k \in 1..l : s = rs[k].start
    <3>1. PICK k \in 1..l : s = rs[k].start
      BY <2>1
    <3>2. k < a => rs[k].end < rs[a].start
      BY <1>3, TilesAscend
    <3>3. a < k => rs[a].end < rs[k].start
      BY <1>3, TilesAscend
    <3>4. /\ rs[k].start \in Int /\ rs[k].end \in Int /\ rs[k].start <= rs[k].end
          /\ k < a \/ k = a \/ a < k
      BY <1>3, <1>5
    <3> QED BY <1>3, <1>9, <1>10, <1>12, <3>1, <3>2, <3>3, <3>4, SMTT(20)
  <2>2. CASE \E k \in 1..m : s = ps[k].start
    <3>1. PICK k \in 1..m : s = ps[k].start
      BY <2>2
    <3>2. k < b => ps[k].end < ps[b].start
      BY <1>4, TilesAscend
    <3>3. b < k => ps[b].end < ps[k].start
      BY <1>4, TilesAscend
    <3>4. /\ ps[k].start \in Int /\ ps[k].end \in Int /\ ps[k].start <= ps[k].end
          /\ k < b \/ k = b \/ b < k
      BY <1>4, <1>6
    <3> QED BY <1>4, <1>9, <1>10, <1>12, <3>1, <3>2, <3>3, <3>4, SMTT(20)
  <2> QED BY <1>12, <2>1, <2>2 DEF Starts
<1> QED BY <1>10, <1>11, <1>12

\* Where two tilings of the text are split at the starts of both, the parts tile it
\* too, and each is a part of the run and of the piece it lies in.
LEMMA SplitFacts ==
  ASSUME NEW n \in Nat \ {0}, Len(text) = n,
         NEW rs, NEW l, DOMAIN rs = 1..l, Tiles(rs, l, 1, n),
         \A k \in 1..l : DOMAIN rs[k] = RunFields,
         NEW ps, NEW m, DOMAIN ps = 1..m, Tiles(ps, m, 1, n),
         NEW field \in {"level", "script"}, NEW new, new = Split(rs, ps, field)
  PROVE  /\ IsList(new) /\ Tiles(new, Len(new), 1, n)
         /\ \A k \in 1..Len(new) :
              IsPart(new[k], rs[At(rs, new[k].start)], ps[At(ps, new[k].start)], field, new[k].start)
<1>1. PICK S : S = Starts(rs, ps)
  OBVIOUS
<1>2. S \in SUBSET (1..n) /\ 1 \in S
  <2>1. l \in Nat \ {0} /\ m \in Nat \ {0} /\ rs[1].start = 1
    BY DEF Tiles
  <2>2. ASSUME NEW k \in 1..l PROVE rs[k].start \in 1..n
    <3>1. 1 <= rs[k].start /\ rs[k].end <= n
      BY TilesAscend
    <3>2. rs[k].start \in Int /\ rs[k].end \in Int /\ rs[k].start <= rs[k].end
      BY DEF Tiles
    <3> QED BY <3>1, <3>2
  <2>3. ASSUME NEW k \in 1..m PROVE ps[k].start \in 1..n
    <3>1. 1 <= ps[k].start /\ ps[k].end <= n
      BY TilesAscend
    <3>2. ps[k].start \in Int /\ ps[k].end \in Int /\ ps[k].start <= ps[k].end
      BY DEF Tiles
    <3> QED BY <3>1, <3>2
  <2>4. 1 \in 1..l
    BY <2>1
  <2> QED BY <1>1, <2>1, <2>2, <2>3, <2>4 DEF Starts
<1>3. PICK st : st = Ascending(S, n)
  OBVIOUS
<1>4. /\ st \in Seq(S)
      /\ \A j, k \in 1..Len(st) : j < k => st[j] < st[k]
      /\ \A i \in S : \E k \in 1..Len(st) : st[k] = i
  BY <1>2, <1>3, AscendingFacts
<1>5. PICK p \in Nat : p = Len(st) /\ DOMAIN st = 1..p
  BY <1>4
<1>6. \A k \in 1..p : st[k] \in S /\ st[k] \in 1..n
  BY <1>2, <1>4, <1>5, ElementOfSeq
<1> DEFINE One(i) == rs[At(rs, i)]
           Two(i) == ps[At(ps, i)]
           Part(i) == [One(i) EXCEPT
                        ![field] = Two(i)[field],
                        !.start = i,
                        !.end = IF One(i).end < Two(i).end THEN One(i).end ELSE Two(i).end,
                        !.styles = SubSeq(@, i - One(i).start + 1, Len(@))]
<1>7. new = [k \in 1..p |-> Part(st[k])]
  BY <1>1, <1>3, <1>5 DEF Split, Starts
<1>8. ASSUME NEW i \in 1..n PROVE IsPart(Part(i), One(i), Two(i), field, i)
  <2>1. PICK a \in 1..l : a = At(rs, i)
    BY TilesAt
  <2>2. DOMAIN One(i) = RunFields
    BY <2>1
  <2>3. PICK one, two : one = One(i) /\ two = Two(i)
    OBVIOUS
  <2>4. PICK r : r = Part(i)
    OBVIOUS
  <2>5. r = [one EXCEPT
                ![field] = two[field],
                !.start = i,
                !.end = IF one.end < two.end THEN one.end ELSE two.end,
                !.styles = SubSeq(@, i - one.start + 1, Len(@))]
    BY <2>3, <2>4
  <2> HIDE DEF One, Two, Part
  <2>6. IsPart(r, one, two, field, i)
    BY <2>2, <2>3, <2>5, PartFacts, ZenonT(30)
  <2> QED BY <2>3, <2>4, <2>6
<1> HIDE DEF Part
<1>9. IsList(new) /\ Len(new) = p /\ \A k \in 1..p : new[k] = Part(st[k])
  <2>1. \A k \in 1..p : new[k] = Part(st[k])
    BY <1>7
  <2>2. new = [k \in 1..p |-> new[k]]
    BY <1>7, <2>1
  <2> QED BY <2>1, <2>2, ListOf
<1>10. ASSUME NEW k \in 1..p
       PROVE  /\ IsPart(new[k], One(st[k]), Two(st[k]), field, st[k])
              /\ new[k].start = st[k] /\ new[k].end \in st[k]..n
              /\ new[k].end = n \/ new[k].end + 1 \in S
              /\ \A s \in S : st[k] < s => new[k].end < s
  <2>1. IsPart(new[k], One(st[k]), Two(st[k]), field, st[k])
    BY <1>6, <1>8, <1>9
  <2>2. PICK i, one, two : i \in 1..n /\ i = st[k] /\ one = One(i) /\ two = Two(i)
    BY <1>6
  <2>3. PICK e : e = new[k].end
    OBVIOUS
  <2>4. e = IF one.end < two.end THEN one.end ELSE two.end
    BY <2>1, <2>2, <2>3 DEF IsPart
  <2>. one = rs[At(rs, i)] /\ two = ps[At(ps, i)]
    BY <2>2
  <2>5. /\ e \in i..n
        /\ e = n \/ e + 1 \in Starts(rs, ps)
        /\ \A s \in Starts(rs, ps) : i < s => e < s
    BY <2>2, <2>4, PartEnds, ZenonT(30)
  <2>6. new[k].start = st[k]
    BY <2>1 DEF IsPart
  <2> QED BY <1>1, <2>1, <2>2, <2>3, <2>5, <2>6
<1>11. Tiles(new, p, 1, n)
  <2>1. PICK f \in 1..p : st[f] = 1
    BY <1>2, <1>4, <1>5
  <2>2. p \in Nat \ {0} /\ 1 \in 1..p /\ p \in 1..p
    OBVIOUS
  <2>3. new[1].start = 1
    <3>1. 1 < f => st[1] < st[f]
      BY <1>4, <1>5, <2>2
    <3>2. st[1] \in 1..n
      BY <1>6, <2>2
    <3> QED BY <1>10, <2>1, <2>2, <3>1, <3>2
  <2>4. new[p].end = n
    <3> SUFFICES ASSUME new[p].end # n PROVE FALSE
      OBVIOUS
    <3>1. new[p].end + 1 \in S /\ new[p].end \in st[p]..n
      BY <1>10, <2>2
    <3>2. PICK k \in 1..p : st[k] = new[p].end + 1
      BY <1>4, <1>5, <3>1
    <3>3. k < p => st[k] < st[p]
      BY <1>4, <1>5, <2>2
    <3>4. st[p] \in 1..n /\ (k < p \/ k = p)
      BY <1>6, <2>2
    <3> QED BY <3>1, <3>2, <3>3, <3>4
  <2>5. \A k \in 1..p : new[k].start \in Int /\ new[k].end \in Int /\ new[k].start <= new[k].end
    BY <1>6, <1>10
  <2>6. ASSUME NEW k \in 1..p, k > 1 PROVE new[k].start = new[k - 1].end + 1
    <3>1. k - 1 \in 1..p /\ k - 1 < k
      BY <2>6
    <3>2. /\ new[k].start = st[k] /\ new[k - 1].start = st[k - 1] /\ new[k - 1].end \in st[k - 1]..n
          /\ new[k - 1].end = n \/ new[k - 1].end + 1 \in S
          /\ \A s \in S : st[k - 1] < s => new[k - 1].end < s
      BY <1>10, <3>1
    <3>3. st[k - 1] < st[k] /\ st[k] \in S /\ st[k] \in 1..n /\ st[k - 1] \in 1..n
      BY <1>4, <1>5, <1>6, <3>1
    <3>4. new[k - 1].end < st[k]
      BY <3>2, <3>3
    <3>5. new[k - 1].end + 1 \in S
      BY <3>2, <3>3, <3>4
    <3>6. PICK j \in 1..p : st[j] = new[k - 1].end + 1
      BY <1>4, <1>5, <3>5
    <3>7. /\ j < k - 1 => st[j] < st[k - 1]
          /\ k < j => st[k] < st[j]
      BY <1>4, <1>5, <3>1
    <3>8. j < k - 1 \/ j = k - 1 \/ j = k \/ k < j
      OBVIOUS
    <3> QED BY <3>2, <3>3, <3>4, <3>6, <3>7, <3>8
  <2> QED BY <2>2, <2>3, <2>4, <2>5, <2>6 DEF Tiles
<1> HIDE DEF One, Two
<1>12. ASSUME NEW k \in 1..p
       PROVE  IsPart(new[k], rs[At(rs, new[k].start)], ps[At(ps, new[k].start)], field, new[k].start)
  BY <1>10 DEF One, Two
<1> QED BY <1>9, <1>11, <1>12

(***************************************************************************)
(* ScriptRuns tile the text.                                               *)
(***************************************************************************)
\* What splitByScript has found once it has seen i of n runes: the last run
\* starts before the next rune, and only the first can start after the last.
ScriptsSoFar(a, i, n) ==
  /\ DOMAIN a = {"script", "rune", "stack", "runs"}
  /\ IsList(a.runs) /\ Tiles(a.runs, Len(a.runs), 1, n)
  /\ \A k \in 1..Len(a.runs) : DOMAIN a.runs[k] = {"start", "end", "script"}
  /\ a.runs[Len(a.runs)].start <= i \/ (i = 0 /\ a.script = "common" /\ Len(a.runs) = 1)

\* A delimiter changes the script of its rune, and what is open.
LEMMA DelimitFacts ==
  ASSUME NEW a, DOMAIN a = {"script", "rune", "stack", "runs"}, NEW r
  PROVE  /\ DOMAIN Delimit(a, r) = {"script", "rune", "stack", "runs"}
         /\ Delimit(a, r).script = a.script /\ Delimit(a, r).runs = a.runs
<1> DEFINE open == {k \in DOMAIN a.stack : a.stack[k].rune = Counterpart(r)}
<1>1. PICK b : b = Delimit(a, r)
  OBVIOUS
<1> Opens(r) => ~Closes(r)
  BY DEF Opens, Closes
<1>2. CASE Opens(r)
  <2>1. b = [a EXCEPT !.stack = Append(@, [rune |-> r, script |-> a.script])]
    BY <1>1, <1>2 DEF Delimit
  <2> QED BY <1>1, <2>1
<1>3. CASE ~Opens(r) /\ Closes(r) /\ open = {}
  <2>1. b = [a EXCEPT !.stack = <<>>]
    BY <1>1, <1>3 DEF Delimit
  <2> QED BY <1>1, <2>1
<1>4. CASE ~Opens(r) /\ Closes(r) /\ open # {}
  <2>1. PICK x, y : x = a.stack[Max(open)].script /\ y = SubSeq(a.stack, 1, Max(open) - 1)
    OBVIOUS
  <2>2. b = [a EXCEPT !.rune = x, !.stack = y]
    BY <1>1, <1>4, <2>1 DEF Delimit
  <2> QED BY <1>1, <2>2
<1>5. CASE ~Opens(r) /\ ~Closes(r)
  BY <1>5 DEF Delimit
<1> QED BY <1>2, <1>3, <1>4, <1>5

\* Another run begins within the last one.
IsCut(rs, i, n, s, new) ==
  \E l, c, x : /\ l = [rs[Len(rs)] EXCEPT !.end = i - 1] /\ Puts(rs, Len(rs), l, c)
               /\ x = [start |-> i, end |-> n, script |-> s] /\ Appends(c, x, new)

\* A run that is cut in two leaves the text tiled.
LEMMA CutTiles ==
  ASSUME NEW n \in Nat \ {0}, NEW rs, IsList(rs), Tiles(rs, Len(rs), 1, n),
         \A k \in 1..Len(rs) : DOMAIN rs[k] = {"start", "end", "script"},
         NEW i \in 1..n, rs[Len(rs)].start < i, NEW s, NEW new, IsCut(rs, i, n, s, new)
  PROVE  /\ IsList(new) /\ Tiles(new, Len(new), 1, n) /\ new[Len(new)].start = i
         /\ \A k \in 1..Len(new) : DOMAIN new[k] = {"start", "end", "script"}
<1>1. PICK m \in Nat \ {0} : m = Len(rs) /\ m \in 1..m
  BY DEF Tiles
<1>2. PICK l, c, x : /\ l = [rs[m] EXCEPT !.end = i - 1] /\ Puts(rs, m, l, c)
                     /\ x = [start |-> i, end |-> n, script |-> s] /\ Appends(c, x, new)
  BY <1>1 DEF IsCut
<1>3. Puts(rs, m, l, c) /\ m \in 1..Len(rs)
  BY <1>1, <1>2
<1>4. x = [start |-> i, end |-> n, script |-> s]
  BY <1>2
<1>5. Appends(c, x, new)
  BY <1>2
<1>6. IsList(c) /\ Len(c) = m /\ c[m] = l /\ \A k \in 1..m : k # m => c[k] = rs[k]
  <2>1. /\ IsList(c) /\ Len(c) = Len(rs) /\ c[m] = l
        /\ \A k \in 1..Len(rs) : k # m => c[k] = rs[k]
    BY <1>3, ListSet
  <2> QED BY <1>1, <2>1
<1>7. /\ IsList(new) /\ Len(new) = m + 1 /\ new[m + 1] = x
      /\ \A k \in 1..m : new[k] = c[k]
  <2>1. /\ IsList(new) /\ Len(new) = Len(c) + 1 /\ new[Len(c) + 1] = x
        /\ \A k \in 1..Len(c) : new[k] = c[k]
    BY <1>5, <1>6, ListAppend
  <2> QED BY <1>6, <2>1
<1>8. DOMAIN rs[m] = {"start", "end", "script"}
  BY <1>1
<1>9. l.start = rs[m].start /\ l.end = i - 1 /\ DOMAIN l = {"start", "end", "script"}
  BY <1>2, <1>8
<1>10. x.start = i /\ x.end = n /\ DOMAIN x = {"start", "end", "script"}
  BY <1>4
<1>11. /\ rs[1].start = 1
       /\ \A k \in 1..m : /\ rs[k].start \in Int /\ rs[k].end \in Int /\ rs[k].start <= rs[k].end
                          /\ k > 1 => rs[k].start = rs[k - 1].end + 1
  BY <1>1 DEF Tiles
<1>12. /\ \A k \in 1..m : k # m => new[k] = rs[k]
       /\ new[m] = l /\ new[m + 1] = x
  BY <1>1, <1>6, <1>7
<1>13. rs[m].start < i /\ rs[m].start \in Int
  BY <1>1, <1>11
<1>14. ASSUME NEW k \in 1..(m + 1)
       PROVE  /\ new[k].start \in Int /\ new[k].end \in Int /\ new[k].start <= new[k].end
              /\ k > 1 => new[k].start = new[k - 1].end + 1
  <2>1. CASE k = m + 1
    <3>1. (m + 1) - 1 = m
      OBVIOUS
    <3>2. new[k].start = i /\ new[k].end = n /\ new[k - 1].end = i - 1
      BY <1>9, <1>10, <1>12, <2>1, <3>1
    <3>3. i \in Int /\ n \in Int /\ i <= n /\ i = (i - 1) + 1
      OBVIOUS
    <3> QED BY <3>2, <3>3
  <2>2. CASE k = m
    <3>1. k > 1 => k - 1 \in 1..m /\ k - 1 # m
      BY <2>2
    <3>2. k > 1 => new[k - 1] = rs[k - 1]
      BY <1>12, <3>1
    <3> QED BY <1>1, <1>9, <1>11, <1>12, <1>13, <2>2, <3>2, SMTT(20)
  <2>3. CASE k # m /\ k # m + 1
    <3>1. k \in 1..m /\ (k > 1 => k - 1 \in 1..m /\ k - 1 # m)
      BY <2>3
    <3>2. new[k] = rs[k] /\ (k > 1 => new[k - 1] = rs[k - 1])
      BY <1>12, <2>3, <3>1
    <3> QED BY <1>11, <3>1, <3>2
  <2> QED BY <2>1, <2>2, <2>3
<1>15. new[1].start = 1
  <2>1. 1 \in 1..m
    OBVIOUS
  <2>2. CASE m = 1
    BY <1>9, <1>11, <1>12, <2>2
  <2>3. CASE m # 1
    BY <1>11, <1>12, <2>1, <2>3
  <2> QED BY <2>2, <2>3
<1>16. Tiles(new, m + 1, 1, n)
  <2>1. /\ m + 1 \in Nat \ {0} /\ 1 \in Int /\ n \in Int
        /\ new[1].start = 1 /\ new[m + 1].end = n
    BY <1>10, <1>12, <1>15
  <2> QED BY <1>14, <2>1, Zenon DEF Tiles
<1>17. ASSUME NEW k \in 1..(m + 1) PROVE DOMAIN new[k] = {"start", "end", "script"}
  <2>1. CASE k = m + 1
    BY <1>10, <1>12, <2>1
  <2>2. CASE k = m
    BY <1>9, <1>12, <2>2
  <2>3. CASE k # m /\ k # m + 1
    <3>1. k \in 1..m
      BY <2>3
    <3> QED BY <1>1, <1>12, <2>3, <3>1
  <2> QED BY <2>1, <2>2, <2>3
<1> QED BY <1>7, <1>10, <1>16, <1>17

\* What one rune of splitByScript keeps.
LEMMA ScriptRuneFacts ==
  ASSUME NEW n \in Nat \ {0}, Len(text) = n, NEW i \in 1..n, NEW a, ScriptsSoFar(a, i - 1, n)
  PROVE  ScriptsSoFar(ScriptRune(a, i), i, n)
<1>1. /\ DOMAIN a = {"script", "rune", "stack", "runs"}
      /\ IsList(a.runs) /\ Tiles(a.runs, Len(a.runs), 1, n)
      /\ \A k \in 1..Len(a.runs) : DOMAIN a.runs[k] = {"start", "end", "script"}
      /\ a.runs[Len(a.runs)].start <= i - 1 \/ (i - 1 = 0 /\ a.script = "common" /\ Len(a.runs) = 1)
  BY DEF ScriptsSoFar
<1>2. PICK m \in Nat \ {0} : m = Len(a.runs) /\ m \in 1..m
  BY <1>1 DEF Tiles
<1>3. PICK c : c = [a EXCEPT !.rune = Script(text[i])]
  OBVIOUS
<1>4. DOMAIN c = {"script", "rune", "stack", "runs"} /\ c.script = a.script /\ c.runs = a.runs
  BY <1>1, <1>3
<1>5. PICK b : b = Delimit(c, text[i])
  OBVIOUS
<1>6. DOMAIN b = {"script", "rune", "stack", "runs"} /\ b.script = a.script /\ b.runs = a.runs
  BY <1>4, <1>5, DelimitFacts
<1>7. a.runs[m].start \in Int /\ a.runs[m].start <= i
  <2>1. a.runs[1].start = 1 /\ a.runs[m].start \in Int
    BY <1>1, <1>2 DEF Tiles
  <2> QED BY <1>1, <1>2, <2>1
<1>8. CASE b.rune \in {"common", b.script}
  <2>1. ScriptRune(a, i) = b
    BY <1>3, <1>5, <1>8 DEF ScriptRune
  <2> QED BY <1>1, <1>2, <1>6, <1>7, <2>1 DEF ScriptsSoFar
<1>9. CASE b.rune \notin {"common", b.script} /\ b.script = "common"
  <2>1. PICK l : l = [a.runs[m] EXCEPT !.script = b.rune]
    OBVIOUS
  <2>2. PICK rs : rs = [a.runs EXCEPT ![m] = l]
    OBVIOUS
  <2>3. PICK st : st = [k \in DOMAIN b.stack |-> [b.stack[k] EXCEPT !.script = b.rune]]
    OBVIOUS
  <2>4. ScriptRune(a, i) =
          [b EXCEPT !.script = b.rune, !.runs[Len(b.runs)].script = b.rune, !.stack = st]
    BY <1>3, <1>5, <1>9, <2>3 DEF ScriptRune
  <2>5. PICK d : d = ScriptRune(a, i)
    OBVIOUS
  <2>6. d = [b EXCEPT !.script = b.rune, !.runs = rs, !.stack = st]
    BY <1>2, <1>6, <2>1, <2>2, <2>4, <2>5
  <2>7. DOMAIN d = {"script", "rune", "stack", "runs"} /\ d.runs = rs
    BY <1>6, <2>6
  <2>8. IsList(rs) /\ Len(rs) = m /\ rs[m] = l /\ \A k \in 1..m : k # m => rs[k] = a.runs[k]
    <3>1. Puts(a.runs, m, l, rs) /\ m \in 1..Len(a.runs)
      BY <1>2, <2>2 DEF Puts
    <3>2. /\ IsList(rs) /\ Len(rs) = Len(a.runs) /\ rs[m] = l
          /\ \A k \in 1..Len(a.runs) : k # m => rs[k] = a.runs[k]
      BY <1>1, <3>1, ListSet
    <3> QED BY <1>2, <3>2
  <2>9. l.start = a.runs[m].start /\ l.end = a.runs[m].end /\ DOMAIN l = {"start", "end", "script"}
    BY <1>1, <1>2, <2>1
  <2>10. \A k \in 1..m : /\ rs[k].start = a.runs[k].start /\ rs[k].end = a.runs[k].end
                         /\ DOMAIN rs[k] = {"start", "end", "script"}
    BY <1>1, <1>2, <2>8, <2>9
  <2>11. Tiles(rs, m, 1, n)
    <3>1. 1 \in 1..m /\ \A k \in 1..m : k > 1 => k - 1 \in 1..m
      OBVIOUS
    <3> QED BY <1>1, <1>2, <2>10, <3>1 DEF Tiles
  <2> QED BY <1>2, <1>7, <2>5, <2>7, <2>8, <2>10, <2>11 DEF ScriptsSoFar
<1>10. CASE b.rune \notin {"common", b.script} /\ b.script # "common"
  <2>1. PICK rs : /\ rs = Append([a.runs EXCEPT ![Len(a.runs)].end = i - 1],
                                  [start |-> i, end |-> n, script |-> b.rune])
                  /\ IsCut(a.runs, i, n, b.rune, rs)
    BY DEF IsCut, Puts, Appends
  <2>2. ScriptRune(a, i) = [b EXCEPT !.script = b.rune,
                                     !.runs = Append([@ EXCEPT ![Len(@)].end = i - 1],
                                                     [start |-> i, end |-> Len(text),
                                                      script |-> b.rune])]
    BY <1>3, <1>5, <1>10 DEF ScriptRune
  <2>3. PICK d : d = ScriptRune(a, i)
    OBVIOUS
  <2>4. d = [b EXCEPT !.script = b.rune, !.runs = rs]
    BY <1>2, <1>6, <2>1, <2>2, <2>3
  <2>5. DOMAIN d = {"script", "rune", "stack", "runs"} /\ d.runs = rs
    BY <1>6, <2>4
  <2>6. a.runs[m].start < i
    BY <1>1, <1>2, <1>6, <1>7, <1>10
  <2>7. /\ IsList(rs) /\ Tiles(rs, Len(rs), 1, n) /\ rs[Len(rs)].start = i
        /\ \A k \in 1..Len(rs) : DOMAIN rs[k] = {"start", "end", "script"}
    <3>1. a.runs[Len(a.runs)].start < i
      BY <1>2, <2>6
    <3>2. IsCut(a.runs, i, n, b.rune, rs)
      BY <2>1
    <3>3. /\ IsList(a.runs) /\ Tiles(a.runs, Len(a.runs), 1, n)
          /\ \A k \in 1..Len(a.runs) : DOMAIN a.runs[k] = {"start", "end", "script"}
      BY <1>1
    <3> QED BY <3>1, <3>2, <3>3, CutTiles
  <2> QED BY <2>3, <2>5, <2>7 DEF ScriptsSoFar
<1> QED BY <1>8, <1>9, <1>10

\* The runs of the scripts tile the text.
LEMMA ScriptRunsFacts ==
  ASSUME NEW n \in Nat \ {0}, Len(text) = n
  PROVE  IsList(ScriptRuns) /\ Tiles(ScriptRuns, Len(ScriptRuns), 1, n)
<1> DEFINE one   == [start |-> 1, end |-> n, script |-> "common"]
           first == [script |-> "common", rune |-> "common", stack |-> <<>>, runs |-> <<one>>]
<1>1. ScriptsSoFar(first, 0, n)
  <2>1. PICK rs : rs = <<one>>
    OBVIOUS
  <2>2. rs = [k \in 1..1 |-> rs[k]] /\ rs[1] = one
    BY <2>1
  <2>3. IsList(rs) /\ Len(rs) = 1
    BY <2>2, ListOf
  <2>4. one.start = 1 /\ one.end = n /\ DOMAIN one = {"start", "end", "script"}
    OBVIOUS
  <2>5. first.runs = rs /\ first.script = "common" /\ DOMAIN first = {"script", "rune", "stack", "runs"}
    BY <2>1
  <2> HIDE DEF one, first
  <2>6. Tiles(rs, 1, 1, n)
    BY <2>2, <2>4 DEF Tiles
  <2>7. \A k \in 1..1 : DOMAIN rs[k] = {"start", "end", "script"}
    BY <2>2, <2>4
  <2> QED BY <2>3, <2>5, <2>6, <2>7 DEF ScriptsSoFar
<1>2. ScriptRuns = LET upTo[i \in 0..n] == IF i = 0 THEN first ELSE ScriptRune(upTo[i - 1], i)
                   IN  upTo[n].runs
  BY DEF ScriptRuns
<1> HIDE DEF first
<1> DEFINE Fits(f, i) == f = [j \in 0..i |-> IF j = 0 THEN first ELSE ScriptRune(f[j - 1], j)]
           P == {i \in 0..n : \E f : Fits(f, i)}
<1>3. 0 \in P
  <2>1. PICK f : f = [j \in 0..0 |-> first]
    OBVIOUS
  <2>2. f = [j \in 0..0 |-> IF j = 0 THEN first ELSE ScriptRune(f[j - 1], j)]
    BY <2>1
  <2> QED BY <2>2
<1>4. ASSUME NEW i \in (0 + 1)..n, i - 1 \in P PROVE i \in P
  <2>1. PICK f : Fits(f, i - 1)
    BY <1>4
  <2>2. PICK g : g = [j \in 0..i |-> IF j = i THEN ScriptRune(f[i - 1], i) ELSE f[j]]
    OBVIOUS
  <2>3. ASSUME NEW j \in 0..i PROVE g[j] = IF j = 0 THEN first ELSE ScriptRune(g[j - 1], j)
    <3>1. i # 0 /\ i \in Int /\ (j # 0 => j - 1 \in 0..i /\ j - 1 # i)
      OBVIOUS
    <3>2. j # 0 => g[j - 1] = f[j - 1]
      BY <2>2, <3>1
    <3>3. j # i => g[j] = f[j] /\ j \in 0..(i - 1)
      BY <2>2
    <3>4. j # i => f[j] = IF j = 0 THEN first ELSE ScriptRune(f[j - 1], j)
      BY <2>1, <3>3
    <3>5. j = i => g[j] = ScriptRune(f[j - 1], j)
      BY <2>2
    <3> QED BY <3>1, <3>2, <3>3, <3>4, <3>5
  <2>4. Fits(g, i)
    BY <2>2, <2>3
  <2> HIDE DEF Fits
  <2> QED BY <2>4
<1>5. n \in P
  <2> HIDE DEF P
  <2>1. 0 <= n /\ 0 \in Int /\ n \in Int /\ n \in 0..n
    OBVIOUS
  <2>2. \A k \in 0..n : k \in P
    BY <1>3, <1>4, <2>1, InductionUp
  <2> QED BY <2>1, <2>2
<1> DEFINE upTo == CHOOSE f : Fits(f, n)
<1>6. Fits(upTo, n)
  <2> HIDE DEF Fits
  <2> QED BY <1>5
<1>7. ScriptRuns = upTo[n].runs
  BY <1>2
<1> HIDE DEF upTo
<1>8. \A i \in 0..n : upTo[i] = IF i = 0 THEN first ELSE ScriptRune(upTo[i - 1], i)
  BY <1>6
<1> DEFINE Q == {i \in 0..n : ScriptsSoFar(upTo[i], i, n)}
<1>9. 0 \in Q
  BY <1>1, <1>8
<1>10. ASSUME NEW i \in (0 + 1)..n, i - 1 \in Q PROVE i \in Q
  <2>1. i \in 1..n /\ i # 0 /\ i \in 0..n
    OBVIOUS
  <2>2. ScriptsSoFar(upTo[i - 1], i - 1, n)
    BY <1>10
  <2>3. upTo[i] = ScriptRune(upTo[i - 1], i)
    BY <1>8, <2>1
  <2>4. ScriptsSoFar(upTo[i], i, n)
    BY <2>1, <2>2, <2>3, ScriptRuneFacts
  <2> QED BY <2>1, <2>4
<1>11. n \in Q
  <2> HIDE DEF Q
  <2>1. 0 <= n /\ 0 \in Int /\ n \in Int /\ n \in 0..n
    OBVIOUS
  <2>2. \A k \in 0..n : k \in Q
    BY <1>9, <1>10, <2>1, InductionUp
  <2> QED BY <2>1, <2>2
<1>12. ScriptsSoFar(upTo[n], n, n)
  BY <1>11
<1> QED BY <1>7, <1>12 DEF ScriptsSoFar

(***************************************************************************)
(* Building: the runs tile what has been added, and only the last one can  *)
(* be empty.                                                               *)
(***************************************************************************)
\* The runs rs hold the first done runes of the text.
Collected(rs, done) ==
  /\ IsList(rs) /\ Len(rs) >= 1
  /\ rs[1].start = 1 /\ rs[Len(rs)].end = done
  /\ \A k \in 1..Len(rs) :
       /\ DOMAIN rs[k] = RunFields
       /\ rs[k].start \in Int /\ rs[k].end \in Int
       /\ rs[k].start <= rs[k].end \/ (k = Len(rs) /\ rs[k].start = rs[k].end + 1)
       /\ k > 1 => rs[k].start = rs[k - 1].end + 1

\* An empty run ends before it starts.
LEMMA EmptyRunFacts ==
  ASSUME NEW s, NEW at \in Int, NEW r, r = EmptyRun(s, at)
  PROVE  DOMAIN r = RunFields /\ r.start = at /\ r.end = at - 1
BY DEF EmptyRun, RunFields

\* The last run can be dropped when it is empty.
LEMMA CollectedFront ==
  ASSUME NEW rs, NEW done, Collected(rs, done), Len(rs) > 1, rs[Len(rs)].end < rs[Len(rs)].start
  PROVE  /\ Collected(Front(rs), done)
         /\ LET m == Len(Front(rs)) IN Front(rs)[m].start <= Front(rs)[m].end
<1>1. PICK m : m = Len(rs)
  OBVIOUS
<1>2. /\ IsList(rs) /\ m \in Nat /\ m > 1 /\ rs[1].start = 1 /\ rs[m].end = done
      /\ rs[m].end < rs[m].start
      /\ \A k \in 1..m : /\ DOMAIN rs[k] = RunFields
                         /\ rs[k].start \in Int /\ rs[k].end \in Int
                         /\ rs[k].start <= rs[k].end \/ (k = m /\ rs[k].start = rs[k].end + 1)
                         /\ k > 1 => rs[k].start = rs[k - 1].end + 1
  BY <1>1, ListFacts DEF Collected
<1>3. PICK f : f = Front(rs)
  OBVIOUS
<1>4. IsList(f) /\ Len(f) = m - 1 /\ \A k \in 1..(m - 1) : f[k] = rs[k]
  BY <1>1, <1>2, <1>3, ListFront
<1>5. /\ m \in 1..m /\ m - 1 \in 1..m /\ 1 \in 1..(m - 1) /\ m - 1 \in 1..(m - 1) /\ m - 1 # m
      /\ \A k \in 1..(m - 1) : k \in 1..m /\ k # m /\ (k > 1 => k - 1 \in 1..(m - 1))
  BY <1>2
<1>6. rs[m].start = rs[m - 1].end + 1 /\ rs[m].start = rs[m].end + 1
  <2>1. /\ rs[m].start \in Int /\ rs[m].end \in Int
        /\ rs[m].start <= rs[m].end \/ rs[m].start = rs[m].end + 1
        /\ rs[m].start = rs[m - 1].end + 1
    BY <1>2, <1>5
  <2> QED BY <1>2, <2>1
<1>7. rs[m - 1].end = done
  <2>1. rs[m - 1].end \in Int /\ rs[m].end \in Int
    BY <1>2, <1>5
  <2> QED BY <1>2, <1>6, <2>1, SMTT(20)
<1>8. \A k \in 1..(m - 1) : /\ DOMAIN f[k] = RunFields
                            /\ f[k].start \in Int /\ f[k].end \in Int
                            /\ f[k].start <= f[k].end
                            /\ k > 1 => f[k].start = f[k - 1].end + 1
  BY <1>2, <1>4, <1>5
<1>9. f[1].start = 1 /\ f[m - 1].end = done /\ m - 1 >= 1
  BY <1>2, <1>4, <1>5, <1>7
<1>10. Collected(f, done)
  BY <1>4, <1>8, <1>9 DEF Collected
<1>11. f[m - 1].start <= f[m - 1].end
  BY <1>5, <1>8
<1> QED BY <1>3, <1>4, <1>10, <1>11

\* A new style leaves every rune in its run.
LEMMA CollectedStyle ==
  ASSUME NEW done, Collected(runs, done), NEW s
  PROVE  Collected(StyleRun(s), done)
<1>1. PICK m : m = Len(runs)
  OBVIOUS
<1>2. /\ IsList(runs) /\ m \in Nat /\ m >= 1 /\ runs[1].start = 1 /\ runs[m].end = done /\ m \in 1..m
      /\ \A k \in 1..m : /\ DOMAIN runs[k] = RunFields
                         /\ runs[k].start \in Int /\ runs[k].end \in Int
                         /\ runs[k].start <= runs[k].end \/ (k = m /\ runs[k].start = runs[k].end + 1)
                         /\ k > 1 => runs[k].start = runs[k - 1].end + 1
  BY <1>1, ListFacts DEF Collected
<1>3. LastRun = runs[m]
  BY <1>1 DEF LastRun
<1>4. CASE runs[m].end < runs[m].start /\ m > 1 /\ runs[m - 1].style = s.run
  <2>1. StyleRun(s) = Front(runs)
    BY <1>1, <1>3, <1>4 DEF StyleRun
  <2> QED BY <1>1, <1>4, <2>1, CollectedFront
<1>5. CASE runs[m].end < runs[m].start /\ ~(m > 1 /\ runs[m - 1].style = s.run)
  <2>1. PICK l : l = [runs[m] EXCEPT !.style = s.run]
    OBVIOUS
  <2>2. PICK rs : rs = [runs EXCEPT ![m] = l]
    OBVIOUS
  <2>3. StyleRun(s) = rs
    BY <1>1, <1>3, <1>5, <2>1, <2>2 DEF StyleRun
  <2>4. Puts(runs, m, l, rs) /\ m \in 1..Len(runs)
    BY <1>1, <1>2, <2>2 DEF Puts
  <2>5. /\ IsList(rs) /\ Len(rs) = m /\ rs[m] = l
        /\ \A k \in 1..m : k # m => rs[k] = runs[k]
    <3>1. /\ IsList(rs) /\ Len(rs) = Len(runs) /\ rs[m] = l
          /\ \A k \in 1..Len(runs) : k # m => rs[k] = runs[k]
      BY <1>2, <2>4, ListSet
    <3> QED BY <1>1, <3>1
  <2>6. DOMAIN l = RunFields /\ l.start = runs[m].start /\ l.end = runs[m].end
    BY <1>2, <2>1 DEF RunFields
  <2>7. \A k \in 1..m : /\ DOMAIN rs[k] = RunFields
                        /\ rs[k].start = runs[k].start /\ rs[k].end = runs[k].end
    BY <1>2, <2>5, <2>6
  <2>8. \A k \in 1..m : k > 1 => k - 1 \in 1..m
    BY <1>2
  <2>9. 1 \in 1..m
    BY <1>2
  <2>10. ASSUME NEW k \in 1..m
         PROVE  /\ DOMAIN rs[k] = RunFields
                /\ rs[k].start \in Int /\ rs[k].end \in Int
                /\ rs[k].start <= rs[k].end \/ (k = m /\ rs[k].start = rs[k].end + 1)
                /\ k > 1 => rs[k].start = rs[k - 1].end + 1
    <3>1. rs[k].start = runs[k].start /\ rs[k].end = runs[k].end
      BY <2>7
    <3>2. k > 1 => rs[k - 1].end = runs[k - 1].end
      BY <2>7, <2>8
    <3> QED BY <1>2, <2>7, <3>1, <3>2
  <2>11. rs[1].start = 1 /\ rs[m].end = done
    BY <1>2, <2>7, <2>9
  <2> QED BY <1>2, <2>3, <2>5, <2>10, <2>11 DEF Collected
<1>6. CASE ~(runs[m].end < runs[m].start) /\ runs[m].style = s.run
  <2>1. StyleRun(s) = runs
    BY <1>3, <1>6 DEF StyleRun
  <2> QED BY <2>1
<1>7. CASE ~(runs[m].end < runs[m].start) /\ runs[m].style # s.run
  <2>1. PICK r : r = EmptyRun(s, runs[m].end + 1)
    OBVIOUS
  <2>2. PICK rs : rs = Append(runs, r)
    OBVIOUS
  <2>3. StyleRun(s) = rs
    BY <1>3, <1>7, <2>1, <2>2 DEF StyleRun
  <2>4. Appends(runs, r, rs)
    BY <2>2 DEF Appends
  <2>5. /\ IsList(rs) /\ Len(rs) = m + 1 /\ rs[m + 1] = r
        /\ \A k \in 1..m : rs[k] = runs[k]
    <3>1. /\ IsList(rs) /\ Len(rs) = Len(runs) + 1 /\ rs[Len(runs) + 1] = r
          /\ \A k \in 1..Len(runs) : rs[k] = runs[k]
      BY <1>2, <2>4, ListAppend
    <3> QED BY <1>1, <3>1
  <2>6. runs[m].end \in Int /\ runs[m].start \in Int
    BY <1>2
  <2>7. DOMAIN r = RunFields /\ r.start = runs[m].end + 1 /\ r.end = runs[m].end
    <3>1. PICK at \in Int : at = runs[m].end + 1 /\ at - 1 = runs[m].end
      BY <2>6
    <3> QED BY <2>1, <3>1, EmptyRunFacts
  <2>8. ASSUME NEW k \in 1..(m + 1)
        PROVE  /\ DOMAIN rs[k] = RunFields
               /\ rs[k].start \in Int /\ rs[k].end \in Int
               /\ rs[k].start <= rs[k].end \/ (k = m + 1 /\ rs[k].start = rs[k].end + 1)
               /\ k > 1 => rs[k].start = rs[k - 1].end + 1
    <3>1. CASE k = m + 1
      <4>1. rs[k] = r /\ rs[k - 1] = runs[m]
        BY <1>2, <2>5, <3>1
      <4> QED BY <2>6, <2>7, <3>1, <4>1
    <3>2. CASE k # m + 1
      <4>1. k \in 1..m /\ (k > 1 => k - 1 \in 1..m)
        BY <1>2, <3>2
      <4>2. rs[k] = runs[k] /\ (k > 1 => rs[k - 1] = runs[k - 1])
        BY <2>5, <4>1
      <4> QED BY <1>2, <1>7, <4>1, <4>2
    <3> QED BY <3>1, <3>2
  <2>9. rs[1].start = 1 /\ rs[m + 1].end = done /\ m + 1 >= 1
    <3>1. 1 \in 1..m
      BY <1>2
    <3> QED BY <1>2, <2>5, <2>7, <3>1
  <2> QED BY <2>3, <2>5, <2>8, <2>9 DEF Collected
<1> QED BY <1>4, <1>5, <1>6, <1>7

\* A string makes the last run longer.
LEMMA CollectedAdd ==
  ASSUME NEW done \in Nat, Collected(runs, done), NEW n \in Nat \ {0}, NEW l, NEW rs,
         NEW m, m = Len(runs),
         DOMAIN l = RunFields, l.start = runs[m].start, l.end = runs[m].end + n,
         Puts(runs, m, l, rs)
  PROVE  Collected(rs, done + n)
<1>2. /\ IsList(runs) /\ m \in Nat /\ m >= 1 /\ runs[1].start = 1 /\ runs[m].end = done /\ m \in 1..m
      /\ \A k \in 1..m : /\ DOMAIN runs[k] = RunFields
                         /\ runs[k].start \in Int /\ runs[k].end \in Int
                         /\ runs[k].start <= runs[k].end \/ (k = m /\ runs[k].start = runs[k].end + 1)
                         /\ k > 1 => runs[k].start = runs[k - 1].end + 1
  BY ListFacts DEF Collected
<1>3. /\ IsList(rs) /\ Len(rs) = m /\ rs[m] = l
      /\ \A k \in 1..m : k # m => rs[k] = runs[k]
  <2>1. m \in 1..Len(runs)
    BY <1>2
  <2>2. /\ IsList(rs) /\ Len(rs) = Len(runs) /\ rs[m] = l
        /\ \A k \in 1..Len(runs) : k # m => rs[k] = runs[k]
    BY <1>2, <2>1, ListSet
  <2> QED BY <2>2
<1>4. /\ runs[m].start \in Int /\ runs[m].end \in Int
      /\ runs[m].start <= runs[m].end \/ runs[m].start = runs[m].end + 1
  BY <1>2
<1>5. l.start \in Int /\ l.end \in Int /\ l.start <= l.end /\ l.end = done + n
  BY <1>2, <1>4
<1>6. ASSUME NEW k \in 1..m
      PROVE  /\ DOMAIN rs[k] = RunFields
             /\ rs[k].start \in Int /\ rs[k].end \in Int /\ rs[k].start <= rs[k].end
             /\ k > 1 => rs[k].start = rs[k - 1].end + 1
  <2>1. k > 1 => k - 1 \in 1..m /\ k - 1 # m
    BY <1>2
  <2>2. k > 1 => rs[k - 1] = runs[k - 1]
    BY <1>3, <2>1
  <2>3. rs[k].start = runs[k].start
    BY <1>3
  <2>4. rs[k] = IF k = m THEN l ELSE runs[k]
    BY <1>3
  <2> QED BY <1>2, <1>5, <2>2, <2>3, <2>4
<1>7. rs[1].start = 1
  <2>1. 1 \in 1..m
    BY <1>2
  <2> QED BY <1>2, <1>3, <2>1
<1> QED BY <1>2, <1>3, <1>5, <1>6, <1>7 DEF Collected

\* The runs of a text of n runes, once it is built.
TextRuns(rs, n) ==
  /\ IsList(rs) /\ Tiles(rs, Len(rs), 1, n)
  /\ \A k \in 1..Len(rs) : DOMAIN rs[k] = RunFields

\* Runs without an empty one tile what has been added.
LEMMA CollectedWhole ==
  ASSUME NEW n \in Nat \ {0}, NEW rs, Collected(rs, n), rs[Len(rs)].start <= rs[Len(rs)].end
  PROVE  TextRuns(rs, n)
<1>1. PICK m \in Nat \ {0} : m = Len(rs)
  BY ListFacts DEF Collected
<1>2. /\ IsList(rs) /\ rs[1].start = 1 /\ rs[m].end = n /\ rs[m].start <= rs[m].end
      /\ \A k \in 1..m : /\ DOMAIN rs[k] = RunFields
                         /\ rs[k].start \in Int /\ rs[k].end \in Int
                         /\ rs[k].start <= rs[k].end \/ (k = m /\ rs[k].start = rs[k].end + 1)
                         /\ k > 1 => rs[k].start = rs[k - 1].end + 1
  BY <1>1 DEF Collected
<1>3. \A k \in 1..m : rs[k].start <= rs[k].end
  BY <1>2
<1>4. Tiles(rs, m, 1, n)
  BY <1>2, <1>3 DEF Tiles
<1> QED BY <1>1, <1>2, <1>4 DEF TextRuns

\* Build drops the empty run at the end.
LEMMA StyledFacts ==
  ASSUME NEW n \in Nat \ {0}, Collected(runs, n), NEW styled,
         styled = IF LastRun.end < LastRun.start THEN Front(runs) ELSE runs
  PROVE  TextRuns(styled, n)
<1>1. PICK m : m = Len(runs)
  OBVIOUS
<1>2. /\ m \in Nat /\ m >= 1 /\ runs[1].start = 1 /\ runs[m].end = n /\ m \in 1..m
      /\ runs[m].start \in Int /\ runs[m].end \in Int
  BY <1>1, ListFacts DEF Collected
<1>3. LastRun = runs[m]
  BY <1>1 DEF LastRun
<1>4. CASE runs[m].end < runs[m].start
  <2>1. m # 1
    BY <1>2, <1>4
  <2>2. /\ Collected(Front(runs), n)
        /\ LET k == Len(Front(runs)) IN Front(runs)[k].start <= Front(runs)[k].end
    <3>1. Len(runs) > 1 /\ runs[Len(runs)].end < runs[Len(runs)].start
      BY <1>1, <1>2, <1>4, <2>1
    <3> QED BY <3>1, CollectedFront
  <2> QED BY <1>3, <1>4, <2>2, CollectedWhole
<1>5. CASE ~(runs[m].end < runs[m].start)
  BY <1>1, <1>2, <1>3, <1>5, CollectedWhole
<1> QED BY <1>4, <1>5

\* Splitting keeps the runs of a text.
LEMMA SplitKeeps ==
  ASSUME NEW n \in Nat \ {0}, Len(text) = n, NEW rs, TextRuns(rs, n),
         NEW ps, NEW m, DOMAIN ps = 1..m, Tiles(ps, m, 1, n), NEW field \in {"level", "script"}
  PROVE  TextRuns(Split(rs, ps, field), n)
<1>1. PICK l : l = Len(rs)
  OBVIOUS
<1>2. DOMAIN rs = 1..l /\ Tiles(rs, l, 1, n) /\ \A k \in 1..l : DOMAIN rs[k] = RunFields
  BY <1>1, ListFacts DEF TextRuns
<1>3. PICK new : new = Split(rs, ps, field)
  OBVIOUS
<1>4. /\ IsList(new) /\ Tiles(new, Len(new), 1, n)
      /\ \A k \in 1..Len(new) :
           IsPart(new[k], rs[At(rs, new[k].start)], ps[At(ps, new[k].start)], field, new[k].start)
  BY <1>2, <1>3, SplitFacts
<1>5. \A k \in 1..Len(new) : DOMAIN new[k] = RunFields
  BY <1>4 DEF IsPart
<1> QED BY <1>3, <1>4, <1>5 DEF TextRuns

\* The runs that Build makes are those of the text.
LEMMA BuildFacts ==
  ASSUME text \in Texts, Collected(runs, Len(text)), NEW lv \in PossibleLevels, NEW styled,
         styled = IF LastRun.end < LastRun.start THEN Front(runs) ELSE runs
  PROVE  TextRuns(SplitByScript(SplitByBidi(styled, lv)), Len(text))
<1>1. PICK n \in Nat \ {0} : n = Len(text) /\ DOMAIN text = 1..n
  BY TextFacts
<1>2. TextRuns(styled, n)
  BY <1>1, StyledFacts
<1>3. lv \in LevelLists(n)
  <2>1. lv \in [1..n -> 0..2]
    BY <1>1 DEF PossibleLevels
  <2> QED BY <2>1 DEF LevelLists
<1>4. PICK m \in Nat : SplitInto(n, lv, m, Runs(lv))
  BY <1>3, RunsFacts
<1>5. DOMAIN Runs(lv) = 1..m /\ Tiles(Runs(lv), m, 1, n)
  BY <1>4, SplitTiles DEF SplitInto
<1>6. TextRuns(SplitByBidi(styled, lv), n)
  BY <1>1, <1>2, <1>5, SplitKeeps DEF SplitByBidi
<1>7. DOMAIN ScriptRuns = 1..Len(ScriptRuns) /\ Tiles(ScriptRuns, Len(ScriptRuns), 1, n)
  BY <1>1, ScriptRunsFacts, ListFacts
<1> QED BY <1>1, <1>6, <1>7, SplitKeeps DEF SplitByScript

(***************************************************************************)
(* The runs of a line.                                                     *)
(***************************************************************************)
\* The part of run k, of those from the first of a line to its last.
IsCutRun(r, k, from, to, first, end) ==
  /\ DOMAIN r = RunFields
  /\ r.start = IF k = from THEN first ELSE runs[k].start
  /\ r.end = IF k = to THEN end ELSE runs[k].end
  /\ r.style = runs[k].style /\ r.level = runs[k].level /\ r.script = runs[k].script
  /\ r.styles = IF k = from THEN SubSeq(runs[k].styles, first - runs[k].start + 1, Len(runs[k].styles))
                ELSE runs[k].styles

\* The runs of an interval of the text are exactly its runes.
LEMMA LineRunsFacts ==
  ASSUME NEW n \in Nat \ {0}, TextRuns(runs, n), NEW first \in 1..n, NEW end \in first..n,
         NEW new, new = RunsForInterval(first, end)
  PROVE  /\ IsList(new) /\ Tiles(new, Len(new), first, end)
         /\ \E from \in 1..Len(runs), to \in 1..Len(runs) :
              \A k \in 1..Len(new) : /\ from + k - 1 \in from..to
                                     /\ IsCutRun(new[k], from + k - 1, from, to, first, end)
<1>1. PICK m \in Nat \ {0} : m = Len(runs) /\ DOMAIN runs = 1..m
  BY ListFacts DEF TextRuns, Tiles
<1>2. /\ runs[1].start = 1 /\ runs[m].end = n
      /\ \A k \in 1..m : /\ runs[k].start \in Int /\ runs[k].end \in Int /\ runs[k].start <= runs[k].end
                         /\ k > 1 => runs[k].start = runs[k - 1].end + 1
      /\ \A k \in 1..m : DOMAIN runs[k] = RunFields
  BY <1>1 DEF TextRuns, Tiles
<1>3. \A j, k \in 1..m : j < k => runs[j].end < runs[k].start
  BY <1>1, TilesAscend DEF TextRuns
<1> DEFINE S == {k \in 1..m : runs[k].start <= first}
           T == {k \in 1..m : runs[k].start > end} \cup {m + 1}
<1>4. PICK from : from = Max(S)
  OBVIOUS
<1>5. from \in 1..m /\ runs[from].start <= first /\ \A k \in 1..m : runs[k].start <= first => k <= from
  <2>1. S \in SUBSET Int /\ 1 \in S /\ m \in Int /\ \A x \in S : x <= m
    BY <1>2
  <2>2. S # {}
    BY <2>1
  <2>3. from \in S /\ \A x \in S : x <= from
    <3> HIDE DEF S
    <3> QED BY <1>4, <2>1, <2>2, MaxFacts
  <2> QED BY <2>3
<1>6. PICK to : to = Min(T) - 1
  OBVIOUS
<1>7. to + 1 \in T /\ to \in Int /\ \A x \in T : to + 1 <= x
  <2>1. T \in SUBSET Int /\ T # {} /\ 1 \in Int /\ \A x \in T : 1 <= x
    OBVIOUS
  <2>2. Min(T) \in T /\ \A x \in T : Min(T) <= x
    <3> HIDE DEF T
    <3> QED BY <2>1, MinFacts
  <2>3. PICK u \in Int : u = Min(T)
    <3> HIDE DEF T
    <3> QED BY <2>1, <2>2
  <2>4. to = u - 1 /\ (u - 1) + 1 = u
    BY <1>6, <2>3
  <2> HIDE DEF T
  <2> QED BY <2>2, <2>3, <2>4
<1>8. \A x \in T : from < x
  <2> SUFFICES ASSUME NEW x \in T PROVE from < x
    OBVIOUS
  <2>1. CASE x = m + 1
    BY <1>5, <2>1
  <2>2. CASE x \in 1..m /\ runs[x].start > end
    <3>1. x < from => runs[x].end < runs[from].start
      BY <1>3, <1>5, <2>2
    <3>2. /\ runs[x].start \in Int /\ runs[x].end \in Int /\ runs[x].start <= runs[x].end
          /\ runs[from].start \in Int
      BY <1>2, <1>5, <2>2
    <3>3. x < from \/ x = from \/ from < x
      BY <1>5, <2>2
    <3> QED BY <1>5, <2>2, <3>1, <3>2, <3>3
  <2> QED BY <2>1, <2>2
<1>9. from <= to /\ to <= m
  <2>1. m + 1 \in T
    OBVIOUS
  <2>2. from < to + 1 /\ to + 1 <= m + 1
    <3> HIDE DEF T
    <3> QED BY <1>7, <1>8, <2>1
  <2> QED BY <1>5, <1>7, <2>2
<1>10. to \in 1..m /\ runs[to].start <= end
  <2>1. to \in 1..m
    BY <1>5, <1>7, <1>9
  <2>2. to \notin T
    <3> HIDE DEF T
    <3> QED BY <1>7
  <2>3. runs[to].start \in Int
    BY <1>2, <2>1
  <2> QED BY <2>1, <2>2, <2>3
<1> DEFINE Cut(k) == IF k = to THEN [runs[k] EXCEPT !.end = end] ELSE runs[k]
           Part(k) == IF k # from THEN Cut(k)
                      ELSE [Cut(k) EXCEPT
                              !.start = first,
                              !.styles = SubSeq(@, first - runs[k].start + 1, Len(@))]
<1>11. new = [k \in 1..to - from + 1 |-> Part(from + k - 1)]
  BY <1>1, <1>4, <1>6, ZenonT(30) DEF RunsForInterval
<1>12. ASSUME NEW k \in 1..m PROVE IsCutRun(Part(k), k, from, to, first, end)
  <2>1. DOMAIN runs[k] = RunFields
    BY <1>2
  <2>2. PICK c : c = Cut(k)
    OBVIOUS
  <2>3. /\ DOMAIN c = RunFields /\ c.start = runs[k].start
        /\ c.end = IF k = to THEN end ELSE runs[k].end
        /\ c.style = runs[k].style /\ c.level = runs[k].level /\ c.script = runs[k].script
        /\ c.styles = runs[k].styles
    BY <2>1, <2>2 DEF RunFields
  <2>4. PICK st : st = SubSeq(c.styles, first - runs[k].start + 1, Len(c.styles))
    OBVIOUS
  <2>5. CASE k = from
    <3>1. PICK p : p = Part(k)
      OBVIOUS
    <3>2. p = [c EXCEPT !.start = first, !.styles = st]
      BY <2>2, <2>4, <2>5, <3>1
    <3>3. /\ DOMAIN p = RunFields /\ p.start = first /\ p.end = c.end
          /\ p.style = c.style /\ p.level = c.level /\ p.script = c.script /\ p.styles = st
      BY <2>3, <3>2 DEF RunFields
    <3> HIDE DEF Part
    <3> QED BY <2>3, <2>4, <2>5, <3>1, <3>3 DEF IsCutRun
  <2>6. CASE k # from
    <3>1. Part(k) = c
      BY <2>2, <2>6
    <3> HIDE DEF Part
    <3> QED BY <2>3, <2>6, <3>1 DEF IsCutRun
  <2> QED BY <2>5, <2>6
<1> HIDE DEF Part, S, T
<1>13. PICK l \in Nat \ {0} : l = to - from + 1
  BY <1>5, <1>9, <1>10
<1>14. IsList(new) /\ Len(new) = l /\ \A k \in 1..l : new[k] = Part(from + k - 1)
  <2>1. \A k \in 1..l : new[k] = Part(from + k - 1)
    BY <1>11, <1>13
  <2>2. new = [k \in 1..l |-> new[k]]
    BY <1>11, <1>13, <2>1
  <2> QED BY <2>1, <2>2, ListOf
<1>15. ASSUME NEW k \in 1..l
       PROVE  /\ from + k - 1 \in from..to /\ from + k - 1 \in 1..m
              /\ IsCutRun(new[k], from + k - 1, from, to, first, end)
  <2>1. from + k - 1 \in from..to /\ from + k - 1 \in 1..m
    BY <1>5, <1>10, <1>13
  <2> QED BY <1>12, <1>14, <2>1
<1>16. ASSUME NEW k \in 1..l
       PROVE  /\ new[k].start = IF k = 1 THEN first ELSE runs[from + k - 1].start
              /\ new[k].end = IF k = l THEN end ELSE runs[from + k - 1].end
  <2>1. (from + k - 1 = from <=> k = 1) /\ (from + k - 1 = to <=> k = l)
    BY <1>5, <1>10, <1>13
  <2> QED BY <1>15, <2>1 DEF IsCutRun
<1>17. ASSUME NEW k \in 1..l
       PROVE  /\ new[k].start \in Int /\ new[k].end \in Int /\ new[k].start <= new[k].end
              /\ k > 1 => new[k].start = new[k - 1].end + 1
  <2>1. PICK j \in 1..m : j = from + k - 1 /\ j \in from..to
    BY <1>15
  <2>2. /\ runs[j].start \in Int /\ runs[j].end \in Int /\ runs[j].start <= runs[j].end
        /\ j > 1 => runs[j].start = runs[j - 1].end + 1
    BY <1>2
  <2>3. k = l => j = to
    BY <1>5, <1>10, <1>13, <2>1
  <2>4. k = 1 => j = from
    BY <1>5, <2>1
  <2>5. k # l => first <= runs[j].end
    <3> SUFFICES ASSUME k # l PROVE first <= runs[j].end
      OBVIOUS
    <3>1. j + 1 \in 1..m /\ j + 1 > from /\ j + 1 > 1 /\ (j + 1) - 1 = j
      BY <1>5, <1>10, <1>13, <2>1
    <3>2. ~(runs[j + 1].start <= first) /\ runs[j + 1].start = runs[j].end + 1
      BY <1>2, <1>5, <3>1
    <3> QED BY <2>2, <3>2
  <2>6. new[k].start = IF k = 1 THEN first ELSE runs[j].start
    BY <1>16, <2>1
  <2>7. new[k].end = IF k = l THEN end ELSE runs[j].end
    BY <1>16, <2>1
  <2>8. new[k].start \in Int /\ new[k].end \in Int
    BY <2>2, <2>6, <2>7
  <2>9. new[k].start <= new[k].end
    BY <1>10, <2>2, <2>3, <2>5, <2>6, <2>7
  <2>10. ASSUME k > 1 PROVE new[k].start = new[k - 1].end + 1
    <3>1. k - 1 \in 1..l /\ k - 1 # l /\ from + (k - 1) - 1 = j - 1 /\ j > 1 /\ k # 1
      BY <1>5, <1>13, <2>1, <2>10
    <3>2. new[k - 1].end = runs[j - 1].end
      BY <1>16, <3>1
    <3> QED BY <2>2, <2>6, <3>1, <3>2
  <2> QED BY <2>8, <2>9, <2>10
<1>18. new[1].start = first /\ new[l].end = end
  <2>1. 1 \in 1..l /\ l \in 1..l
    OBVIOUS
  <2> QED BY <1>16, <2>1
<1>19. Tiles(new, l, first, end)
  BY <1>17, <1>18 DEF Tiles
<1>20. from \in 1..Len(runs) /\ to \in 1..Len(runs)
  BY <1>1, <1>5, <1>9, <1>10
<1>21. \A k \in 1..Len(new) : /\ from + k - 1 \in from..to
                              /\ IsCutRun(new[k], from + k - 1, from, to, first, end)
  BY <1>14, <1>15
<1> QED BY <1>14, <1>19, <1>20, <1>21

(***************************************************************************)
(* Widths, and the breaks up to which a line fits.                         *)
(***************************************************************************)
\* The ink reaches no less far after more runes.
LEMMA ReachFacts ==
  ASSUME NEW n \in Nat, NEW cs \in SUBSET (1..n), NEW b \in cs
  PROVE  /\ Reach(cs, b) \in Nat
         /\ \A a \in cs : a <= b => Reach(cs, a) <= Reach(cs, b)
<1> DEFINE far(c) == Cardinality({d \in cs : d < c}) + Ink(c)
           Fars(x) == {far(c) : c \in {d \in cs : d <= x}}
<1>1. ASSUME NEW c \in cs PROVE far(c) \in Nat /\ far(c) <= n + 1
  <2>1. {d \in cs : d < c} \in SUBSET (1..n)
    OBVIOUS
  <2>2. IsFiniteSet(1..n) /\ Cardinality(1..n) = n
    BY FS_Interval
  <2>3. PICK S : S = {d \in cs : d < c}
    OBVIOUS
  <2>4. IsFiniteSet(S) /\ Cardinality(S) <= n
    BY <2>1, <2>2, <2>3, FS_Subset
  <2>5. Cardinality(S) \in Nat
    BY <2>4, FS_CardinalityType
  <2>6. Ink(c) \in Nat /\ Ink(c) <= 1
    BY DEF Ink
  <2> QED BY <2>3, <2>4, <2>5, <2>6
<1> HIDE DEF far
<1>2. ASSUME NEW x \in cs PROVE Max(Fars(x)) \in Fars(x) /\ \A y \in Fars(x) : y <= Max(Fars(x))
  <2>1. Fars(x) \in SUBSET Int /\ Fars(x) # {} /\ \A y \in Fars(x) : y <= n + 1
    <3>1. far(x) \in Fars(x)
      OBVIOUS
    <3> QED BY <1>1, <3>1
  <2>2. n + 1 \in Int
    OBVIOUS
  <2> HIDE DEF Fars
  <2> QED BY <2>1, <2>2, MaxFacts
<1>3. \A x : Reach(cs, x) = Max(Fars(x))
  BY DEF Reach, far
<1>4. ASSUME NEW x \in cs, NEW y \in Fars(x) PROVE y \in Nat
  BY <1>1
<1>5. Reach(cs, b) \in Nat
  <2> HIDE DEF Fars
  <2> QED BY <1>2, <1>3, <1>4
<1>6. ASSUME NEW a \in cs, a <= b PROVE Reach(cs, a) <= Reach(cs, b)
  <2>1. \A y \in Fars(a) : y \in Fars(b)
    BY <1>6
  <2> HIDE DEF Fars
  <2>2. Max(Fars(a)) \in Fars(b)
    BY <1>2, <2>1
  <2> QED BY <1>2, <1>3, <2>2
<1> QED BY <1>5, <1>6

\* The width after a later rune with a glyph is not less.
LEMMA SafeWidthFacts ==
  ASSUME NEW n \in Nat, NEW cs \in SUBSET (1..n), NEW b
  PROVE  /\ SafeWidth(cs, b) \in Nat
         /\ b \in cs => \A a \in Int : a <= b => SafeWidth(cs, a) <= SafeWidth(cs, b)
<1>1. ASSUME NEW x PROVE SafeWidth(cs, x) \in Nat
  <2>1. x \in cs => Reach(cs, x) \in Nat
    BY ReachFacts
  <2> QED BY <2>1 DEF SafeWidth
<1>2. ASSUME b \in cs, NEW a \in Int, a <= b PROVE SafeWidth(cs, a) <= SafeWidth(cs, b)
  <2>1. SafeWidth(cs, b) = Reach(cs, b) /\ SafeWidth(cs, b) \in Nat
    BY <1>1, <1>2 DEF SafeWidth
  <2>2. CASE a \in cs
    <3>1. Reach(cs, a) <= Reach(cs, b)
      BY <1>2, <2>2, ReachFacts
    <3> QED BY <2>1, <2>2, <3>1 DEF SafeWidth
  <2>3. CASE a \notin cs
    <3>1. SafeWidth(cs, a) = 0
      BY <2>3 DEF SafeWidth
    <3> QED BY <2>1, <3>1
  <2> QED BY <2>2, <2>3
<1> QED BY <1>1, <1>2

\* From every break, and from the first rune, there is a line that fits.
LEMMA LineFits ==
  ASSUME NEW n \in Nat \ {0}, res.Breaks \in SUBSET (1..n), n \in res.Breaks,
         clusters \in SUBSET (1..n), n \in clusters, maxWidth \in Nat,
         EachFits(clusters, maxWidth), NEW first \in 1..n, first - 1 \in res.Breaks \cup {0}
  PROVE  Candidates(first) # {}
<1> DEFINE S == {b \in res.Breaks : b >= first /\ b \in clusters}
<1>1. PICK b : b = Min(S)
  OBVIOUS
<1>2. b \in S /\ \A x \in S : b <= x
  <2>1. S \in SUBSET Int /\ n \in S /\ 1 \in Int /\ \A x \in S : 1 <= x
    OBVIOUS
  <2>2. S # {}
    BY <2>1
  <2> HIDE DEF S
  <2> QED BY <1>1, <2>1, <2>2, MinFacts
<1>3. b \in res.Breaks /\ b \in 1..n /\ b >= first /\ b \in clusters
  BY <1>2
<1> DEFINE B == {x \in res.Breaks \cup {0} : x < b}
<1>4. PICK p : p = Max(B)
  OBVIOUS
<1>5. p \in B /\ \A x \in B : x <= p
  <2>1. B \in SUBSET Int /\ first - 1 \in B /\ b \in Int /\ \A x \in B : x <= b
    BY <1>3
  <2>2. B # {}
    BY <2>1
  <2> HIDE DEF B, S
  <2> QED BY <1>4, <2>1, <2>2, MaxFacts
<1>6. p \in res.Breaks \cup {0} /\ p \in Int /\ p < b /\ first - 1 <= p
  <2>1. first - 1 \in B
    BY <1>3
  <2> QED BY <1>5, <2>1
<1>7. \A m \in res.Breaks : ~(p < m /\ m < b)
  <2> SUFFICES ASSUME NEW m \in res.Breaks, p < m, m < b PROVE FALSE
    OBVIOUS
  <2>1. m \in B /\ m \in Int
    OBVIOUS
  <2> HIDE DEF B
  <2> QED BY <1>5, <1>6, <2>1
<1>8. SafeWidth(clusters, b) - SafeWidth(clusters, p) <= maxWidth
  BY <1>3, <1>6, <1>7 DEF EachFits
<1>9. /\ SafeWidth(clusters, b) \in Nat /\ SafeWidth(clusters, p) \in Nat
      /\ SafeWidth(clusters, first - 1) \in Nat
      /\ SafeWidth(clusters, first - 1) <= SafeWidth(clusters, b)
  <2>1. first - 1 \in Int /\ first - 1 <= b
    BY <1>3
  <2> QED BY <1>3, <2>1, SafeWidthFacts
<1>10. p = first - 1 \/ SafeWidth(clusters, p) = 0
  <2> SUFFICES ASSUME p # first - 1 PROVE SafeWidth(clusters, p) = 0
    OBVIOUS
  <2>1. p >= first /\ p \in res.Breaks
    BY <1>6
  <2>2. p \notin S
    <3> HIDE DEF S
    <3> QED BY <1>2, <1>3, <1>6
  <2>3. p \notin clusters
    BY <2>1, <2>2
  <2> QED BY <2>3 DEF SafeWidth
<1>11. Width(first, b) <= maxWidth /\ Width(first, b) >= 0
  BY <1>8, <1>9, <1>10 DEF Width
<1>12. b \in Candidates(first)
  BY <1>3, <1>11 DEF Candidates
<1> QED BY <1>12

\* A line ends at a break that it fits up to, or it is the zero line.
LEMMA LineEndFacts ==
  ASSUME NEW n \in Nat \ {0}, res.Breaks \in SUBSET (1..n), NEW first
  PROVE  /\ LineEnd(first) = 0 \/ (LineEnd(first) \in res.Breaks /\ LineEnd(first) >= first)
         /\ \A b \in Candidates(first) :
              (\A d \in Candidates(first) : Width(first, d) <= Width(first, b)) =>
                b <= LineEnd(first)
<1> DEFINE widest == {b \in Candidates(first) :
                        \A d \in Candidates(first) : Width(first, d) <= Width(first, b)}
<1>1. LineEnd(first) = Max({0} \cup widest)
  BY DEF LineEnd
<1>2. \A x \in widest : x \in res.Breaks /\ x >= first /\ x \in 1..n
  BY DEF Candidates
<1> DEFINE S == {0} \cup widest
<1>3. S \in SUBSET Int /\ 0 \in S /\ \A x \in S : x <= n
  BY <1>2
<1>4. Max(S) \in S /\ \A x \in S : x <= Max(S)
  <2>1. S # {} /\ n \in Int
    BY <1>3
  <2> HIDE DEF S
  <2> QED BY <1>3, <2>1, MaxFacts
<1>5. ASSUME NEW b \in Candidates(first),
             \A d \in Candidates(first) : Width(first, d) <= Width(first, b)
      PROVE  b <= LineEnd(first)
  <2>1. b \in S
    BY <1>5
  <2> QED BY <1>1, <1>4, <2>1
<1>6. LineEnd(first) = 0 \/ LineEnd(first) \in widest
  BY <1>1, <1>4
<1>7. LineEnd(first) = 0 \/ (LineEnd(first) \in res.Breaks /\ LineEnd(first) >= first)
  BY <1>2, <1>6
<1> QED BY <1>5, <1>7

\* Where a break is left that a line fits up to, the line is not the zero line.
LEMMA LineGoesOn ==
  ASSUME NEW n \in Nat \ {0}, res.Breaks \in SUBSET (1..n), clusters \in SUBSET (1..n),
         maxWidth \in Nat, NEW first \in 1..n, Candidates(first) # {}
  PROVE  LineEnd(first) \in res.Breaks /\ LineEnd(first) >= first
<1>1. \A b \in Candidates(first) : Width(first, b) \in Int /\ Width(first, b) <= maxWidth
  <2> SUFFICES ASSUME NEW b \in Candidates(first)
               PROVE  Width(first, b) \in Int /\ Width(first, b) <= maxWidth
    OBVIOUS
  <2>1. SafeWidth(clusters, b) \in Nat /\ SafeWidth(clusters, first - 1) \in Nat
    BY SafeWidthFacts
  <2> QED BY <2>1 DEF Width, Candidates
<1> DEFINE W == {Width(first, b) : b \in Candidates(first)}
<1>2. Max(W) \in W /\ \A x \in W : x <= Max(W)
  <2>1. W \in SUBSET Int /\ W # {} /\ \A x \in W : x <= maxWidth
    BY <1>1
  <2>2. maxWidth \in Int
    OBVIOUS
  <2> HIDE DEF W
  <2> QED BY <2>1, <2>2, MaxFacts
<1>3. PICK b \in Candidates(first) : Width(first, b) = Max(W)
  BY <1>2
<1>4. \A d \in Candidates(first) : Width(first, d) \in W
  OBVIOUS
<1>5. \A d \in Candidates(first) : Width(first, d) <= Width(first, b)
  <2> HIDE DEF W
  <2> QED BY <1>2, <1>3, <1>4
<1>6. b <= LineEnd(first)
  BY <1>5, LineEndFacts
<1>7. LineEnd(first) = 0 \/ (LineEnd(first) \in res.Breaks /\ LineEnd(first) >= first)
  BY LineEndFacts
<1>8. b \in 1..n
  BY DEF Candidates
<1> QED BY <1>6, <1>7, <1>8

\* The end of a line in a text t with the breaks bs.
InkOf(t, c) == IF t[c] = "SP" THEN 0 ELSE 1
ReachOf(t, cs, b) ==
  Max({Cardinality({d \in cs : d < c}) + InkOf(t, c) : c \in {d \in cs : d <= b}})
SafeWidthOf(t, cs, b) == IF b \in cs THEN ReachOf(t, cs, b) ELSE 0
WidthOf(t, cs, first, b) == SafeWidthOf(t, cs, b) - SafeWidthOf(t, cs, first - 1)
CandidatesOf(t, bs, cs, width, first) ==
  {b \in bs : b >= first /\ WidthOf(t, cs, first, b) <= width /\ WidthOf(t, cs, first, b) >= 0}
WidestOf(t, cs, first, all) ==
  {b \in all : \A d \in all : WidthOf(t, cs, first, d) <= WidthOf(t, cs, first, b)}
LineEndOf(t, bs, cs, width, first) ==
  Max({0} \cup WidestOf(t, cs, first, CandidatesOf(t, bs, cs, width, first)))

\* Where a line ends depends on the text, its breaks, the glyphs and the width
\* only.
LEMMA LineEndKept ==
  ASSUME text' = text, res' = res, clusters' = clusters, maxWidth' = maxWidth, NEW CONSTANT s
  PROVE  LineEnd(s)' = LineEnd(s)
<1>1. LineEnd(s) = LineEndOf(text, res.Breaks, clusters, maxWidth, s)
  BY DEF LineEndOf, WidestOf, CandidatesOf, WidthOf, SafeWidthOf, ReachOf, InkOf,
         LineEnd, Candidates, Width, SafeWidth, Reach, Ink
<1>2. LineEnd(s)' = LineEndOf(text', res'.Breaks, clusters', maxWidth', s)
  BY DEF LineEndOf, WidestOf, CandidatesOf, WidthOf, SafeWidthOf, ReachOf, InkOf,
         LineEnd, Candidates, Width, SafeWidth, Reach, Ink
<1> QED BY <1>1, <1>2

(***************************************************************************)
(* The invariant.                                                          *)
(***************************************************************************)
\* The lines so far follow each other, each is the one found from its start,
\* and the next one starts after them.
Contiguous(ls, n) ==
  /\ IF Len(ls) = 0 THEN start = 1 ELSE ls[1].start = 1 /\ start = ls[Len(ls)].end + 1
  /\ \A l \in 1..Len(ls) :
       /\ l > 1 => ls[l].start = ls[l - 1].end + 1
       /\ ls[l].start \in 1..n /\ LineEnd(ls[l].start) = ls[l].end
       /\ ls[l].end \in res.Breaks
       /\ IsList(ls[l].runs) /\ Tiles(ls[l].runs, Len(ls[l].runs), ls[l].start, ls[l].end)

\* The lines from the runes of L start the next line in L again.
StaysIn(L) == \A s \in L : LineEnd(s) + 1 \in L

\* The layout is never done: it has come to such runes.
Trapped(n) == \E L \in SUBSET (1..n) : start \in L /\ StaysIn(L)

\* What Layout relies on, and what it has done.
LayoutInv(n) ==
  /\ clusters \in SUBSET (1..n) /\ maxWidth \in Nat
  /\ start \in 1..(n + 1) /\ start - 1 \in res.Breaks \cup {0}
  /\ IsList(lines)
  /\ Contiguous(lines, n) \/ Trapped(n)

\* Breaks, then runs, then lines: what each stage leaves to the next.
ParagraphInv ==
  /\ BreaksInv
  /\ stage \in {"building", "shaping", "breaking lines", "done", "panicked"}
  /\ stage = "building" =>
       Collected(runs, Len(given)) /\ IsList(given) /\ Len(given) <= Len(text)
  /\ stage # "building" => returned
  /\ stage \in {"shaping", "breaking lines", "done"} => TextRuns(runs, Len(text))
  /\ stage \in {"building", "shaping"} => start = 1 /\ lines = <<>>
  /\ stage \in {"breaking lines", "done"} => LayoutInv(Len(text))
  /\ stage = "done" => start > Len(text)

\* The empty tuple is one.
LEMMA EmptyList ==
  IsList(<<>>) /\ Len(<<>>) = 0
<1>1. <<>> \in Seq({})
  OBVIOUS
<1> QED BY <1>1 DEF IsList

\* The invariant holds before anything is built.
LEMMA ParagraphInitInv ==
  ASSUME ParagraphInit PROVE ParagraphInv
<1>1. BreaksInv
  BY BreaksInit DEF ParagraphInit
<1>2. PICK r : r = EmptyRun(Default, 1)
  OBVIOUS
<1>3. DOMAIN r = RunFields /\ r.start = 1 /\ r.end = 0
  <2>1. PICK at \in Int : at = 1 /\ at - 1 = 0
    OBVIOUS
  <2> QED BY <1>2, <2>1, EmptyRunFacts
<1>4. runs = <<r>> /\ stage = "building" /\ given = <<>> /\ start = 1 /\ lines = <<>>
  BY <1>2 DEF ParagraphInit
<1>5. IsList(runs) /\ Len(runs) = 1 /\ runs[1] = r
  <2>1. runs = [k \in 1..1 |-> runs[k]] /\ runs[1] = r
    BY <1>4
  <2> QED BY <2>1, ListOf
<1>6. Collected(runs, 0)
  BY <1>3, <1>5 DEF Collected
<1>7. Len(text) \in Nat
  BY <1>1, TextFacts DEF BreaksInv
<1> QED BY <1>1, <1>4, <1>6, <1>7, EmptyList DEF ParagraphInv

\* The steps of LineBreak come first.
LEMMA LineBreakStep ==
  ASSUME ParagraphInv, Next, UNCHANGED paragraphVars
  PROVE  ParagraphInv'
<1>1. ~returned
  BY ReturnedStays DEF ParagraphInv
<1>2. BreaksInv'
  BY BreaksStep DEF ParagraphInv
<1>3. stage = "building"
  BY <1>1 DEF ParagraphInv
<1>4. text' = text
  BY DEF Next, Classify, ApplyRules, Collect
<1>5. /\ stage' = stage /\ runs' = runs /\ given' = given /\ start' = start /\ lines' = lines
  BY DEF paragraphVars
<1> QED BY <1>2, <1>3, <1>4, <1>5 DEF ParagraphInv, Collected

\* What building and laying out leave of LineBreak.
LEMMA VarsKept ==
  ASSUME UNCHANGED vars
  PROVE  text' = text /\ res' = res /\ BreaksInv' = BreaksInv /\ returned' = returned
<1>1. /\ text' = text /\ pos' = pos /\ indices' = indices /\ runeClasses' = runeClasses
      /\ before' = before /\ appliedRules' = appliedRules /\ res' = res
  BY DEF vars
<1> QED BY <1>1 DEF BreaksInv, Size, Gaps, returned

\* What the steps of the builder leave alone.
LEMMA BuilderStep ==
  ASSUME ParagraphInv, stage = "building", stage' = "building", UNCHANGED layoutVars, UNCHANGED vars,
         Collected(runs, Len(given)) => Collected(runs', Len(given')),
         IsList(given'), Len(given') <= Len(text)
  PROVE  ParagraphInv'
<1>1. text' = text /\ BreaksInv'
  BY VarsKept DEF ParagraphInv
<1>2. start' = start /\ lines' = lines
  BY DEF layoutVars
<1>3. start = 1 /\ lines = <<>> /\ Collected(runs, Len(given))
  BY DEF ParagraphInv
<1> QED BY <1>1, <1>2, <1>3 DEF ParagraphInv

\* PushStyle and PopStyle.
LEMMA StyleStep ==
  ASSUME ParagraphInv, NEW s, Building, runs' = StyleRun(s), stage' = stage, given' = given,
         UNCHANGED layoutVars, UNCHANGED vars
  PROVE  ParagraphInv'
<1>1. stage = "building" /\ IsList(given) /\ Len(given) <= Len(text)
  BY DEF Building, ParagraphInv
<1>2. Collected(runs, Len(given)) => Collected(runs', Len(given'))
  BY CollectedStyle
<1> QED BY <1>1, <1>2, BuilderStep

\* AddString.
LEMMA AddStep ==
  ASSUME ParagraphInv, AddString, UNCHANGED layoutVars, UNCHANGED vars
  PROVE  ParagraphInv'
<1>1. stage = "building" /\ stage' = "building"
  BY DEF AddString, Building
<1>2. Collected(runs, Len(given)) /\ IsList(given) /\ Len(given) <= Len(text)
  BY <1>1 DEF ParagraphInv
<1>3. Len(text) \in Nat /\ Len(given) \in Nat
  BY <1>2, TextFacts, ListFacts DEF ParagraphInv, BreaksInv
<1>4. PICK n \in 1..(Len(text) - Len(given)) :
         LET added == [i \in 1..n |-> style]
         IN  /\ given' = given \o added
             /\ runs' = [runs EXCEPT ![Len(runs)].end = @ + n,
                                     ![Len(runs)].styles = @ \o added]
  BY DEF AddString
<1>5. n \in Nat \ {0} /\ Len(given) + n <= Len(text)
  BY <1>3
<1>6. PICK added : added = [i \in 1..n |-> style]
  OBVIOUS
<1>7. IsList(added) /\ Len(added) = n
  <2>1. added = [i \in 1..n |-> added[i]]
    BY <1>6
  <2> QED BY <1>5, <2>1, ListOf
<1>8. IsList(given') /\ Len(given') = Len(given) + n
  <2>1. given' = given \o added
    BY <1>4, <1>6
  <2> QED BY <1>2, <1>7, <2>1, ListConcat
<1>9. PICK m : m = Len(runs)
  OBVIOUS
<1>10. DOMAIN runs[m] = RunFields /\ m \in DOMAIN runs
  BY <1>2, <1>9, ListFacts DEF Collected
<1>11. PICK l : l = [runs[m] EXCEPT !.end = @ + n, !.styles = @ \o added]
  OBVIOUS
<1>12. runs' = [runs EXCEPT ![m] = l]
  BY <1>4, <1>6, <1>9, <1>10, <1>11 DEF RunFields
<1>13. DOMAIN l = RunFields /\ l.start = runs[m].start /\ l.end = runs[m].end + n
  BY <1>10, <1>11 DEF RunFields
<1>14. Collected(runs', Len(given) + n)
  <2>1. PICK rs : rs = runs' /\ Puts(runs, m, l, rs)
    BY <1>12 DEF Puts
  <2> QED BY <1>2, <1>3, <1>5, <1>9, <1>13, <2>1, CollectedAdd
<1>15. Collected(runs, Len(given)) => Collected(runs', Len(given'))
  BY <1>8, <1>14
<1>16. Len(given') <= Len(text)
  BY <1>5, <1>8
<1> QED BY <1>1, <1>8, <1>15, <1>16, BuilderStep

\* Build.
LEMMA BuildStep ==
  ASSUME ParagraphInv, Build, UNCHANGED vars
  PROVE  ParagraphInv'
<1>1. stage = "building" /\ returned /\ Len(given) = Len(text)
  BY DEF Build, Building
<1>2. Collected(runs, Len(text)) /\ text \in Texts /\ start = 1 /\ lines = <<>>
  BY <1>1 DEF ParagraphInv, BreaksInv
<1>3. TextRuns(runs', Len(text))
  BY <1>2, BuildFacts DEF Build
<1>4. stage' \in {"shaping", "panicked"} /\ start' = start /\ lines' = lines
  BY DEF Build, layoutVars
<1>5. text' = text /\ BreaksInv' /\ returned'
  BY <1>1, VarsKept DEF ParagraphInv
<1> QED BY <1>2, <1>3, <1>4, <1>5 DEF ParagraphInv, TextRuns

\* Shape, whatever the runes that share a glyph.
LEMMA ShapeStep ==
  ASSUME ParagraphInv, Shape, UNCHANGED vars
  PROVE  ParagraphInv'
<1>1. stage = "shaping" /\ stage' = "breaking lines" /\ runs' = runs /\ start' = start /\ lines' = lines
  BY DEF Shape
<1>2. TextRuns(runs, Len(text)) /\ start = 1 /\ lines = <<>> /\ returned /\ BreaksInv
  BY <1>1 DEF ParagraphInv
<1>3. PICK n \in Nat \ {0} : n = Len(text) /\ DOMAIN text = 1..n
  BY <1>2, TextFacts DEF BreaksInv
<1>4. text' = text /\ res' = res /\ BreaksInv' /\ returned'
  BY <1>2, VarsKept
<1>5. clusters' \in SUBSET (1..n) /\ maxWidth' \in Nat
  BY <1>3, ParagraphAssumption DEF Shape, ParagraphAssumption
<1>6. IsList(lines)' /\ Contiguous(lines, n)'
  <2>1. \A l \in 1..0 : FALSE
    OBVIOUS
  <2> QED BY <1>1, <1>2, <2>1, EmptyList DEF Contiguous
<1>7. start' \in 1..(n + 1) /\ start' - 1 \in res'.Breaks \cup {0}
  <2>1. 1 - 1 = 0 /\ 1 \in 1..(n + 1)
    OBVIOUS
  <2> QED BY <1>1, <1>2, <2>1
<1>8. LayoutInv(n)'
  BY <1>5, <1>6, <1>7 DEF LayoutInv
<1>9. TextRuns(runs, Len(text))'
  BY <1>1, <1>2, <1>4
<1> QED BY <1>1, <1>3, <1>4, <1>8, <1>9 DEF ParagraphInv

\* The line that NextLine adds.
LEMMA LineFacts ==
  ASSUME NextLine
  PROVE  LET end == LineEnd(start)
             first == IF end = 0 THEN 1 ELSE start
         IN  /\ start' = end + 1
             /\ Appends(lines, [start |-> first, end |-> end, runs |-> RunsForInterval(first, end)],
                        lines')
BY DEF NextLine, Appends

\* What Layout relies on depends on what its steps keep, and on where it is.
LEMMA LayoutKept ==
  ASSUME LayoutInv(Len(text)), text' = text, res' = res, clusters' = clusters,
         maxWidth' = maxWidth, start' = start, lines' = lines
  PROVE  LayoutInv(Len(text))'
<1>1. \A s : LineEnd(s)' = LineEnd(s)
  BY LineEndKept
<1>2. Contiguous(lines, Len(text)) => Contiguous(lines, Len(text))'
  BY <1>1 DEF Contiguous
<1>3. Trapped(Len(text)) => Trapped(Len(text))'
  BY <1>1 DEF Trapped, StaysIn
<1> QED BY <1>2, <1>3 DEF LayoutInv

\* A line begins at every rune of a circle, and the next one too.
LEMMA TrappedStep ==
  ASSUME NEW n \in Nat, Trapped(n), start' = LineEnd(start) + 1,
         \A s : LineEnd(s)' = LineEnd(s)
  PROVE  Trapped(n)'
<1>1. PICK L \in SUBSET (1..n) : start \in L /\ StaysIn(L)
  BY DEF Trapped
<1>2. start' \in L
  BY <1>1 DEF StaysIn
<1>3. StaysIn(L)'
  BY <1>1 DEF StaysIn
<1> QED BY <1>2, <1>3 DEF Trapped

\* Where no line fits, the lines so far are begun again.
LEMMA TrappedBegins ==
  ASSUME NEW n \in Nat \ {0}, IsList(lines), Contiguous(lines, n), start \in 1..n,
         LineEnd(start) = 0
  PROVE  Trapped(n)
<1>1. PICK m \in Nat : m = Len(lines)
  BY ListFacts
<1>2. /\ IF m = 0 THEN start = 1 ELSE lines[1].start = 1 /\ start = lines[m].end + 1
      /\ \A l \in 1..m : /\ l > 1 => lines[l].start = lines[l - 1].end + 1
                         /\ lines[l].start \in 1..n /\ LineEnd(lines[l].start) = lines[l].end
  BY <1>1 DEF Contiguous
<1>3. PICK L : L = {lines[l].start : l \in 1..m} \cup {start}
  OBVIOUS
<1>4. L \in SUBSET (1..n) /\ start \in L
  BY <1>2, <1>3
<1>5. LineEnd(start) + 1 \in L
  <2>1. LineEnd(start) + 1 = 1
    OBVIOUS
  <2>2. 1 \in L
    <3>1. CASE m = 0
      BY <1>2, <1>3, <3>1
    <3>2. CASE m # 0
      <4>1. 1 \in 1..m
        BY <1>1, <3>2
      <4> QED BY <1>2, <1>3, <3>2, <4>1
    <3> QED BY <3>1, <3>2
  <2> QED BY <2>1, <2>2
<1>6. ASSUME NEW l \in 1..m PROVE LineEnd(lines[l].start) + 1 \in L
  <2>1. LineEnd(lines[l].start) = lines[l].end
    BY <1>2
  <2>2. CASE l = m
    <3>1. m # 0
      BY <2>2
    <3> QED BY <1>2, <1>3, <2>1, <2>2, <3>1
  <2>3. CASE l # m
    <3>1. PICK k \in 1..m : k = l + 1 /\ k > 1 /\ k - 1 = l
      BY <1>1, <2>3
    <3>2. lines[k].start = lines[l].end + 1
      BY <1>2, <3>1
    <3> QED BY <1>3, <2>1, <3>2
  <2> QED BY <2>2, <2>3
<1>7. StaysIn(L)
  BY <1>3, <1>5, <1>6 DEF StaysIn
<1> QED BY <1>4, <1>7 DEF Trapped

\* A line that fits follows the others.
LEMMA ContiguousStep ==
  ASSUME NEW n \in Nat \ {0}, TextRuns(runs, n), res.Breaks \in SUBSET (1..n), res' = res,
         IsList(lines), Contiguous(lines, n), NEW s \in 1..n, s = start, NEW e \in s..n,
         e \in res.Breaks, e = LineEnd(s), NEW x,
         x = [start |-> s, end |-> e, runs |-> RunsForInterval(s, e)],
         Appends(lines, x, lines'), start' = e + 1, \A i : LineEnd(i)' = LineEnd(i)
  PROVE  Contiguous(lines, n)'
<1>1. x.start = s /\ x.end = e /\ x.runs = RunsForInterval(s, e)
  OBVIOUS
<1>2. IsList(x.runs) /\ Tiles(x.runs, Len(x.runs), x.start, x.end)
  <2>1. PICK new : new = RunsForInterval(s, e)
    OBVIOUS
  <2>2. IsList(new) /\ Tiles(new, Len(new), s, e)
    BY <2>1, LineRunsFacts
  <2> QED BY <1>1, <2>1, <2>2
<1>3. PICK m \in Nat : m = Len(lines)
  BY ListFacts
<1> DEFINE IsLine(ls, l) ==
             /\ l > 1 => ls[l].start = ls[l - 1].end + 1
             /\ ls[l].start \in 1..n /\ LineEnd(ls[l].start) = ls[l].end
             /\ ls[l].end \in res.Breaks
             /\ IsList(ls[l].runs)
             /\ Tiles(ls[l].runs, Len(ls[l].runs), ls[l].start, ls[l].end)
<1>4. /\ IF m = 0 THEN start = 1 ELSE lines[1].start = 1 /\ start = lines[m].end + 1
      /\ \A l \in 1..m : IsLine(lines, l)
  BY <1>3 DEF Contiguous
<1>5. PICK new : new = lines'
  OBVIOUS
<1>6. IsList(new) /\ Len(new) = m + 1 /\ new[m + 1] = x /\ \A l \in 1..m : new[l] = lines[l]
  <2>1. Appends(lines, x, new)
    BY <1>5
  <2> QED BY <1>3, <2>1, ListAppend
<1>7. ASSUME NEW l \in 1..(m + 1) PROVE IsLine(new, l)
  <2>1. CASE l = m + 1
    <3>1. new[l] = x
      BY <1>6, <2>1
    <3>2. ASSUME l > 1 PROVE x.start = new[l - 1].end + 1
      <4>1. l - 1 = m /\ m \in 1..m /\ m # 0
        BY <2>1, <3>2
      <4>2. start = new[l - 1].end + 1
        BY <1>4, <1>6, <4>1
      <4> QED BY <1>1, <4>2
    <3>3. x.start \in 1..n /\ LineEnd(x.start) = x.end /\ x.end \in res.Breaks
      BY <1>1
    <3> QED BY <1>2, <3>1, <3>2, <3>3
  <2>2. CASE l # m + 1
    <3>1. l \in 1..m /\ (l > 1 => l - 1 \in 1..m)
      BY <2>2
    <3>2. new[l] = lines[l] /\ (l > 1 => new[l - 1] = lines[l - 1])
      BY <1>6, <3>1
    <3>3. IsLine(lines, l)
      BY <1>4, <3>1
    <3> QED BY <3>2, <3>3
  <2> QED BY <2>1, <2>2
<1>8. new[1].start = 1 /\ start' = new[m + 1].end + 1 /\ m + 1 # 0
  <2>1. new[1].start = 1
    <3>1. CASE m = 0
      BY <1>1, <1>4, <1>6, <3>1
    <3>2. CASE m # 0
      <4>1. 1 \in 1..m
        BY <3>2
      <4> QED BY <1>4, <1>6, <3>2, <4>1
    <3> QED BY <3>1, <3>2
  <2> QED BY <1>1, <1>6, <2>1
<1>9. \A l \in 1..Len(new) :
        /\ l > 1 => new[l].start = new[l - 1].end + 1
        /\ new[l].start \in 1..n /\ LineEnd(new[l].start) = new[l].end
        /\ new[l].end \in res.Breaks
        /\ IsList(new[l].runs) /\ Tiles(new[l].runs, Len(new[l].runs), new[l].start, new[l].end)
  BY <1>6, <1>7
<1>10. \A l \in 1..Len(new) :
         /\ l > 1 => new[l].start = new[l - 1].end + 1
         /\ new[l].start \in 1..n /\ LineEnd(new[l].start)' = new[l].end
         /\ new[l].end \in res'.Breaks
         /\ IsList(new[l].runs) /\ Tiles(new[l].runs, Len(new[l].runs), new[l].start, new[l].end)
  <2> HIDE DEF IsLine
  <2> QED BY <1>9
<1> QED BY <1>5, <1>6, <1>8, <1>10 DEF Contiguous

\* NextLine.
LEMMA NextLineStep ==
  ASSUME ParagraphInv, NextLine, UNCHANGED vars
  PROVE  ParagraphInv'
<1>1. /\ stage = "breaking lines" /\ stage' = stage /\ runs' = runs /\ clusters' = clusters
      /\ maxWidth' = maxWidth /\ start <= Len(text)
  BY DEF NextLine, TextLeft
<1>2. LayoutInv(Len(text)) /\ BreaksInv /\ returned /\ TextRuns(runs, Len(text))
  BY <1>1 DEF ParagraphInv
<1>3. PICK n \in Nat \ {0} : n = Len(text)
  BY <1>2, TextFacts DEF BreaksInv
<1>4. text' = text /\ res' = res /\ BreaksInv' /\ returned'
  BY <1>2, VarsKept
<1>5. /\ clusters \in SUBSET (1..n) /\ maxWidth \in Nat /\ start \in 1..n /\ IsList(lines)
      /\ Contiguous(lines, n) \/ Trapped(n)
  <2>1. LayoutInv(n) /\ start <= n
    BY <1>1, <1>2, <1>3
  <2> QED BY <2>1 DEF LayoutInv
<1>6. res.Breaks \in SUBSET (1..n)
  BY <1>2, <1>3 DEF BreaksInv
<1>7. PICK e : e = LineEnd(start)
  OBVIOUS
<1>8. PICK first : first = IF e = 0 THEN 1 ELSE start
  OBVIOUS
<1>9. PICK x : x = [start |-> first, end |-> e, runs |-> RunsForInterval(first, e)]
  OBVIOUS
<1>10. start' = e + 1 /\ Appends(lines, x, lines')
  BY <1>7, <1>8, <1>9, LineFacts
<1>11. e = 0 \/ (e \in res.Breaks /\ e >= start)
  BY <1>6, <1>7, LineEndFacts
<1>12. IsList(lines)'
  <2>1. PICK new : new = lines'
    OBVIOUS
  <2>2. IsList(new)
    BY <1>5, <1>10, <2>1, ListAppend
  <2> QED BY <2>1, <2>2
<1>13. start' \in 1..(n + 1) /\ start' - 1 \in res'.Breaks \cup {0}
  <2>1. e \in 0..n /\ e \in res.Breaks \cup {0}
    BY <1>6, <1>11
  <2>2. (e + 1) - 1 = e /\ e + 1 \in 1..(n + 1)
    BY <2>1
  <2> QED BY <1>4, <1>10, <2>1, <2>2
<1>14. \A s : LineEnd(s)' = LineEnd(s)
  BY <1>1, <1>4, LineEndKept
<1>15. Contiguous(lines, n)' \/ Trapped(n)'
  <2>1. CASE Trapped(n)
    <3>1. start' = LineEnd(start) + 1
      BY <1>7, <1>10
    <3> QED BY <1>14, <2>1, <3>1, TrappedStep
  <2>2. CASE Contiguous(lines, n) /\ e = 0
    <3>1. Trapped(n)
      BY <1>5, <1>7, <2>2, TrappedBegins
    <3>2. start' = LineEnd(start) + 1
      BY <1>7, <1>10
    <3> QED BY <1>14, <3>1, <3>2, TrappedStep
  <2>3. CASE Contiguous(lines, n) /\ e # 0
    <3>1. PICK s \in 1..n : s = start
      BY <1>5
    <3>2. e \in res.Breaks /\ e \in s..n
      BY <1>6, <1>11, <2>3, <3>1
    <3>3. x = [start |-> s, end |-> e, runs |-> RunsForInterval(s, e)] /\ e = LineEnd(s)
      BY <1>7, <1>8, <1>9, <2>3, <3>1
    <3>4. TextRuns(runs, n) /\ Contiguous(lines, n)
      BY <1>2, <1>3, <2>3
    <3>5. Contiguous(lines, n)'
      BY <1>4, <1>5, <1>6, <1>10, <1>14, <3>1, <3>2, <3>3, <3>4, ContiguousStep
    <3> QED BY <3>5
  <2> QED BY <1>5, <2>1, <2>2, <2>3
<1>16. LayoutInv(Len(text))'
  BY <1>1, <1>3, <1>4, <1>5, <1>12, <1>13, <1>15 DEF LayoutInv
<1> QED BY <1>1, <1>2, <1>4, <1>16 DEF ParagraphInv, TextRuns

\* UnsafeBreak.
LEMMA UnsafeStep ==
  ASSUME ParagraphInv, UnsafeBreak, UNCHANGED vars
  PROVE  ParagraphInv'
<1>1. stage = "breaking lines" /\ stage' = "panicked"
  BY DEF UnsafeBreak, TextLeft
<1>2. BreaksInv' /\ returned'
  BY <1>1, VarsKept DEF ParagraphInv
<1> QED BY <1>1, <1>2 DEF ParagraphInv

\* EndLayout.
LEMMA EndStep ==
  ASSUME ParagraphInv, EndLayout, UNCHANGED vars
  PROVE  ParagraphInv'
<1>1. /\ stage = "breaking lines" /\ start > Len(text) /\ stage' = "done" /\ runs' = runs
      /\ clusters' = clusters /\ maxWidth' = maxWidth /\ start' = start /\ lines' = lines
  BY DEF EndLayout, layoutVars
<1>2. LayoutInv(Len(text)) /\ BreaksInv /\ returned /\ TextRuns(runs, Len(text))
  BY <1>1 DEF ParagraphInv
<1>3. text' = text /\ res' = res /\ BreaksInv' /\ returned'
  BY <1>2, VarsKept
<1>4. LayoutInv(Len(text))'
  BY <1>1, <1>2, <1>3, LayoutKept
<1> QED BY <1>1, <1>2, <1>3, <1>4 DEF ParagraphInv, TextRuns

\* Every step keeps the invariant.
LEMMA ParagraphStep ==
  ASSUME ParagraphInv, [ParagraphNext]_<<vars, paragraphVars>>
  PROVE  ParagraphInv'
<1>1. CASE UNCHANGED <<vars, paragraphVars>>
  <2>1. UNCHANGED vars /\ UNCHANGED paragraphVars
    BY <1>1
  <2>2. text' = text /\ res' = res /\ BreaksInv' = BreaksInv /\ returned' = returned
    BY <2>1, VarsKept
  <2>3. /\ stage' = stage /\ runs' = runs /\ given' = given /\ clusters' = clusters
        /\ maxWidth' = maxWidth /\ start' = start /\ lines' = lines
    BY <2>1 DEF paragraphVars
  <2>4. LayoutInv(Len(text)) => LayoutInv(Len(text))'
    BY <2>2, <2>3, LayoutKept
  <2>5. /\ Collected(runs, Len(given)) => Collected(runs, Len(given))'
        /\ TextRuns(runs, Len(text)) => TextRuns(runs, Len(text))'
    BY <2>2, <2>3 DEF Collected, TextRuns
  <2> QED BY <2>2, <2>3, <2>4, <2>5 DEF ParagraphInv
<1>2. CASE Next /\ UNCHANGED paragraphVars
  BY <1>2, LineBreakStep
<1>3. ASSUME NEW s \in Styles, PushStyle(s), UNCHANGED layoutVars, UNCHANGED vars
      PROVE  ParagraphInv'
  BY <1>3, StyleStep DEF PushStyle
<1>4. CASE PopStyle /\ UNCHANGED layoutVars /\ UNCHANGED vars
  BY <1>4, StyleStep DEF PopStyle
<1>5. CASE AddString /\ UNCHANGED layoutVars /\ UNCHANGED vars
  BY <1>5, AddStep
<1>6. CASE Build /\ UNCHANGED vars
  BY <1>6, BuildStep
<1>7. CASE Shape /\ UNCHANGED vars
  BY <1>7, ShapeStep
<1>8. CASE NextLine /\ UNCHANGED vars
  BY <1>8, NextLineStep
<1>9. CASE UnsafeBreak /\ UNCHANGED vars
  BY <1>9, UnsafeStep
<1>10. CASE EndLayout /\ UNCHANGED vars
  BY <1>10, EndStep
<1> QED BY <1>1, <1>2, <1>3, <1>4, <1>5, <1>6, <1>7, <1>8, <1>9, <1>10 DEF ParagraphNext

\* What the invariant says when the layout is done.
LEMMA InvCovers ==
  ASSUME ParagraphInv PROVE LinesCoverText
<1> SUFFICES ASSUME stage = "done"
             PROVE  /\ lines[1].start = 1 /\ Last(lines).end = Len(text)
                    /\ \A l \in DOMAIN lines :
                         LET rs == lines[l].runs
                         IN  /\ l > 1 => lines[l].start = lines[l - 1].end + 1
                             /\ lines[l].end \in res.Breaks
                             /\ rs[1].start = lines[l].start /\ Last(rs).end = lines[l].end
                             /\ \A k \in DOMAIN rs :
                                  /\ rs[k].start <= rs[k].end
                                  /\ k > 1 => rs[k].start = rs[k - 1].end + 1
  BY DEF LinesCoverText
<1>1. LayoutInv(Len(text)) /\ start > Len(text) /\ text \in Texts
  BY DEF ParagraphInv, BreaksInv
<1>2. PICK n \in Nat \ {0} : n = Len(text)
  BY <1>1, TextFacts
<1>3. Contiguous(lines, n)
  <2>1. LayoutInv(n) /\ start > n
    BY <1>1, <1>2
  <2>2. ~Trapped(n)
    <3> SUFFICES ASSUME NEW L \in SUBSET (1..n), start \in L PROVE FALSE
      BY DEF Trapped
    <3>1. start \in 1..n
      OBVIOUS
    <3> QED BY <2>1, <3>1
  <2> QED BY <2>1, <2>2 DEF LayoutInv
<1>4. /\ start = n + 1 /\ IsList(lines) /\ DOMAIN lines = 1..Len(lines)
      /\ IF Len(lines) = 0 THEN start = 1 ELSE lines[1].start = 1 /\ start = lines[Len(lines)].end + 1
      /\ \A l \in 1..Len(lines) :
           /\ l > 1 => lines[l].start = lines[l - 1].end + 1
           /\ lines[l].end \in res.Breaks
           /\ IsList(lines[l].runs)
           /\ Tiles(lines[l].runs, Len(lines[l].runs), lines[l].start, lines[l].end)
  BY <1>1, <1>2, <1>3, ListFacts DEF LayoutInv, Contiguous
<1>5. lines[1].start = 1 /\ Last(lines).end = Len(text)
  <2>1. /\ Len(lines) # 0 /\ Len(lines) \in Nat /\ Len(lines) \in 1..Len(lines)
    BY <1>4, ListFacts
  <2>2. lines[Len(lines)].end \in Int
    <3>1. Tiles(lines[Len(lines)].runs, Len(lines[Len(lines)].runs), lines[Len(lines)].start,
                lines[Len(lines)].end)
      BY <1>4, <2>1
    <3> QED BY <3>1 DEF Tiles
  <2> QED BY <1>2, <1>4, <2>1, <2>2 DEF Last
<1>6. ASSUME NEW l \in DOMAIN lines, NEW rs, rs = lines[l].runs
      PROVE  /\ l > 1 => lines[l].start = lines[l - 1].end + 1
             /\ lines[l].end \in res.Breaks
             /\ rs[1].start = lines[l].start /\ Last(rs).end = lines[l].end
             /\ \A k \in DOMAIN rs :
                  /\ rs[k].start <= rs[k].end
                  /\ k > 1 => rs[k].start = rs[k - 1].end + 1
  <2>1. IsList(rs) /\ Tiles(rs, Len(rs), lines[l].start, lines[l].end)
    BY <1>4, <1>6
  <2>2. DOMAIN rs = 1..Len(rs)
    BY <2>1, ListFacts
  <2> QED BY <1>4, <2>1, <2>2 DEF Tiles, Last
<1> QED BY <1>5, <1>6

\* The only step that changes the lines moves the start.
LEMMA StepTakesFurther ==
  ASSUME ParagraphInv, [ParagraphNext]_<<vars, paragraphVars>>
  PROVE  lines' # lines /\ CanBeLaidOut => start' > start
<1> SUFFICES ASSUME lines' # lines, CanBeLaidOut PROVE start' > start
  OBVIOUS
<1>1. NextLine
  <2>1. CASE UNCHANGED <<vars, paragraphVars>>
    BY <2>1 DEF paragraphVars
  <2>2. CASE Next /\ UNCHANGED paragraphVars
    BY <2>2 DEF paragraphVars
  <2>3. ~UNCHANGED layoutVars
    BY DEF layoutVars
  <2>4. CASE (Build \/ Shape \/ NextLine \/ UnsafeBreak \/ EndLayout) /\ UNCHANGED vars
    BY <2>3, <2>4 DEF Build, Shape, UnsafeBreak, EndLayout
  <2> QED BY <2>1, <2>2, <2>3, <2>4 DEF ParagraphNext
<1>2. stage = "breaking lines" /\ start <= Len(text)
  BY <1>1 DEF NextLine, TextLeft
<1>3. LayoutInv(Len(text)) /\ BreaksInv /\ returned
  BY <1>2 DEF ParagraphInv
<1>4. PICK n \in Nat \ {0} : n = Len(text)
  BY <1>3, TextFacts DEF BreaksInv
<1>5. res.Breaks \in SUBSET (1..n) /\ n \in res.Breaks
  BY <1>3, <1>4 DEF BreaksInv
<1>6. /\ clusters \in SUBSET (1..n) /\ n \in clusters /\ maxWidth \in Nat
      /\ EachFits(clusters, maxWidth)
  BY <1>3, <1>4 DEF LayoutInv, CanBeLaidOut
<1>7. PICK s \in 1..n : s = start /\ s - 1 \in res.Breaks \cup {0}
  <2>1. LayoutInv(n) /\ start <= n
    BY <1>2, <1>3, <1>4
  <2>2. start \in 1..n /\ start - 1 \in res.Breaks \cup {0}
    BY <2>1 DEF LayoutInv
  <2> QED BY <2>2
<1>8. Candidates(s) # {}
  BY <1>5, <1>6, <1>7, LineFits
<1>9. LineEnd(s) \in res.Breaks /\ LineEnd(s) >= s
  BY <1>5, <1>6, <1>8, LineGoesOn
<1>10. start' = LineEnd(s) + 1
  BY <1>1, <1>7, LineFacts
<1>11. LineEnd(s) \in Int
  BY <1>5, <1>9
<1> QED BY <1>7, <1>9, <1>10, <1>11

\* The lines cover the text, each ends where it may be broken, and the runs of a
\* line are exactly its runes, whatever the text, its levels and its styles
\* (text.go: Layout, runsForInterval; split.go).
THEOREM LayoutCoversText == ParagraphSpec => []LinesCoverText
<1>1. ParagraphInit => ParagraphInv
  BY ParagraphInitInv
<1>2. ParagraphInv /\ [ParagraphNext]_<<vars, paragraphVars>> => ParagraphInv'
  BY ParagraphStep
<1>3. ParagraphInv => LinesCoverText
  BY InvCovers
<1> QED BY <1>1, <1>2, <1>3, PTL DEF ParagraphSpec

\* Every line takes the paragraph further, if every stretch between two breaks
\* fits and the last rune has a glyph of its own (text.go: Layout).
THEOREM LayoutTakesFurther == ParagraphSpec => LinesAdvance
<1>1. ParagraphInit => ParagraphInv
  BY ParagraphInitInv
<1>2. ParagraphInv /\ [ParagraphNext]_<<vars, paragraphVars>> => ParagraphInv'
  BY ParagraphStep
<1>3. ParagraphInv /\ [ParagraphNext]_<<vars, paragraphVars>>
        => [lines' # lines /\ CanBeLaidOut => start' > start]_<<vars, paragraphVars>>
  BY StepTakesFurther
<1> QED BY <1>1, <1>2, <1>3, PTL DEF ParagraphSpec, LinesAdvance

===============================================================================

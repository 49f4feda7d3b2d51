------------------------------ MODULE BidiRules ------------------------------
(***************************************************************************)
(* The rules of UAX #9 that text/bidi/bidi.go quotes, stated for each rune *)
(* on its own instead of as passes over the text, and the properties that  *)
(* compare the package with them.                                          *)
(***************************************************************************)
EXTENDS Bidi

(***************************************************************************)
(* BD13: sequences of the runes that are kept.                             *)
(***************************************************************************)
\* Two runes of a sequence, one right after the other: of one level run, or
\* the last of a run, an initiator, and the PDI that closes it.
Follows(lv, a, b) ==
    LET next == Min(KeptAfter(lv, a))
    IN  IF KeptAfter(lv, a) # {} /\ lv[next] = lv[a] THEN b = next
        ELSE Closes(b, a) /\ lv[a] = lv[b]

\* The sequences, each the increasing tuple of its runes.
RuleSequences(lv) ==
    LET next(a) == {b \in Kept(lv) : b > a /\ Follows(lv, a, b)}
        from[a \in Kept(lv)] == <<a>> \o IF next(a) = {} THEN <<>> ELSE from[Max(next(a))]
    IN  {from[a] : a \in {b \in Kept(lv) : ~\E c \in Kept(lv) : c < b /\ Follows(lv, c, b)}}

RuleSos(lv, s, par) ==
    LET prev == KeptBefore(lv, s[1])
    IN  LevelClass(Larger(lv[s[1]], IF prev = {} THEN par ELSE lv[Max(prev)]))

RuleEos(lv, s, par) ==
    LET next == KeptAfter(lv, Last(s))
    IN  LevelClass(Larger(lv[s[1]],
          IF next = {} \/ Class(text[Last(s)]) \in Initiators THEN par ELSE lv[Min(next)]))

(***************************************************************************)
(* W1 to W7 and N0 to N2, for the runes 1..m of one sequence; c are their  *)
(* classes before a rule and o their classes in the text.                  *)
(***************************************************************************)
RuleW1(c, sos) ==
    LET f[k \in 0..Len(c)] ==
            IF k = 0 THEN sos
            ELSE IF c[k] # "NSM" THEN c[k]
            ELSE IF f[k - 1] \in Initiators \cup {"PDI"} THEN "ON" ELSE f[k - 1]
    IN  [k \in 1..Len(c) |-> f[k]]

LastOf(c, S, k, sos) ==
    LET earlier == {n \in 1..(k - 1) : c[n] \in S}
    IN  IF earlier = {} THEN sos ELSE c[Max(earlier)]

RuleW2(c, sos) == [k \in DOMAIN c |-> IF c[k] = "EN" /\ LastOf(c, Strong, k, sos) = "AL" THEN "AN" ELSE c[k]]
RuleW3(c) == [k \in DOMAIN c |-> IF c[k] = "AL" THEN "R" ELSE c[k]]

RuleW4(c) ==
    [k \in DOMAIN c |->
        IF 1 < k /\ k < Len(c) /\ c[k - 1] = c[k + 1]
        THEN CASE c[k] \in {"ES", "CS"} /\ c[k - 1] = "EN" -> "EN"
               [] c[k] = "CS" /\ c[k - 1] = "AN" -> "AN"
               [] OTHER -> c[k]
        ELSE c[k]]

RuleW5(c) ==
    [k \in DOMAIN c |->
        IF \E n \in DOMAIN c : c[n] = "EN" /\ \A i \in (n + 1)..k \cup k..(n - 1) : c[i] = "ET"
        THEN "EN" ELSE c[k]]

RuleW6(c) == [k \in DOMAIN c |-> IF c[k] \in {"ET", "ES", "CS"} THEN "ON" ELSE c[k]]
RuleW7(c, sos) == [k \in DOMAIN c |-> IF c[k] = "EN" /\ LastOf(c, {"L", "R"}, k, sos) = "L" THEN "L" ELSE c[k]]

\* The same tuple, which TLC evaluates once and not at each application.
Tuple(c) == <<>> \o c

RuleWeak(c, sos) ==
    LET w3 == Tuple(RuleW3(Tuple(RuleW2(Tuple(RuleW1(c, sos)), sos))))
        w5 == Tuple(RuleW5(Tuple(RuleW4(w3))))
    IN  Tuple(RuleW7(RuleW6(w5), sos))

\* BD16: a closing bracket takes the last opening one of its kind that no
\* pair spans or contains; too many open ones at a time and there are no pairs.
RulePairs(c, r) ==
    LET Opens(k)  == c[k] = "ON" /\ r[k] \in Opening
        Closes16(k, j) == c[k] = "ON" /\ r[k] \in Closing /\ Pairing(r[j]) = Canonical(r[k])
        after[k \in 0..Len(c)] ==
            IF k = 0 THEN [open |-> {}, pairs |-> {}, most |-> 0]
            ELSE LET a == after[k - 1]
                     m == {j \in a.open : Closes16(k, j)}
                 IN  IF Opens(k) THEN [a EXCEPT !.open = @ \cup {k}, !.most = Larger(@, Cardinality(a.open) + 1)]
                     ELSE IF m = {} THEN a
                     ELSE [a EXCEPT !.open = {j \in @ : j < Max(m)}, !.pairs = @ \cup {<<Max(m), k>>}]
    IN  IF after[Len(c)].most > MaxBracketDepth + 1 THEN {} ELSE after[Len(c)].pairs

\* N0, one pair; its brackets and the marks that follow them change together.
RulePair(c, p, direction, sos) ==
    LET inside == {AsStrong(c[k]) : k \in (p[1] + 1)..(p[2] - 1)} \cap {"L", "R"}
        context == LET before == {k \in 1..(p[1] - 1) : AsStrong(c[k]) \in {"L", "R"}}
                   IN  IF before = {} THEN sos ELSE AsStrong(c[Max(before)])
        new == IF direction \in inside THEN direction ELSE context
    IN  IF inside = {} THEN c
        ELSE [k \in DOMAIN c |-> IF k \in {p[1], p[2]} THEN new ELSE c[k]]

RuleN0(c, o, r, direction, sos) ==
    LET found == RulePairs(c, r)
        opens == Ascending({p[1] : p \in found}, Len(c))
        pairs == [n \in DOMAIN opens |-> CHOOSE p \in found : p[1] = opens[n]]
        d == FoldLeft(LAMBDA e, p : RulePair(e, p, direction, sos), c, pairs)
        changed == {k \in DOMAIN c : c[k] # d[k]}
        bracket(k) == {n \in changed : n < k /\ \A i \in (n + 1)..k : o[i] = "NSM"}
    IN  [k \in DOMAIN c |-> IF bracket(k) = {} THEN d[k] ELSE d[Max(bracket(k))]]

\* N1 and N2: a stretch of neutrals takes the direction on both of its sides,
\* or that of the sequence.
RuleN1(c, direction, sos, eos) ==
    [k \in DOMAIN c |->
        IF c[k] \notin Neutral THEN c[k]
        ELSE LET left  == {n \in 1..(k - 1) : c[n] \notin Neutral}
                 right == {n \in (k + 1)..Len(c) : c[n] \notin Neutral}
                 a == IF left = {} THEN sos ELSE AsStrong(c[Max(left)])
                 b == IF right = {} THEN eos ELSE AsStrong(c[Min(right)])
             IN  IF a = b THEN a ELSE direction]

RuleClasses(lv, cl, par, s) ==
    LET On(f) == Tuple([k \in DOMAIN s |-> f[s[k]]])
        o == Tuple([k \in DOMAIN s |-> Class(text[s[k]])])
        sos == RuleSos(lv, s, par)
        direction == LevelClass(lv[s[1]])
        weak == RuleWeak(On(cl), sos)
    IN  Tuple(RuleN1(Tuple(RuleN0(weak, o, On(text), direction, sos)),
                     direction, sos, RuleEos(lv, s, par)))

\* The levels, from the explicit levels and the classes under overrides.
RuleLevels ==
    LET lv == embeddingLevels
        seqs == RuleSequences(lv)
        Of(i) == CHOOSE s \in seqs : i \in Range(s)
        c == [s \in seqs |-> RuleClasses(lv, runeClasses, paragraphEmbeddingLevel, s)]
    IN  [i \in DOMAIN lv |->
            IF lv[i] = -1 THEN -1
            ELSE Implicit(c[Of(i)][CHOOSE k \in DOMAIN Of(i) : Of(i)[k] = i], lv[i])]

(***************************************************************************)
(* Properties.                                                             *)
(***************************************************************************)
\* No removed rune stands where the code reads the level of a removed rune:
\* at the end of a run that a lower run follows, after an initiator, or in the
\* run of a matched PDI; and no initiator that has a PDI is overridden.
\* Elsewhere the code departs from the rules: of RLE L ON PDF R, in a paragraph
\* that runs from left to right, it gives the ON level 2 instead of 1.
RemovedAreHarmless ==
    /\ \A i \in DOMAIN isolatePDIs : runeClasses[i] \in Initiators
    /\ \A i \in DOMAIN text \ Kept(embeddingLevels) :
          LET before == KeptBefore(embeddingLevels, i)
              after  == KeptAfter(embeddingLevels, i)
          IN  before # {} /\ after # {} =>
                /\ embeddingLevels[Max(before)] <= embeddingLevels[Min(after)]
                /\ runeClasses[Max(before)] \notin Initiators
                /\ ~\E r \in LevelRuns(embeddingLevels) :
                        r.start \in Range(isolatePDIs) /\ i \in r.start..r.end

\* The passes resolve every rune as the rules resolve it, where no removed
\* rune is in the way (bidi.go:634-1280): sequences across isolates, classes
\* that change while later passes rely on the cached bitmaps, brackets that
\* nest or cross, and marks after brackets at the edge of a bit set's word.
LevelsFollowRules ==
    Explicit /\ RemovedAreHarmless => ResolvedLevels = RuleLevels

\* L1 for one rune of a line.
RuleLineLevel(lv, line, i) ==
    IF \E k \in i..(Len(line) + 1) :
        /\ k = Len(line) + 1 \/ (lv[k] # -1 /\ Class(line[k]) \in {"B", "S"})
        /\ \A n \in i..(k - 1) : lv[n] = -1 \/ Class(line[n]) \in Initiators \cup {"PDI", "WS"}
    THEN paragraphEmbeddingLevel ELSE lv[i]

\* a is drawn to the left of b, by the runs that Order or ReorderRuns gives.
LeftOf(runs, a, b) ==
    LET At(i) == CHOOSE n \in DOMAIN runs : i \in runs[n].start..runs[n].end
    IN  IF At(a) = At(b) THEN runs[At(a)].level % 2 = 0 ELSE At(a) < At(b)

InVisualOrder(runs, lv) ==
    \A a, b \in Kept(lv) :
        a < b => (LeftOf(runs, a, b) <=> Min({lv[k] : k \in Kept(lv) \cap a..b}) % 2 = 0)

\* In the runs that ReorderRuns reorders, and in those that Order returns for
\* any line, a rune is to the left of a later one if and only if the lowest
\* level on the way from one to the other is even.
EachInVisualOrder(levels) ==
    LET runs  == Runs(levels)
        order == ReorderRuns(runs, Max({levels[i] : i \in DOMAIN levels} \cup {0}))
    IN  /\ InVisualOrder([n \in DOMAIN order |-> runs[order[n]]], levels)
        /\ \A start, end \in DOMAIN text :
              start <= end =>
                  LET lv   == SubSeq(levels, start, end)
                      line == SubSeq(text, start, end)
                  IN  InVisualOrder(Order(levels, start, end),
                          [i \in DOMAIN lv |-> IF lv[i] = -1 THEN -1
                                               ELSE RuleLineLevel(lv, line, i)])

\* That is so for the levels of every paragraph and of any line of it: what
\* the reversals of L2 amount to (bidi.go:1354-1490).
VisualOrder == Explicit => EachInVisualOrder(ResolvedLevels)
=============================================================================

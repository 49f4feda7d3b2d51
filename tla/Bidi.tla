-------------------------------- MODULE Bidi --------------------------------
(***************************************************************************)
(* The second half of Instance.Process in text/bidi/bidi.go, on the state  *)
(* that the pass of BidiExplicit leaves behind: the isolating run          *)
(* sequences (X10), the weak types (W1 to W7), paired brackets (N0), the   *)
(* neutral types (N1, N2) and the implicit levels (I1, I2), followed by    *)
(* what Paragraph makes of the levels: Order, on Runs and ReorderRuns of     *)
(* BidiRuns.                                                               *)
(* Every pass is an operator from the classes before it to the classes     *)
(* after it.                                                               *)
(***************************************************************************)
EXTENDS BidiExplicit, BidiRuns

CONSTANTS
    MaxBracketDepth,    \* maxBracketDepth, 62
    WordBits            \* runes for each word of a bit set, 64

ASSUME BidiAssumption == MaxBracketDepth \in Nat /\ WordBits \in Nat \ {0}

Neutral == {"B", "S", "WS", "ON", "PDI"} \cup Initiators

\* A levelRun, both ends included.
Run(start, end) == [start |-> start, end |-> end]

\* levelRuns: a run lasts to the next rune of another level, and the removed
\* runes before that rune are its last ones; those after the last run are cut.
LevelRuns(lv) ==
    LET starts == {i \in Kept(lv) : \/ KeptBefore(lv, i) = {}
                                    \/ lv[Max(KeptBefore(lv, i))] # lv[i]}
        End(i) == LET later == {j \in starts : j > i}
                  IN  IF later = {} THEN Max(Kept(lv)) ELSE Min(later) - 1
    IN  {Run(i, End(i)) : i \in starts}

\* A sequence goes on with the run of the PDI that matches its last rune.
Extend(run, cl, lv, iso) ==
    LET Resumed(last) == Run(iso[last], Max({e \in iso[last]..Len(lv) :
                                            \A k \in iso[last]..e : lv[k] = lv[last]}
                                         \cup {iso[last] - 1}))
        after[last \in DOMAIN lv] ==
            IF cl[last] \in Initiators /\ last \in DOMAIN iso /\ iso[last] # last + 1
            THEN <<Resumed(last)>> \o after[Resumed(last).end] ELSE <<>>
    IN  <<run>> \o after[run.end]

\* isolatingRunSequences, in the order of their first runs.
RunSequences(cl, lv, iso) ==
    LET first  == {r \in LevelRuns(lv) : r.start \notin Range(iso)}
        starts == Ascending({r.start : r \in first}, Len(lv))
    IN  [n \in DOMAIN starts |->
            Extend(CHOOSE r \in first : r.start = starts[n], cl, lv, iso)]

\* isolatingRunSequence.indices: the runes that are kept, with their runs.
Indices(seq, lv) ==
    LET runOf == [i \in UNION {seq[n].start..seq[n].end : n \in DOMAIN seq} |->
                    CHOOSE n \in DOMAIN seq : i \in seq[n].start..seq[n].end]
        kept  == Ascending({i \in DOMAIN runOf : lv[i] # -1}, Len(lv))
    IN  [k \in DOMAIN kept |-> [i |-> kept[k], run |-> runOf[kept[k]]]]

LevelClass(lvl) == IF lvl % 2 = 1 THEN "R" ELSE "L"
Larger(a, b)    == IF a > b THEN a ELSE b

\* X10: the types at the start and at the end of a sequence.
StartOfSequence(seq, lv, par) ==
    LET prev == KeptBefore(lv, seq[1].start)
    IN  LevelClass(Larger(IF prev = {} THEN par ELSE lv[Max(prev)], lv[seq[1].start]))

EndOfSequence(seq, cl, lv, par) ==
    LET end  == Last(seq).end
        last == Max({k \in Kept(lv) : k <= end})
        next == KeptAfter(lv, end)
        nextLevel == IF cl[last] \in Initiators \/ next = {} THEN par ELSE lv[Min(next)]
    IN  LevelClass(Larger(nextLevel, lv[end]))

(***************************************************************************)
(* The weak types.  s.cl are the classes; s.marks are the bitmaps of the   *)
(* classes that occur in each run and in the sequence, computed once and   *)
(* widened by the passes, by which later passes and runs are skipped.      *)
(***************************************************************************)
Analyze(seq, cl) ==
    [cl |-> cl,
     marks |-> UNION {{<<n, cl[i]>> : i \in seq[n].start..seq[n].end} : n \in DOMAIN seq}]

Has(s, C) == \E m \in s.marks : m[2] \in C

Reclass(s, x, c) == [s EXCEPT !.cl[x.i] = c]
Change(s, x, c)  == [s EXCEPT !.cl[x.i] = c, !.marks = @ \cup {<<x.run, c>>}]

W1to3(s, ix, sos) ==
    LET Step(a, x) ==
            LET c == a.s.cl[x.i]
                t == CASE c = "NSM" -> Change(a.s, x, IF a.prev \in Initiators \cup {"PDI"}
                                                      THEN "ON" ELSE a.prev)
                       [] c = "EN" /\ a.strong = "AL" -> Change(a.s, x, "AN")
                       [] c = "AL" -> Change(a.s, x, "R")
                       [] OTHER -> a.s
            IN  [s |-> t, prev |-> t.cl[x.i],
                 strong |-> IF c \in Strong THEN c ELSE a.strong]
    IN  IF Has(s, {"NSM", "EN", "AL"})
        THEN FoldLeft(Step, [s |-> s, prev |-> sos, strong |-> sos], ix).s ELSE s

W4(s, ix) ==
    LET Reset(a) == [a EXCEPT !.num = "none", !.sep = 0]
        Separator(a, x, ok) == IF ok /\ a.sep = 0 THEN [a EXCEPT !.sep = x.i] ELSE Reset(a)
        Step(a, x) ==
            LET c == a.s.cl[x.i]
            IN  CASE c \in {"EN", "AN"} ->
                        [s   |-> IF a.sep # 0 /\ c = a.num THEN [a.s EXCEPT !.cl[a.sep] = c] ELSE a.s,
                         num |-> c, sep |-> 0]
                  [] c = "ES" -> Separator(a, x, a.num = "EN")
                  [] c = "CS" -> Separator(a, x, a.num # "none")
                  [] OTHER -> Reset(a)
    IN  IF Has(s, {"EN", "AN", "ES", "CS"})
        THEN FoldLeft(Step, [s |-> s, num |-> "none", sep |-> 0], ix).s ELSE s

\* W5 in one direction; it is run backwards and then forwards.
NextToEN(s, ix) ==
    LET Step(a, x) ==
            LET c == a.s.cl[x.i]
            IN  CASE c = "ET" -> IF a.next THEN [a EXCEPT !.s = Reclass(@, x, "EN")] ELSE a
                  [] OTHER -> [a EXCEPT !.next = (c = "EN")]
    IN  FoldLeft(Step, [s |-> s, next |-> FALSE], ix).s

W5Forward(s, ix) == NextToEN(s, ix)
W5(s, ix) == IF Has(s, {"ET", "EN"}) THEN NextToEN(NextToEN(s, Reverse(ix)), ix) ELSE s

W6(s, ix) ==
    LET Step(t, x) == IF t.cl[x.i] \in {"ET", "ES", "CS"} THEN Change(t, x, "ON") ELSE t
    IN  IF Has(s, {"ET", "ES", "CS"}) THEN FoldLeft(Step, s, ix) ELSE s

W7(s, ix, sos) ==
    LET Step(a, x) ==
            LET c == a.s.cl[x.i]
            IN  CASE c \in {"L", "R"} -> [a EXCEPT !.strong = c]
                  [] c = "EN" /\ a.strong = "L" -> [a EXCEPT !.s = Change(@, x, "L")]
                  [] OTHER -> a
    IN  IF Has(s, {"EN"}) THEN FoldLeft(Step, [s |-> s, strong |-> sos], ix).s ELSE s

Weak(seq, cl, lv, sos) ==
    LET ix == Indices(seq, lv)
    IN  W7(W6(W5(W4(W1to3(Analyze(seq, cl), ix, sos), ix), ix), ix), ix, sos)

(***************************************************************************)
(* N0.  bracketPairs looks only at runs that are marked as having an ON.   *)
(***************************************************************************)
\* Bracket, with U+2329 and U+232A read as U+3008 and U+3009.
Pairing(open) == CASE open = "(" -> ")" [] open = "[" -> "]" [] OTHER -> ">3009"
Canonical(r) == IF r = ">232A" THEN ">3009" ELSE r

BracketPairs(s, ix) ==
    LET Step(a, x) ==
            LET r       == text[x.i]
                matches == {n \in DOMAIN a.stack : a.stack[n].pair = Canonical(r)}
            IN  CASE a.full \/ s.cl[x.i] # "ON" \/ <<x.run, "ON">> \notin s.marks -> a
                  [] r \in Opening ->
                        IF Len(a.stack) <= MaxBracketDepth
                        THEN [a EXCEPT !.stack = Append(@, [at |-> x.i, pair |-> Pairing(r)])]
                        ELSE [a EXCEPT !.full = TRUE]
                  [] r \in Closing /\ matches # {} ->
                        [a EXCEPT !.stack = SubSeq(@, 1, Max(matches) - 1),
                                  !.pairs = @ \cup {<<a.stack[Max(matches)].at, x.i>>}]
                  [] OTHER -> a
        end == FoldLeft(Step, [stack |-> <<>>, pairs |-> {}, full |-> FALSE], ix)
    IN  IF end.full \/ ~Has(s, {"ON"}) THEN {} ELSE end.pairs

AsStrong(c) == IF c \in {"EN", "AN"} THEN "R" ELSE c

\* Both brackets of a pair take the direction of the sequence if that occurs
\* between them; else, if any strong class does, the one before the pair.
ResolvePair(a, pair, ix, direction, sos) ==
    LET between == {AsStrong(a.cl[ix[k].i]) : k \in {n \in DOMAIN ix : pair[1] < ix[n].i /\ ix[n].i < pair[2]}}
        before  == {k \in DOMAIN ix : ix[k].i < pair[1] /\ AsStrong(a.cl[ix[k].i]) \in {"L", "R"}}
        c       == IF direction \in between THEN direction
                   ELSE IF before = {} THEN sos ELSE AsStrong(a.cl[ix[Max(before)].i])
    IN  IF between \cap {"L", "R"} = {} THEN a
        ELSE [cl |-> [a.cl EXCEPT ![pair[1]] = c, ![pair[2]] = c],
              changed |-> a.changed \cup {pair[1], pair[2]}]

\* The marks that follow a changed bracket follow it, one word of the set of
\* changed brackets after the other, each from the first rune of the word.
MarksAfterBrackets(a, ix, word) ==
    LET beyond(i) == i - 1 > (word + 1) * WordBits
        Step(b, x) ==
            CASE b.stop \/ x.i - 1 < word * WordBits -> b
              [] x.i \in a.changed -> [b EXCEPT !.after = TRUE, !.class = b.cl[x.i]]
              [] x.i \notin a.changed /\ b.after ->
                    IF Class(text[x.i]) = "NSM" THEN [b EXCEPT !.cl[x.i] = b.class]
                    ELSE [b EXCEPT !.after = FALSE, !.stop = beyond(x.i)]
              [] OTHER -> [b EXCEPT !.stop = beyond(x.i)]
    IN  IF \E i \in a.changed : (i - 1) \div WordBits = word
        THEN [a EXCEPT !.cl = FoldLeft(Step, [cl |-> a.cl, after |-> FALSE, class |-> "none",
                                              stop |-> FALSE], ix).cl]
        ELSE a

N0(s, ix, direction, sos) ==
    LET found == BracketPairs(s, ix)
        opens == Ascending({p[1] : p \in found}, Len(s.cl))
        pairs == [n \in DOMAIN opens |-> CHOOSE p \in found : p[1] = opens[n]]
        done  == FoldLeft(LAMBDA a, p : ResolvePair(a, p, ix, direction, sos),
                          [cl |-> s.cl, changed |-> {}], pairs)
        words == [n \in 1..(((Len(s.cl) - 1) \div WordBits) + 1) |-> n - 1]
    IN  FoldLeft(LAMBDA a, w : MarksAfterBrackets(a, ix, w), done, words).cl

\* N1: neutrals between two strong classes of one direction.
N1(cl, ix, sos, eos) ==
    LET Settle(a, c) == IF a.start = c
                        THEN [i \in DOMAIN a.cl |-> IF i \in a.nis THEN c ELSE a.cl[i]] ELSE a.cl
        Step(a, x) ==
            LET c == AsStrong(a.cl[x.i])
            IN  CASE c \in {"L", "R"} -> [cl |-> Settle(a, c), start |-> c, nis |-> {}]
                  [] c \in Neutral \cup {"BN"} ->
                        IF a.start # "none" THEN [a EXCEPT !.nis = @ \cup {x.i}] ELSE a
                  [] OTHER -> [a EXCEPT !.start = "none", !.nis = {}]
    IN  Settle(FoldLeft(Step, [cl |-> cl, start |-> sos, nis |-> {}], ix), eos)

N2(cl, ix, direction) ==
    FoldLeft(LAMBDA d, x : IF d[x.i] \in Neutral THEN [d EXCEPT ![x.i] = direction] ELSE d, cl, ix)

Neutrals(s, seq, lv, sos, eos) ==
    LET ix        == Indices(seq, lv)
        direction == LevelClass(lv[seq[1].start])
    IN  N2(N1(N0(s, ix, direction, sos), ix, sos, eos), ix, direction)

\* I1 and I2.
Implicit(c, lvl) ==
    CASE lvl % 2 = 0 /\ lvl >= 0 /\ c = "R"            -> lvl + 1
      [] lvl % 2 = 0 /\ lvl >= 0 /\ c \in {"EN", "AN"} -> lvl + 2
      [] lvl % 2 = 1 /\ lvl >= 0 /\ c \in {"L", "EN", "AN"} -> lvl + 1
      [] OTHER -> lvl

\* Process, from X10 to N2: the classes that the levels are made from.
ResolvedClasses ==
    LET lv   == embeddingLevels
        par  == paragraphEmbeddingLevel
        seqs == RunSequences(runeClasses, lv, isolatePDIs)
        sos  == [n \in DOMAIN seqs |-> StartOfSequence(seqs[n], lv, par)]
        eos  == [n \in DOMAIN seqs |-> EndOfSequence(seqs[n], runeClasses, lv, par)]
        Resolve(cl, n) == Neutrals(Weak(seqs[n], cl, lv, sos[n]), seqs[n], lv, sos[n], eos[n])
    IN  FoldLeft(Resolve, runeClasses, [n \in DOMAIN seqs |-> n])

\* Paragraph.Levels.
ImplicitLevels(cl, lv) == [i \in DOMAIN lv |-> Implicit(cl[i], lv[i])]
ResolvedLevels == ImplicitLevels(ResolvedClasses, embeddingLevels)

(***************************************************************************)
(* What Paragraph makes of the levels.                                     *)
(***************************************************************************)
\* L1, from the last rune of a line to the first: separators, and the white
\* space and isolates before them and at the end, get the paragraph's level.
LineLevels(lv, line, par) ==
    LET Step(a, i) ==
            LET c == Class(line[i])
            IN  CASE lv[i] = -1 -> a
                  [] lv[i] # -1 /\ c \in {"B", "S"} ->
                        [lv |-> [a.lv EXCEPT ![i] = par], separator |-> TRUE, eol |-> FALSE]
                  [] lv[i] # -1 /\ c \in Initiators \cup {"PDI", "WS"} ->
                        IF a.separator \/ a.eol THEN [a EXCEPT !.lv[i] = par] ELSE a
                  [] OTHER -> [a EXCEPT !.separator = FALSE, !.eol = FALSE]
        from[i \in 1..(Len(lv) + 1)] ==
            IF i = Len(lv) + 1 THEN [lv |-> lv, separator |-> FALSE, eol |-> TRUE]
            ELSE Step(from[i + 1], i)
    IN  from[1].lv

\* Order, for the line from start to end: its runs in visual order.
Order(lv, start, end) ==
    LET line   == SubSeq(text, start, end)
        levels == LineLevels(SubSeq(lv, start, end), line, paragraphEmbeddingLevel)
        runs   == Runs(levels)
        order  == ReorderRuns(runs, Max({lv[i] : i \in DOMAIN lv} \cup {0}))
    IN  [n \in DOMAIN order |-> runs[order[n]]]
=============================================================================

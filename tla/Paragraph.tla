------------------------------ MODULE Paragraph ------------------------------
(***************************************************************************)
(* A paragraph of text/text.go and split.go: ParagraphBuilder collects runs *)
(* of styled runes and splits them where the bidirectional level and where  *)
(* the script changes; the runs are shaped; Layout breaks the paragraph     *)
(* into lines at the breaks that LineBreak has found; Paint draws the runs  *)
(* of each line in the order of BidiRuns.                                   *)
(*                                                                         *)
(* Process of LineBreak goes first, which the code calls between splitting  *)
(* and shaping: all it reads is the text.  Runs include both ends here, an  *)
(* empty run ends before it starts, and b stands for the break after rune   *)
(* b.  The levels are any that Bidi might find, and a font any that gives   *)
(* the glyphs for one to three runes of a word a width of one.  Layout       *)
(* panics at a break that HarfBuzz calls unsafe, and adds empty lines for    *)
(* ever once none of the breaks left would make a line that fits.           *)
(***************************************************************************)
EXTENDS LineBreakRules, BidiRuns

CONSTANTS
  Laid,          \* the texts, of Texts, that are built and laid out
  Styles,        \* the styles: that of a run, and the fill of a rune
  Default,       \* MakeDefaultStyle
  MaxWidths,     \* the widths given to Layout
  MaxCalls       \* bound: the styles on the stack

ASSUME ParagraphAssumption ==
  /\ \A s \in Styles \cup {Default} : DOMAIN s = {"run", "fill"}
  /\ MaxWidths \subseteq Nat /\ MaxCalls \in Nat

VARIABLES
  stage,     \* "building", "shaping", "breaking lines", "done" or "panicked"
  runs,      \* text.runs: ends, style, styles of the runes, level, script
  style,     \* currentRuneStyle; currentRunStyle is a part of it
  stack,     \* textStyleStack
  given,     \* the style with which each rune was added, history
  direction, \* ParagraphStyle.Direction as a level, 0 or 1
  levels,    \* bidiParagraph.Levels
  clusters,  \* the runes that have a glyph
  unsafe,    \* those of them whose glyph GlyphFlagsUnsafeToBreak is set on
  maxWidth,
  start,     \* the first rune of the current line
  lines

builderVars == <<style, stack, given>>
layoutVars  == <<clusters, unsafe, maxWidth, start, lines>>
paragraphVars == <<stage, runs, style, stack, given, direction, levels,
                   clusters, unsafe, maxWidth, start, lines>>

EmptyRun(s, at) ==
  [start |-> at, end |-> at - 1, style |-> s.run, styles |-> <<>>,
   level |-> 0, script |-> "none"]

ParagraphInit ==
  /\ Init
  /\ stage = "building"
  /\ runs = <<EmptyRun(Default, 1)>>
  /\ style = Default /\ stack = <<>> /\ given = <<>>
  /\ direction \in IF text \in Laid THEN {0, 1} ELSE {0}
  /\ levels = <<>>
  /\ clusters = {} /\ unsafe = {} /\ maxWidth = 0 /\ start = 1 /\ lines = <<>>

----------------------------------------------------------------------------
(* ParagraphBuilder *)

LastRun == runs[Len(runs)]

\* startStyleRun.
StyleRun(s) ==
  IF LastRun.end < LastRun.start
    THEN IF Len(runs) > 1 /\ runs[Len(runs) - 1].style = s.run
           THEN Front(runs)
           ELSE [runs EXCEPT ![Len(runs)].style = s.run]
  ELSE IF LastRun.style = s.run THEN runs
  ELSE Append(runs, EmptyRun(s, LastRun.end + 1))

Building == returned /\ text \in Laid /\ stage = "building"

\* The style merged with the current one may be any.
PushStyle(s) ==
  /\ Building /\ Len(given) < Len(text) /\ Len(stack) < MaxCalls
  /\ stack' = Append(stack, style)
  /\ style' = s
  /\ runs' = StyleRun(s)
  /\ UNCHANGED <<stage, given, direction, levels>>

PopStyle ==
  /\ Building /\ stack # <<>>
  /\ stack' = Front(stack)
  /\ style' = Last(stack)
  /\ runs' = StyleRun(Last(stack))
  /\ UNCHANGED <<stage, given, direction, levels>>

AddString ==
  /\ Building
  /\ \E n \in 1..Len(text) - Len(given) :
       LET added == [i \in 1..n |-> style]
       IN  /\ given' = given \o added
           /\ runs' = [runs EXCEPT ![Len(runs)].end = @ + n,
                                   ![Len(runs)].styles = @ \o added]
  /\ UNCHANGED <<stage, style, stack, direction, levels>>

----------------------------------------------------------------------------
(* Splitting *)

At(pieces, i) == CHOOSE k \in DOMAIN pieces : i \in pieces[k].start..pieces[k].end

\* Mutant: the part of a run keeps the styles of the whole.
SplitUnsliced(rs, pieces, field) ==
  LET starts == Ascending({rs[k].start : k \in DOMAIN rs}
                            \cup {pieces[k].start : k \in DOMAIN pieces}, Len(text))
      Part(i) == LET one == rs[At(rs, i)]
                     two == pieces[At(pieces, i)]
                 IN  [one EXCEPT
                        ![field] = two[field],
                        !.start = i,
                        !.end = IF one.end < two.end THEN one.end ELSE two.end]
  IN  [k \in DOMAIN starts |-> Part(starts[k])]

\* The loops that end splitByBidi and splitByScript: the parts of both lists, with
\* the level or the script of the piece.
Split(rs, pieces, field) ==
  LET starts == Ascending({rs[k].start : k \in DOMAIN rs}
                            \cup {pieces[k].start : k \in DOMAIN pieces}, Len(text))
      Part(i) == LET one == rs[At(rs, i)]
                     two == pieces[At(pieces, i)]
                 IN  [one EXCEPT
                        ![field] = two[field],
                        !.start = i,
                        !.end = IF one.end < two.end THEN one.end ELSE two.end,
                        !.styles = SubSeq(@, i - one.start + 1, Len(@))]
  IN  [k \in DOMAIN starts |-> Part(starts[k])]

SplitByBidi(rs, lv) == Split(rs, Runs(lv), "level")

\* LookupScript; a run whose script is common may get another one.
Script(r) ==
  CASE r = "HL" -> "Hebrew"
    [] r = "ID" -> "Han"
    [] r = "AL" -> "Latin"
    [] OTHER -> "common"

\* lookupDelimIndex; the opening delimiter of a closing one.
Opens(r)  == r \in {"OP", "OP.wide"}
Closes(r) == r \in {"CP", "CP.wide"}
Counterpart(r) == IF r = "CP" THEN "OP" ELSE "OP.wide"

\* A delimiter takes the script of the run it is in, or of its counterpart; what
\* is still open where a closing one has been matched, or has not, is dropped.
Delimit(a, r) ==
  CASE Opens(r) -> [a EXCEPT !.stack = Append(@, [rune |-> r, script |-> a.script])]
    [] Closes(r) ->
         LET open == {k \in DOMAIN a.stack : a.stack[k].rune = Counterpart(r)}
         IN  IF open = {} THEN [a EXCEPT !.stack = <<>>]
             ELSE [a EXCEPT !.rune = a.stack[Max(open)].script,
                            !.stack = SubSeq(@, 1, Max(open) - 1)]
    [] OTHER -> a

\* One rune of splitByScript; a.rune is its script.
ScriptRune(a, i) ==
  LET b == Delimit([a EXCEPT !.rune = Script(text[i])], text[i])
  IN  CASE b.rune \in {"common", b.script} -> b
        [] b.rune # "common" /\ b.script = "common" ->
             [b EXCEPT !.script = b.rune, !.runs[Len(b.runs)].script = b.rune,
                       !.stack = [k \in DOMAIN b.stack |->
                                    [b.stack[k] EXCEPT !.script = b.rune]]]
        [] OTHER ->
             [b EXCEPT !.script = b.rune,
                       !.runs = Append([@ EXCEPT ![Len(@)].end = i - 1],
                                       [start |-> i, end |-> Len(text),
                                        script |-> b.rune])]

ScriptRuns ==
  LET upTo[i \in 0..Len(text)] ==
        IF i = 0
        THEN [script |-> "common", rune |-> "common", stack |-> <<>>,
              runs |-> <<[start |-> 1, end |-> Len(text), script |-> "common"]>>]
        ELSE ScriptRune(upTo[i - 1], i)
  IN  upTo[Len(text)].runs

SplitByScript(rs) == Split(rs, ScriptRuns, "script")

\* The levels that letters and other runes can have in a paragraph.
PossibleLevels ==
  LET Of(r) == CASE r = "HL" -> {1}
                 [] r \in {"AL", "ID"} -> IF direction = 0 THEN {0, 2} ELSE {2}
                 [] OTHER -> {direction, direction + 1}
  IN  {lv \in [DOMAIN text -> 0..2] : \A i \in DOMAIN text : lv[i] \in Of(text[i])}

\* Build, with splitByFont, which splits nothing; init panics if the text is
\* more than one paragraph.
Build ==
  /\ Building /\ Len(given) = Len(text)
  /\ \E lv \in PossibleLevels :
       LET styled == IF LastRun.end < LastRun.start THEN Front(runs) ELSE runs
       IN  /\ levels' = lv
           /\ runs' = SplitByScript(SplitByBidi(styled, lv))
  /\ stage' = IF res.MandatoryBreaks # {} THEN "panicked" ELSE "shaping"
  /\ UNCHANGED <<builderVars, direction, layoutVars>>

----------------------------------------------------------------------------
(* Shaping, and the widths that Layout computes from the glyphs *)

\* A rune that may share the glyph of the one before it.
Joins(i) ==
  /\ text[i] \in {"AL", "HL"} /\ i > 1 /\ text[i - 1] = text[i]
  /\ At(runs, i) = At(runs, i - 1)

Ink(c) == IF text[c] = "SP" THEN 0 ELSE 1

\* safeWidths: how far the ink reaches once a glyph for rune b has been put
\* down, and 0 where rune b has no glyph.
Reach(cs, b) == Max({Cardinality({d \in cs : d < c}) + Ink(c) : c \in {d \in cs : d <= b}})
SafeWidth(cs, b) == IF b \in cs THEN Reach(cs, b) ELSE 0

\* Every stretch between two breaks, with the white space before it, fits.
EachFits(cs, width) ==
  \A b, e \in res.Breaks \cup {0} :
    (b < e /\ \A m \in res.Breaks : ~(b < m /\ m < e)) =>
      SafeWidth(cs, e) - SafeWidth(cs, b) <= width

\* The runes before which the code asks whether it is safe to break.
BreakRunes == {b + 1 : b \in res.Breaks \ {Len(text)}}

\* The flags of other glyphs are never read.
Shape ==
  /\ stage = "shaping"
  /\ \E swallowed \in SUBSET {i \in DOMAIN text : Joins(i)} :
       /\ clusters' = DOMAIN text \ swallowed
       /\ unsafe' \in SUBSET (BreakRunes \ swallowed)
  /\ maxWidth' \in MaxWidths
  /\ stage' = "breaking lines"
  /\ UNCHANGED <<runs, builderVars, direction, levels, start, lines>>

----------------------------------------------------------------------------
(* Layout *)

\* Mutant: the end of a line that begins within a run is the run's.
WholeRunsForInterval(first, end) ==
  LET from == Max({k \in DOMAIN runs : runs[k].start <= first})
      to == Min({k \in DOMAIN runs : runs[k].start > end} \cup {Len(runs) + 1}) - 1
      Part(k) == IF k # from THEN runs[k]
                 ELSE [runs[k] EXCEPT
                         !.start = first,
                         !.styles = SubSeq(@, first - runs[k].start + 1, Len(@))]
  IN  [k \in 1..to - from + 1 |-> Part(from + k - 1)]

\* runsCoveringInterval and runsForInterval.
RunsForInterval(first, end) ==
  LET from == Max({k \in DOMAIN runs : runs[k].start <= first})
      to == Min({k \in DOMAIN runs : runs[k].start > end} \cup {Len(runs) + 1}) - 1
      Cut(k) == IF k = to THEN [runs[k] EXCEPT !.end = end] ELSE runs[k]
      Part(k) == IF k # from THEN Cut(k)
                 ELSE [Cut(k) EXCEPT
                         !.start = first,
                         !.styles = SubSeq(@, first - runs[k].start + 1, Len(@))]
  IN  [k \in 1..to - from + 1 |-> Part(from + k - 1)]

\* safeToBreaks: a glyph begins with the rune after the break, and is not flagged.
SafeToBreak(b) == b = Len(text) \/ b + 1 \in clusters \ unsafe

\* The width of the line from rune first to the break after b.
Width(first, b) == SafeWidth(clusters, b) - SafeWidth(clusters, first - 1)

\* Mutant: a line may not be as wide as the paragraph.
NarrowCandidates(first) ==
  {b \in res.Breaks : b >= first /\ Width(first, b) < maxWidth /\ Width(first, b) >= 0}

\* The breaks up to which a line from rune first fits.
Candidates(first) ==
  {b \in res.Breaks : b >= first /\ Width(first, b) <= maxWidth /\ Width(first, b) >= 0}

\* The end of the last of the widest lines, and 0 if there is none that fits.
LineEnd(first) ==
  Max({0} \cup {b \in Candidates(first) :
                  \A d \in Candidates(first) : Width(first, d) <= Width(first, b)})

TextLeft == stage = "breaking lines" /\ start <= Len(text)

AllSafe == \A b \in res.Breaks : b >= start => SafeToBreak(b)

\* Without a candidate the line is the zero line, from the first rune to before
\* it, and the next one begins again with the first rune.
NextLine ==
  /\ TextLeft /\ AllSafe
  /\ Len(lines) <= Len(text) \* bound, reached only by zero lines
  /\ \E end \in {LineEnd(start)} :
       LET first == IF end = 0 THEN 1 ELSE start
       IN  /\ lines' = Append(lines, [start |-> first, end |-> end,
                                      runs |-> RunsForInterval(first, end)])
           /\ start' = end + 1
  /\ UNCHANGED <<stage, runs, builderVars, direction, levels, clusters, unsafe, maxWidth>>

\* The loop over the breaks panics at the first that is not safe.
UnsafeBreak ==
  /\ TextLeft /\ ~AllSafe
  /\ stage' = "panicked"
  /\ UNCHANGED <<runs, builderVars, direction, levels, layoutVars>>

EndLayout ==
  /\ stage = "breaking lines" /\ start > Len(text)
  /\ stage' = "done"
  /\ UNCHANGED <<runs, builderVars, direction, levels, layoutVars>>

----------------------------------------------------------------------------
(* Paint *)

Reversed(s) == [k \in DOMAIN s |-> s[Len(s) + 1 - k]]

\* Mutant: a run is drawn in logical order, whatever its direction.
LogicalGlyphs(run) ==
  LET cs == Ascending({c \in clusters : run.start <= c /\ c <= run.end}, Len(text))
  IN  [k \in DOMAIN cs |-> [rune |-> cs[k], font |-> run.style, level |-> run.level,
                            script |-> run.script,
                            fill |-> run.styles[cs[k] - run.start + 1].fill]]

\* run.Glyphs, from left to right: where the run's direction is not that of the
\* paragraph, both the order and the way in which the origin moves are turned.
Glyphs(run) ==
  LET cs == Ascending({c \in clusters : run.start <= c /\ c <= run.end}, Len(text))
      seq == IF run.level % 2 = 0 THEN cs ELSE Reversed(cs)
  IN  [k \in DOMAIN seq |-> [rune |-> seq[k], font |-> run.style, level |-> run.level,
                             script |-> run.script,
                             fill |-> run.styles[seq[k] - run.start + 1].fill]]

\* The glyphs of a line from left to right.
Painted(line) ==
  LET order == ReorderRuns(line.runs, Max({levels[i] : i \in DOMAIN levels}))
  IN  FlattenSeq([k \in DOMAIN order |-> Glyphs(line.runs[order[k]])])

----------------------------------------------------------------------------

ParagraphNext ==
  \/ Next /\ UNCHANGED paragraphVars
  \/ /\ \/ \E s \in Styles : PushStyle(s)
        \/ PopStyle
        \/ AddString
     /\ UNCHANGED layoutVars /\ UNCHANGED vars
  \/ (Build \/ Shape \/ NextLine \/ UnsafeBreak \/ EndLayout) /\ UNCHANGED vars

ParagraphSpec == ParagraphInit /\ [][ParagraphNext]_<<vars, paragraphVars>>

\* Layout is a loop that nothing interrupts.
FairParagraph ==
  /\ ParagraphSpec
  /\ WF_<<vars, paragraphVars>>((NextLine \/ EndLayout) /\ UNCHANGED vars)

----------------------------------------------------------------------------
(* Properties *)

\* The lines follow each other from the first rune to the last, each ends where
\* the text may be broken, and the runs of a line are exactly its runes.
LinesCoverText ==
  stage = "done" =>
    /\ lines[1].start = 1 /\ Last(lines).end = Len(text)
    /\ \A l \in DOMAIN lines :
         LET rs == lines[l].runs
         IN  /\ l > 1 => lines[l].start = lines[l - 1].end + 1
             /\ lines[l].end \in res.Breaks
             /\ rs[1].start = lines[l].start /\ Last(rs).end = lines[l].end
             /\ \A k \in DOMAIN rs :
                  /\ rs[k].start <= rs[k].end
                  /\ k > 1 => rs[k].start = rs[k - 1].end + 1

\* Whatever has happened to the run it was added to, every rune that has a
\* glyph is painted once, with the font and the fill of the style in which it
\* was added, at its own level, in its own script if it has one, and if it
\* closes a bracket, in the script of the opening one.
RunesKeepTheirStyles ==
  stage = "done" =>
    LET glyphs == FlattenSeq([l \in DOMAIN lines |-> Painted(lines[l])])
        Of(i) == {g \in ToSet(glyphs) : g.rune = i}
        Innermost(o, e) == /\ o < e /\ Opens(text[o]) /\ Closes(text[e])
                           /\ Counterpart(text[e]) = text[o]
                           /\ \A m \in o + 1..e - 1 : ~Opens(text[m]) /\ ~Closes(text[m])
    IN  /\ Len(glyphs) = Cardinality(clusters)
        /\ \A i \in clusters : \E g \in ToSet(glyphs) :
             /\ g.rune = i
             /\ g.font = given[i].run /\ g.fill = given[i].fill
             /\ g.level = levels[i]
             /\ Script(text[i]) \in {"common", g.script}
        /\ \A o, e \in DOMAIN text : Innermost(o, e) =>
             \A g \in Of(o), h \in Of(e) : g.script = h.script

\* On every line one rune is to the left of a later one exactly if the lowest
\* level from the one to the other is even, wherever styles, scripts and line
\* ends have cut the runs of the levels.
LinesInVisualOrder ==
  stage = "done" =>
    \A l \in DOMAIN lines :
      LET p == Painted(lines[l])
      IN  \A m, n \in DOMAIN p :
            p[m].rune < p[n].rune =>
              (m < n <=> Min({levels[i] : i \in p[m].rune..p[n].rune}) % 2 = 0)

\* The texts for which Layout has a line left wherever it is: every stretch
\* between two breaks fits, and the last rune has a glyph of its own, without
\* which no width is ever recorded for the end of the text.
CanBeLaidOut == EachFits(clusters, maxWidth) /\ Len(text) \in clusters

\* Every line of such a text takes the paragraph further, so that no zero line
\* begins it again.
LinesAdvance ==
  [][lines' # lines /\ CanBeLaidOut => start' > start]_<<vars, paragraphVars>>

\* The layout of such a text comes to an end, if every break is safe.
LayoutEnds ==
  stage = "breaking lines" /\ CanBeLaidOut /\ AllSafe ~> stage = "done"
=============================================================================

----------------------------- MODULE LineBreak -----------------------------
(***************************************************************************)
(* Instance.Process of text/linebreak/linebreak.go.  One pass gives every  *)
(* rune its class and sets combining marks aside (LB1, LB9, LB10); then    *)
(* one step for each remaining rune proposes verdicts for the gaps around  *)
(* it, where for each gap the verdict of the first rule stays; at last the *)
(* packed verdicts are read out word by word.                              *)
(*                                                                         *)
(* A rune is named after its class, and runes that a rule tells apart from *)
(* others of their class have names of their own.  Positions in the text   *)
(* and among the runes that are not set aside count from one; gap p is the *)
(* one before position p.  Rule numbers are ten times those of UAX #14:    *)
(* 121 is LB12a.                                                           *)
(***************************************************************************)
EXTENDS Integers, Sequences, FiniteSets, SequencesExt

CONSTANTS
    Texts,      \* the paragraphs given to Process
    PerWord     \* verdicts in a word of uint2s, 32

Breaking == {"BK", "CR", "LF", "NL", "SP", "ZW"}
Classes  == Breaking \cup
    {"XX", "CM", "SG", "WJ", "GL", "ZWJ", "B2", "BA", "BB", "HY", "CB", "CL", "CP", "EX",
     "IN", "NS", "OP", "QU", "IS", "NU", "PO", "PR", "SY", "AI", "AK", "AL", "AP", "AS",
     "CJ", "EB", "EM", "H2", "H3", "HL", "ID", "JL", "JV", "JT", "RI", "SA", "VF", "VI"}

\* Initial and final quotation marks, wide ones, wide brackets and spaces, the
\* dotted circle, U+2010, a mark of class SA and an unassigned pictograph.
Special == {"QU.Pi", "QU.Pf", "QU.wide", "OP.wide", "CP.wide", "BA.wide", "AL.circle",
            "BA.2010", "SA.mark", "ID.pict"}
Runes   == Classes \cup Special

\* runeClass and the tables of asian.go, emoji.go and package unicode.
runeClass(r) ==
    CASE r \in {"QU.Pi", "QU.Pf", "QU.wide"} -> "QU"
      [] r = "OP.wide" -> "OP"
      [] r = "CP.wide" -> "CP"
      [] r \in {"BA.wide", "BA.2010"} -> "BA"
      [] r = "AL.circle" -> "AL"
      [] r = "SA.mark" -> "SA"
      [] r = "ID.pict" -> "ID"
      [] OTHER -> r

EastAsian(r) == r \in {"QU.wide", "OP.wide", "CP.wide", "BA.wide", "ID", "NS", "CJ", "CL", "H2", "H3", "JL"}
Pi(r)        == r = "QU.Pi"
Pf(r)        == r = "QU.Pf"

ASSUME LineBreakAssumption == Texts \subseteq Seq(Runes) \ {<<>>} /\ PerWord \in Nat \ {0}

VARIABLES
    text,
    pos,            \* the rune whose rules are next; 0 before the first pass,
                    \* Size + 2 once the verdicts are collected
    indices,        \* positions of the runes that are not set aside
    runeClasses,    \* their classes
    before,         \* the verdict on each gap, the one at the end included
    appliedRules,   \* the rule it is from
    ris,            \* regional indicators in a row, so far
    res             \* the Result

vars == <<text, pos, indices, runeClasses, before, appliedRules, ris, res>>

Gaps == 1..(Len(text) + 1)

Init ==
    /\ text \in Texts
    /\ pos = 0
    /\ indices = <<>> /\ runeClasses = <<>>
    /\ before = [p \in Gaps |-> "may"]
    /\ appliedRules = [p \in Gaps |-> 310]
    /\ ris = 0
    /\ res = [MandatoryBreaks |-> {}, Breaks |-> {}]

\* LB1: the classes that stand for others.
Resolved(r) ==
    LET c == runeClass(r)
    IN  CASE c \in {"AI", "SG", "XX"} -> "AL"
          [] c = "SA" -> IF r = "SA.mark" THEN "CM" ELSE "AL"
          [] c = "CJ" -> "NS"
          [] OTHER -> c

\* Combining marks and joiners belong to the rune before them (LB9), or count
\* as alphabetic (LB10); there is no break after a joiner.
ClassifyRune(a, i) ==
    LET c       == Resolved(text[i])
        As(d)   == [a EXCEPT !.indices = Append(@, i), !.classes = Append(@, d)]
        mark    == IF a.catchCM THEN [a EXCEPT !.before[i] = "never"] ELSE As("AL")
    IN  CASE c \in Breaking -> [As(c) EXCEPT !.catchCM = FALSE]
          [] c = "CM"  -> mark
          [] c = "ZWJ" -> [mark EXCEPT !.before[i + 1] = "never", !.rules[i + 1] = 10]
          [] OTHER     -> [As(c) EXCEPT !.catchCM = TRUE]

\* The loop over the runes.
Classified ==
    LET upTo[i \in 0..Len(text)] ==
            IF i = 0 THEN [indices |-> <<>>, classes |-> <<>>, before |-> before,
                           rules |-> appliedRules, catchCM |-> FALSE]
            ELSE ClassifyRune(upTo[i - 1], i)
    IN  upTo[Len(text)]

(***************************************************************************)
(* The verdicts that the rules of one rune propose.                        *)
(***************************************************************************)
Size      == Len(runeClasses)
class(i)  == IF i > Size THEN "EOT" ELSE IF i < 1 THEN "SOT" ELSE runeClasses[i]
rune(i)   == text[indices[i]]
Wide(i)   == EastAsian(rune(i))
Circle(i) == i <= Size /\ rune(i) = "AL.circle"

\* The last of the spaces that follow i, or i.
NoSpaces(i)    == i
EndOfSpaces(i) == Max({j \in i..Size : \A k \in (i + 1)..j : class(k) = "SP"})

Before(verdict, i, rule) == {[at |-> i, verdict |-> verdict, rule |-> rule]}
After(verdict, i, rule)  == IF i + 1 <= Size THEN Before(verdict, i + 1, rule) ELSE {}
When(cond, proposals)    == IF cond THEN proposals ELSE {}

NeverBefore(i, rule) == Before("never", i, rule)
NeverAfter(i, rule)  == After("never", i, rule)

\* Line ends, spaces, and runes that glue (LB4 to LB14).
SpacingRules(i) ==
    LET c == class(i)
    IN  When(c = "BK", After("always", i, 40) \cup NeverBefore(i, 50))
        \cup When(c = "CR", (IF class(i + 1) = "LF" THEN NeverAfter(i, 50) ELSE After("always", i, 50))
                            \cup NeverBefore(i, 60))
        \cup When(c \in {"LF", "NL"}, After("always", i, 50) \cup NeverBefore(i, 60))
        \cup When(c = "SP", NeverBefore(i, 70) \cup After("may", i, 180)
                 \cup When(class(i + 1) = "IS" /\ class(i + 2) = "NU", After("may", i, 153)))
        \cup When(c = "ZW", NeverBefore(i, 70) \cup After("may", EndOfSpaces(i), 80))
        \cup When(c = "ZWJ", NeverAfter(i, 81))
        \cup When(c = "WJ", NeverBefore(i, 110) \cup NeverAfter(i, 110))
        \cup When(c = "GL", NeverAfter(i, 120)
                 \cup When(class(i - 1) \notin {"SP", "BA", "HY"}, NeverBefore(i, 121)))
        \cup When(c = "OP", NeverAfter(EndOfSpaces(i), 140))
        \cup When(c \in {"SY", "CL", "CP", "EX"}, NeverBefore(i, 130))

\* Quotation marks (LB15a, LB15b, LB19, LB19a).
QuoteRules(i) ==
    When(class(i) = "QU",
        (IF Pi(rune(i))
         THEN When(class(i - 1) \in Breaking \cup {"SOT", "OP", "QU", "GL"}, NeverAfter(EndOfSpaces(i), 151))
         ELSE NeverBefore(i, 190))
        \cup (IF Pf(rune(i))
              THEN When(class(i + 1) \in Breaking \cup {"EOT", "GL", "WJ", "CL", "QU", "CP", "EX", "IS", "SY"},
                        NeverBefore(i, 152))
              ELSE NeverAfter(i, 190))
        \cup When(i > 1 /\ ~Wide(i - 1), NeverBefore(i, 191))
        \cup When(i = Size \/ ~Wide(i + 1), NeverBefore(i, 191))
        \cup When(i < Size /\ ~Wide(i + 1), NeverAfter(i, 191))
        \cup When(i = 1 \/ ~Wide(i - 1), NeverAfter(i, 191)))

\* Punctuation and hyphens (LB15d to LB22).
PunctuationRules(i) ==
    LET c    == class(i)
        last == EndOfSpaces(i)
        wordStart == class(i - 1) \in Breaking \cup {"SOT", "CB", "GL"}
    IN  When(c = "IS", NeverBefore(i, 154) \cup When(class(i + 1) \in {"AL", "HL", "NU"}, NeverAfter(i, 290)))
        \cup When(c = "B2" /\ class(last + 1) = "B2", NeverAfter(last, 170))
        \cup When(c = "CB", Before("may", i, 200) \cup After("may", i, 200))
        \cup When(/\ c = "HL" /\ i + 2 <= Size /\ class(i + 2) # "HL"
                  /\ class(i + 1) = "HY" \/ (class(i + 1) = "BA" /\ ~Wide(i + 1)),
                  NeverAfter(i + 1, 211))
        \cup When(c = "IN", NeverBefore(i, 220))
        \cup When(c = "SY" /\ class(i + 1) = "HL", NeverAfter(i, 212))
        \cup When(c \in {"CL", "CP"} /\ class(last + 1) = "NS", NeverAfter(last, 160))
        \cup When(c = "CP" /\ ~Wide(last) /\ class(last + 1) \in {"AL", "HL", "NU"}, NeverAfter(last, 300))
        \cup When(c \in {"BA", "HY", "NS"}, NeverBefore(i, 210))
        \cup When(c = "BB", NeverAfter(i, 210))
        \cup When(c = "HY" /\ class(i + 1) = "NU", NeverAfter(i, 250))
        \cup When((c = "HY" \/ rune(i) = "BA.2010") /\ class(i + 1) = "AL" /\ wordStart, NeverAfter(i, 201))

\* Words and numbers (LB23 to LB25, LB28, LB30).
WordRules(i) ==
    LET c == class(i)
        n == class(i + 1)
        j == Max({k \in i..Size : \A m \in (i + 1)..k : class(m) \in {"SY", "IS"}})
        number == n = "NU" \/ (n = "OP" /\ (class(i + 2) = "NU" \/ (class(i + 2) = "IS" /\ class(i + 3) = "NU")))
    IN  When(c \in {"AL", "HL"},
             When(n = "NU", NeverAfter(i, 230)) \cup When(n \in {"PR", "PO"}, NeverAfter(i, 240))
             \cup When(n \in {"AL", "HL"}, NeverAfter(i, 280)))
        \cup When(c \in {"AL", "HL", "NU"} /\ n = "OP" /\ i < Size /\ ~Wide(i + 1), NeverAfter(i, 300))
        \cup When(c = "NU", When(n \in {"AL", "HL"}, NeverAfter(i, 230))
             \cup When(class(j + 1) \in {"CL", "CP"} /\ class(j + 2) \in {"PO", "PR"}, NeverAfter(j + 1, 250))
             \cup When(class(j + 1) \in {"PO", "PR", "NU"}, NeverAfter(j, 250)))
        \cup When(c \in {"PR", "PO"}, When(n \in {"AL", "HL"}, NeverAfter(i, 240)) \cup When(number, NeverAfter(i, 250)))
        \cup When(c = "PR" /\ n \in {"ID", "EB", "EM"}, NeverAfter(i, 231))
        \cup When(c \in {"ID", "EB", "EM"} /\ n = "PO", NeverAfter(i, 231))

\* Hangul, Brahmic scripts, emoji (LB26 to LB28a, LB30b).
ScriptRules(i) ==
    LET c == class(i)
        n == class(i + 1)
        aksara(k) == class(k) \in {"AK", "AS"} \/ Circle(k)
    IN  When(\/ c = "JL" /\ n \in {"JL", "JV", "H2", "H3"}
             \/ c \in {"JV", "H2"} /\ n \in {"JV", "JT"}
             \/ c \in {"JT", "H3"} /\ n = "JT", NeverAfter(i, 260))
        \cup When(\/ c = "PR" /\ n \in {"JL", "JV", "JT", "H2", "H3"}
                  \/ c \in {"JL", "JV", "JT", "H2", "H3"} /\ n = "PO", NeverAfter(i, 270))
        \cup When(c = "AP" /\ aksara(i + 1), NeverAfter(i, 281))
        \cup When(aksara(i),
                  When(n = "VI" /\ (class(i + 2) = "AK" \/ Circle(i + 2)), NeverAfter(i + 1, 281))
                  \cup When(n \in {"VI", "VF"}, NeverAfter(i, 281))
                  \cup When(aksara(i + 1) /\ class(i + 2) = "VF", NeverAfter(i, 281)))
        \cup When((c = "EB" \/ rune(i) = "ID.pict") /\ n = "EM", NeverAfter(i, 302))

RegionalRule(i, count) == When(class(i) = "RI" /\ class(i + 1) = "RI" /\ count % 2 # 0, NeverAfter(i, 301))

\* A proposal counts where its rule comes before the one that was applied.
Propose(proposals) ==
    LET Best(p) == {q \in proposals : indices[q.at] = p /\ \A o \in proposals : indices[o.at] = p => q.rule <= o.rule}
        wins(p) == Best(p) # {} /\ (CHOOSE q \in Best(p) : TRUE).rule < appliedRules[p]
    IN  /\ before' = [p \in Gaps |-> IF wins(p) THEN (CHOOSE q \in Best(p) : TRUE).verdict ELSE before[p]]
        /\ appliedRules' = [p \in Gaps |-> IF wins(p) THEN (CHOOSE q \in Best(p) : TRUE).rule ELSE appliedRules[p]]

\* The first pass, and LB2 for the first rune.  LB3 proposes nothing, as there
\* is no rune after the last.
Classify ==
    /\ pos = 0
    /\ LET a == Classified
       IN  /\ indices' = a.indices
           /\ runeClasses' = a.classes
           /\ before' = [a.before EXCEPT ![1] = IF 20 < a.rules[1] THEN "never" ELSE @]
           /\ appliedRules' = [a.rules EXCEPT ![1] = IF 20 < @ THEN 20 ELSE @]
    /\ pos' = 1
    /\ UNCHANGED <<text, ris, res>>

\* All rules for one rune.
ApplyRules ==
    /\ pos \in 1..Size
    /\ ris' = IF class(pos) # "RI" THEN 0 ELSE IF class(pos + 1) = "RI" THEN ris + 1 ELSE ris
    /\ Propose(RegionalRule(pos, ris') \cup SpacingRules(pos) \cup QuoteRules(pos)
               \cup PunctuationRules(pos) \cup WordRules(pos) \cup ScriptRules(pos))
    /\ pos' = pos + 1
    /\ UNCHANGED <<text, indices, runeClasses, res>>

\* Reading the words: gap p, zero-based p - 1, is entry i of word j.  The text
\* may be broken at its end.
Collect ==
    /\ indices # <<>> /\ pos = Size + 1
    /\ pos' = Size + 2
    /\ res' = LET word(p)  == (p - 1) \div PerWord
                  entry(p) == (p - 1) % PerWord
              IN  [MandatoryBreaks |-> {word(p) * 2 * PerWord + entry(p) : p \in {g \in Gaps : before[g] = "always"}},
                   Breaks |-> {p - 1 : p \in {g \in Gaps : before[g] # "never" \/ g = Len(text) + 1}}]
    /\ UNCHANGED <<text, indices, runeClasses, before, appliedRules, ris>>

returned == indices # <<>> /\ pos = Size + 2

Next == Classify \/ ApplyRules \/ Collect

Spec == Init /\ [][Next]_vars
=============================================================================

--------------------------- MODULE LineBreakRules ---------------------------
(***************************************************************************)
(* The rules of UAX #14 in the form in which linebreak.go quotes them, for *)
(* one gap at a time: the first rule that matches the runes on both sides  *)
(* decides.  The properties compare what Process returns with them.        *)
(***************************************************************************)
EXTENDS LineBreak

LineEnds == {"BK", "CR", "LF", "NL"}

\* LB9: a mark that has a base before it.
Attached(p) ==
    /\ Resolved(text[p]) \in {"CM", "ZWJ"}
    /\ \E b \in 1..(p - 1) :
          /\ Resolved(text[b]) \notin Breaking \cup {"CM", "ZWJ"}
          /\ \A k \in (b + 1)..(p - 1) : Resolved(text[k]) \in {"CM", "ZWJ"}

Units == SelectSeq([p \in 1..Len(text) |-> p], LAMBDA p : ~Attached(p))

\* The classes of the units; LB10 for marks without a base.
UnitClasses == [k \in DOMAIN Units |->
    IF Resolved(text[Units[k]]) \in {"CM", "ZWJ"} THEN "AL" ELSE Resolved(text[Units[k]])]

\* The verdict on the gap before unit u > 1: c are the classes of the units
\* and t their runes.
RuleVerdict(c, t, u) ==
    LET n      == Len(c)
        C(k)   == IF k < 1 THEN "SOT" ELSE IF k > n THEN "EOT" ELSE c[k]
        L      == c[u - 1]
        R      == c[u]
        wide(k) == EastAsian(t[k])
        circle(k) == k \in 1..n /\ t[k] = "AL.circle"
        aksara(k) == C(k) \in {"AK", "AS"} \/ circle(k)
        \* what stands before the spaces before the gap
        b      == LET S == {k \in 1..(u - 1) : c[k] # "SP"} IN IF S = {} THEN 0 ELSE Max(S)
        \* NU [SY IS]* ends at k
        number(k) == \E s \in 1..k : c[s] = "NU" /\ \A m \in (s + 1)..k : c[m] \in {"SY", "IS"}
        inNumber == \/ L \in {"PO", "PR"} /\ R = "NU"
                    \/ L \in {"PO", "PR"} /\ R = "OP" /\ (C(u + 1) = "NU" \/ (C(u + 1) = "IS" /\ C(u + 2) = "NU"))
                    \/ L \in {"HY", "IS"} /\ R = "NU"
                    \/ number(u - 1) /\ R \in {"NU", "PO", "PR"}
                    \/ u > 2 /\ number(u - 2) /\ L \in {"CL", "CP"} /\ R \in {"PO", "PR"}
        hangul == {"JL", "JV", "JT", "H2", "H3"}
        indicators == Cardinality({k \in 1..(u - 1) : \A m \in k..(u - 1) : c[m] = "RI"})
        rules  == <<
          <<L = "BK", "always">>,
          <<L = "CR" /\ R = "LF", "never">>,
          <<L \in {"CR", "LF", "NL"}, "always">>,
          <<R \in LineEnds \cup {"SP", "ZW"}, "never">>,
          <<C(b) = "ZW", "may">>,
          <<L = "WJ" \/ R = "WJ" \/ L = "GL", "never">>,
          <<R = "GL" /\ L \notin {"SP", "BA", "HY"}, "never">>,
          <<R \in {"CL", "CP", "EX", "SY"}, "never">>,
          <<C(b) = "OP", "never">>,
          <<b > 0 /\ C(b) = "QU" /\ Pi(t[b]) /\ C(b - 1) \in LineEnds \cup {"SOT", "OP", "QU", "GL", "SP", "ZW"}, "never">>,
          <<R = "QU" /\ Pf(t[u]) /\ C(u + 1) \in LineEnds \cup {"SP", "GL", "WJ", "CL", "QU", "CP", "EX", "IS", "SY", "ZW", "EOT"}, "never">>,
          <<L = "SP" /\ R = "IS" /\ C(u + 1) = "NU", "may">>,
          <<R = "IS", "never">>,
          <<C(b) \in {"CL", "CP"} /\ R = "NS", "never">>,
          <<C(b) = "B2" /\ R = "B2", "never">>,
          <<L = "SP", "may">>,
          <<(R = "QU" /\ ~Pi(t[u])) \/ (L = "QU" /\ ~Pf(t[u - 1])), "never">>,
          <<R = "QU" /\ (~wide(u - 1) \/ u = n \/ ~wide(u + 1)), "never">>,
          <<L = "QU" /\ (~wide(u) \/ u = 2 \/ ~wide(u - 2)), "never">>,
          <<L = "CB" \/ R = "CB", "may">>,
          <<(L = "HY" \/ t[u - 1] = "BA.2010") /\ R = "AL" /\ C(u - 2) \in LineEnds \cup {"SOT", "SP", "ZW", "CB", "GL"}, "never">>,
          <<R \in {"BA", "HY", "NS"} \/ L = "BB", "never">>,
          <<C(u - 2) = "HL" /\ (L = "HY" \/ (L = "BA" /\ ~wide(u - 1))) /\ R # "HL", "never">>,
          <<(L = "SY" /\ R = "HL") \/ R = "IN", "never">>,
          <<(L \in {"AL", "HL"} /\ R = "NU") \/ (L = "NU" /\ R \in {"AL", "HL"}), "never">>,
          <<(L = "PR" /\ R \in {"ID", "EB", "EM"}) \/ (L \in {"ID", "EB", "EM"} /\ R = "PO"), "never">>,
          <<(L \in {"PR", "PO"} /\ R \in {"AL", "HL"}) \/ (L \in {"AL", "HL"} /\ R \in {"PR", "PO"}), "never">>,
          <<inNumber, "never">>,
          <<\/ L = "JL" /\ R \in {"JL", "JV", "H2", "H3"}
            \/ L \in {"JV", "H2"} /\ R \in {"JV", "JT"}
            \/ L \in {"JT", "H3"} /\ R = "JT", "never">>,
          <<(L \in hangul /\ R = "PO") \/ (L = "PR" /\ R \in hangul), "never">>,
          <<L \in {"AL", "HL"} /\ R \in {"AL", "HL"}, "never">>,
          <<\/ L = "AP" /\ aksara(u)
            \/ aksara(u - 1) /\ R \in {"VF", "VI"}
            \/ aksara(u - 2) /\ L = "VI" /\ (R = "AK" \/ circle(u))
            \/ aksara(u - 1) /\ aksara(u) /\ C(u + 1) = "VF", "never">>,
          <<L = "IS" /\ R \in {"AL", "HL"}, "never">>,
          <<\/ L \in {"AL", "HL", "NU"} /\ R = "OP" /\ ~wide(u)
            \/ L = "CP" /\ ~wide(u - 1) /\ R \in {"AL", "HL", "NU"}, "never">>,
          <<R = "RI" /\ indicators % 2 = 1, "never">>,
          <<(L = "EB" \/ t[u - 1] = "ID.pict") /\ R = "EM", "never">>,
          <<TRUE, "may">> >>
    IN  rules[Min({k \in DOMAIN rules : rules[k][1]})][2]

\* The verdicts on all gaps but the last: LB2 for the first, LB9 and LB8a for
\* marks and what follows a joiner.
Verdicts ==
    LET t == [k \in DOMAIN Units |-> text[Units[k]]]
    IN  [p \in 1..Len(text) |->
            IF p = 1 \/ Attached(p) \/ Resolved(text[p - 1]) = "ZWJ" THEN "never"
            ELSE RuleVerdict(UnitClasses, t, CHOOSE k \in DOMAIN Units : Units[k] = p)]

(***************************************************************************)
(* Properties.                                                             *)
(***************************************************************************)
TypeOK ==
    /\ text \in Texts
    /\ pos \in 0..(Size + 2)
    /\ indices \in Seq(1..Len(text)) /\ runeClasses \in Seq(Classes) /\ Len(indices) = Size
    /\ before \in [Gaps -> {"always", "never", "may"}]
    /\ appliedRules \in [Gaps -> 10..310]
    /\ ris \in 0..Len(text)

\* What Process returns, after every rune has proposed its own verdicts, from
\* its own place in the text and in the order of the runes: a break before each
\* gap for which the first rule that matches it allows one, whatever proposals
\* reached over spaces and marks, arrived before or after a better one, or were
\* made by two runes for one gap (linebreak.go:310-755); and, as far as they are
\* read from the first word, mandatory ones exactly after line ends (757-775).
BreaksFollowRules ==
    [][~returned /\ returned' =>
         /\ res'.Breaks = {p - 1 : p \in {q \in 1..Len(text) : Verdicts[q] # "never"}}
                            \cup {Len(text)}
         /\ res'.MandatoryBreaks \cap 0..(PerWord - 1)
              = {p - 1 : p \in {q \in 1..PerWord : q <= Len(text) /\ Verdicts[q] = "always"}}]_vars
=============================================================================

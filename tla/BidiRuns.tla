------------------------------ MODULE BidiRuns ------------------------------
(***************************************************************************)
(* Runs and ReorderRuns of text/bidi/bidi.go: a line of text as runs of    *)
(* one level, and the order in which they are drawn.  A run has its level, *)
(* and its first and last rune, both included; the level of a formatting   *)
(* character that has been removed is -1.                                  *)
(***************************************************************************)
EXTENDS Integers, Sequences, FiniteSets, SequencesExt

\* The positions of S, a subset of 1..n, from the first to the last.
Ascending(S, n) ==
    LET upTo[k \in 0..n] ==
            IF k = 0 THEN <<>> ELSE IF k \in S THEN Append(upTo[k - 1], k) ELSE upTo[k - 1]
    IN  upTo[n]

Kept(lv)         == {i \in DOMAIN lv : lv[i] # -1}
KeptBefore(lv, i) == {k \in Kept(lv) : k < i}
KeptAfter(lv, i)  == {k \in Kept(lv) : k > i}

\* The level of the rune before i, leaving out those that are removed.
LevelBefore(lv, i) == IF KeptBefore(lv, i) = {} THEN lv[1] ELSE lv[Max(KeptBefore(lv, i))]

\* Runs: from each rune that is kept and has another level than the one
\* before it to the next such rune.  The first starts with the first rune.
Runs(lv) ==
    LET starts == Ascending({1} \cup {i \in Kept(lv) : lv[i] # LevelBefore(lv, i)}, Len(lv))
    IN  [n \in DOMAIN starts |->
            [level |-> lv[starts[n]], start |-> starts[n],
             end |-> IF n = Len(starts) THEN Len(lv) ELSE starts[n + 1] - 1]]

\* The order with every stretch of the positions in high reversed.
ReverseEach(order, high) ==
    LET low      == DOMAIN order \ high
        first(j) == Max({1} \cup {k + 1 : k \in {n \in low : n < j}})
        last(j)  == Min({Len(order)} \cup {k - 1 : k \in {n \in low : n > j}})
    IN  [j \in DOMAIN order |-> IF j \in high THEN order[first(j) + last(j) - j] ELSE order[j]]

\* L2: for each level from the highest down to the least odd one, reverse the
\* stretches of runs whose level, by position, is at least that level.
ReverseEqual(order, runs, i)   == ReverseEach(order, {j \in DOMAIN runs : runs[j].level = i})
ReverseStretch(order, runs, i) == ReverseEach(order, {j \in DOMAIN runs : runs[j].level >= i})

\* ReorderRuns: the runs' indices in visual order.
ReorderRuns(runs, highest) ==
    LET odd == {runs[n].level : n \in {k \in DOMAIN runs : runs[k].level % 2 # 0}}
        from[i \in Min(odd)..(highest + 1)] ==
            IF i = highest + 1 THEN [n \in DOMAIN runs |-> n]
            ELSE ReverseStretch(from[i + 1], runs, i)
    IN  IF odd = {} THEN [n \in DOMAIN runs |-> n] ELSE from[Min(odd)]
=============================================================================

---------------------------- MODULE BidiExplicit ----------------------------
(***************************************************************************)
(* The first half of Instance.Process in text/bidi/bidi.go: the pass that  *)
(* gives every rune of a paragraph its explicit level (rules X1 to X8 of   *)
(* UAX #9), rune by rune, with a stack of directional statuses, two        *)
(* counters of initiators that did not fit on it, and the matching of      *)
(* isolate initiators with their PDIs.                                     *)
(*                                                                         *)
(* A rune is named after its class; the runes that are paired brackets,    *)
(* whose class is ON, have names of their own.  Positions count from one,  *)
(* and the position of the stack's first entry, -1 in the code, is zero.   *)
(* Formatting characters are not retained, the mode of text/split.go.      *)
(***************************************************************************)
EXTENDS Integers, Sequences, FiniteSets, SequencesExt

CONSTANTS
    Texts,      \* the paragraphs given to Process
    MaxDepth    \* maxEmbeddingDepth, 125

Embeddings == {"RLE", "LRE"}
Overrides  == {"RLO", "LRO"}
Initiators == {"RLI", "LRI", "FSI"}
Removed    == Embeddings \cup Overrides \cup {"PDF", "BN"}
Strong     == {"L", "R", "AL"}
Plain      == {"L", "R", "EN", "ES", "ET", "AN", "CS", "S", "WS", "ON", "NSM", "AL"}
Classes    == Plain \cup Removed \cup Initiators \cup {"PDI", "B"}

\* Two pairs of brackets, and two spellings of a third pair: U+2329, U+232A
\* and U+3008, U+3009 are canonically equivalent.
Opening  == {"(", "[", "<2329", "<3008"}
Closing  == {")", "]", ">232A", ">3009"}
Runes    == Classes \cup Opening \cup Closing

\* Class: the table lookup.
Class(r) == IF r \in Opening \cup Closing THEN "ON" ELSE r

ASSUME TextsAssumption == Texts \subseteq Seq(Runes)
ASSUME DepthAssumption == MaxDepth \in Nat \ {0}

Override == {"neutral", "R", "L"}

VARIABLES
    text,       \* the paragraph
    paragraphEmbeddingLevel,
    pos,        \* i, the rune that is next; after the last one, X9
    runeClasses,
    embeddingLevels,
    directionalStatusStack,
    overflowIsolateCount,
    overflowEmbeddingCount,
    validIsolateCount,
    isolatePDIs \* from initiators to PDIs; its range is the bit set validPDIs

vars == <<text, paragraphEmbeddingLevel, pos, runeClasses, embeddingLevels,
          directionalStatusStack, overflowIsolateCount,
          overflowEmbeddingCount, validIsolateCount, isolatePDIs>>

paragraph == <<text, paragraphEmbeddingLevel>>
counters  == <<overflowIsolateCount, overflowEmbeddingCount, validIsolateCount>>

Status(i, level, override, isolate) ==
    [index |-> i, level |-> level, override |-> override, isolate |-> isolate]

Peek(stack) == stack[Len(stack)]

Init ==
    /\ text \in Texts
    /\ paragraphEmbeddingLevel \in {0, 1}
    /\ pos = 1
    /\ runeClasses = [i \in 1..Len(text) |-> Class(text[i])]
    /\ embeddingLevels = [i \in 1..Len(text) |-> 0]
    /\ directionalStatusStack = <<Status(0, paragraphEmbeddingLevel, "neutral", FALSE)>>   \* X1
    /\ overflowIsolateCount = 0
    /\ overflowEmbeddingCount = 0
    /\ validIsolateCount = 0
    /\ isolatePDIs = <<>>

Current(S) == pos \in 1..Len(text) /\ runeClasses[pos] \in S /\ pos' = pos + 1

\* The least odd level above lvl, or the least even one.
NextLevel(lvl, odd) ==
    IF odd = ((lvl + 1) % 2 = 1) THEN lvl + 1 ELSE lvl + 2

RightToLeft(c) == c \in {"RLE", "RLO", "RLI"}

NoOverflow == overflowIsolateCount = 0 /\ overflowEmbeddingCount = 0

\* X2 to X5: an embedding or an override.
PushEmbedding ==
    /\ Current(Embeddings \cup Overrides)
    /\ LET c   == runeClasses[pos]
           lvl == NextLevel(Peek(directionalStatusStack).level, RightToLeft(c))
           override == IF c = "RLO" THEN "R" ELSE IF c = "LRO" THEN "L" ELSE "neutral"
       IN  \/ /\ lvl <= MaxDepth /\ NoOverflow
              /\ directionalStatusStack' =
                    Append(directionalStatusStack, Status(pos, lvl, override, FALSE))
              /\ UNCHANGED overflowEmbeddingCount
           \/ /\ ~(lvl <= MaxDepth /\ NoOverflow)
              /\ overflowEmbeddingCount' =
                    IF overflowIsolateCount = 0 THEN overflowEmbeddingCount + 1
                                                ELSE overflowEmbeddingCount
              /\ UNCHANGED directionalStatusStack
    /\ UNCHANGED <<paragraph, runeClasses, embeddingLevels, overflowIsolateCount,
                   validIsolateCount, isolatePDIs>>

\* One step of the loop that looks for the first strong character of the
\* isolate opened by an FSI, and on the way for those of the FSIs inside it.
\* s.open are the initiators it is inside of, s.cl the classes so far.
FsiStep(s, j) ==
    LET top    == Peek(s.open)
        As(c)  == IF s.cl[top] = "FSI" THEN [s.cl EXCEPT ![top] = c] ELSE s.cl
        outer  == Len(s.open) = 1
    IN  IF s.done THEN s
        ELSE CASE s.cl[j] = "L" -> [s EXCEPT !.cl = As("LRI"), !.done = outer]
               [] s.cl[j] \in {"R", "AL"} -> [s EXCEPT !.cl = As("RLI"), !.done = outer]
               [] s.cl[j] \in Initiators -> [s EXCEPT !.open = Append(@, j)]
               [] s.cl[j] = "PDI" -> [s EXCEPT !.cl = As("LRI"), !.open = Front(@), !.done = outer]
               [] OTHER -> s

\* X5c: the classes after the FSI at i has been replaced by LRI or RLI.
ResolveFSI(cl, i) ==
    LET scan[j \in i..Len(cl)] ==
            IF j = i THEN [cl |-> cl, open |-> <<i>>, done |-> FALSE] ELSE FsiStep(scan[j - 1], j)
        s == scan[Len(cl)]
    IN  [k \in 1..Len(cl) |-> IF k \in ToSet(s.open) /\ s.cl[k] = "FSI" THEN "LRI" ELSE s.cl[k]]

\* The class of a rune under the override that is in effect.
Overridden(status, c) == IF status.override = "neutral" THEN c ELSE status.override

\* X5a to X5c: an isolate initiator.
PushIsolate ==
    /\ Current(Initiators)
    /\ LET cl     == IF runeClasses[pos] = "FSI" THEN ResolveFSI(runeClasses, pos) ELSE runeClasses
           status == Peek(directionalStatusStack)
           lvl    == NextLevel(status.level, RightToLeft(cl[pos]))
       IN  /\ runeClasses' = [cl EXCEPT ![pos] = Overridden(status, @)]
           /\ embeddingLevels' = [embeddingLevels EXCEPT ![pos] = status.level]
           /\ \/ /\ lvl <= MaxDepth /\ NoOverflow
                 /\ validIsolateCount' = validIsolateCount + 1
                 /\ directionalStatusStack' =
                       Append(directionalStatusStack, Status(pos, lvl, "neutral", TRUE))
                 /\ UNCHANGED overflowIsolateCount
              \/ /\ ~(lvl <= MaxDepth /\ NoOverflow)
                 /\ overflowIsolateCount' = overflowIsolateCount + 1
                 /\ UNCHANGED <<validIsolateCount, directionalStatusStack>>
    /\ UNCHANGED <<paragraph, overflowEmbeddingCount, isolatePDIs>>

FirstIsolate(stack) == CHOOSE k \in 1..Len(stack) :
    stack[k].isolate /\ \A n \in 1..Len(stack) : stack[n].isolate => n >= k

\* Where the pops of a PDI stop: the last isolate on the stack.
LastIsolate(stack) ==
    CHOOSE k \in 1..Len(stack) :
        /\ stack[k].isolate
        /\ \A n \in 1..Len(stack) : stack[n].isolate => n <= k

PoppedOnce(stack)   == Front(stack)
MatchedStack(stack) == SubSeq(stack, 1, LastIsolate(stack) - 1)

\* X6a: PDI.
PopIsolate ==
    /\ Current({"PDI"})
    /\ \/ /\ overflowIsolateCount > 0
          /\ overflowIsolateCount' = overflowIsolateCount - 1
          /\ UNCHANGED <<overflowEmbeddingCount, validIsolateCount,
                         directionalStatusStack, isolatePDIs>>
       \/ /\ overflowIsolateCount = 0 /\ validIsolateCount = 0
          /\ UNCHANGED <<counters, directionalStatusStack, isolatePDIs>>
       \/ /\ overflowIsolateCount = 0 /\ validIsolateCount # 0
          /\ overflowEmbeddingCount' = 0
          /\ directionalStatusStack' = MatchedStack(directionalStatusStack)
          /\ validIsolateCount' = validIsolateCount - 1
          /\ LET i == directionalStatusStack[LastIsolate(directionalStatusStack)].index
             IN  isolatePDIs' = [k \in DOMAIN isolatePDIs \cup {i} |->
                                    IF k = i THEN pos ELSE isolatePDIs[k]]
          /\ UNCHANGED overflowIsolateCount
    /\ LET entry == Peek(directionalStatusStack')
       IN  /\ embeddingLevels' = [embeddingLevels EXCEPT ![pos] = entry.level]
           /\ runeClasses' = [runeClasses EXCEPT ![pos] = Overridden(entry, @)]
    /\ UNCHANGED paragraph

\* X7: PDF.
PopEmbedding ==
    /\ Current({"PDF"})
    /\ \/ /\ overflowIsolateCount > 0
          /\ UNCHANGED <<overflowEmbeddingCount, directionalStatusStack>>
       \/ /\ overflowIsolateCount = 0 /\ overflowEmbeddingCount > 0
          /\ overflowEmbeddingCount' = overflowEmbeddingCount - 1
          /\ UNCHANGED directionalStatusStack
       \/ /\ NoOverflow
          /\ directionalStatusStack' =
                IF ~Peek(directionalStatusStack).isolate /\ Len(directionalStatusStack) >= 2
                THEN Front(directionalStatusStack) ELSE directionalStatusStack
          /\ UNCHANGED overflowEmbeddingCount
    /\ UNCHANGED <<paragraph, runeClasses, embeddingLevels, overflowIsolateCount,
                   validIsolateCount, isolatePDIs>>

\* BN is skipped; a separator has the level of the paragraph.
Skip ==
    /\ Current({"BN", "B"})
    /\ embeddingLevels' = [embeddingLevels EXCEPT ![pos] =
                              IF runeClasses[pos] = "B" THEN paragraphEmbeddingLevel ELSE @]
    /\ UNCHANGED <<paragraph, runeClasses, directionalStatusStack, counters, isolatePDIs>>

\* X6: any other rune.
Other ==
    /\ Current(Plain)
    /\ LET status == Peek(directionalStatusStack)
       IN  /\ embeddingLevels' = [embeddingLevels EXCEPT ![pos] = status.level]
           /\ runeClasses' = [runeClasses EXCEPT ![pos] = Overridden(status, @)]
    /\ UNCHANGED <<paragraph, directionalStatusStack, counters, isolatePDIs>>

\* X9: the runes that take no further part get level -1.
RemoveFormatting ==
    /\ pos = Len(text) + 1
    /\ pos' = pos + 1
    /\ embeddingLevels' = [i \in 1..Len(text) |->
                              IF runeClasses[i] \in Removed THEN -1 ELSE embeddingLevels[i]]
    /\ UNCHANGED <<paragraph, runeClasses, directionalStatusStack, counters, isolatePDIs>>

Next ==
    \/ PushEmbedding
    \/ PushIsolate
    \/ PopIsolate
    \/ PopEmbedding
    \/ Skip
    \/ Other
    \/ RemoveFormatting

Spec == Init /\ [][Next]_vars

Explicit == pos = Len(text) + 2

(***************************************************************************)
(* Properties.                                                             *)
(***************************************************************************)
TypeOK ==
    /\ text \in Texts
    /\ paragraphEmbeddingLevel \in {0, 1}
    /\ pos \in 1..(Len(text) + 2)
    /\ runeClasses \in [1..Len(text) -> Classes]
    /\ embeddingLevels \in [1..Len(text) -> -1..MaxDepth]
    /\ directionalStatusStack \in
          Seq([index : 0..Len(text), level : 0..MaxDepth, override : Override, isolate : BOOLEAN])
    /\ overflowIsolateCount \in Nat /\ overflowEmbeddingCount \in Nat /\ validIsolateCount \in Nat
    /\ DOMAIN isolatePDIs \subseteq 1..Len(text)

Isolates == {k \in 1..Len(directionalStatusStack) : directionalStatusStack[k].isolate}

\* The stack always has its first entry, its levels rise from entry to entry,
\* so that it never outgrows its array, and validIsolateCount is the number of
\* its entries that are isolates, as the comment at bidi.go:369 says: the pops
\* of a PDI that is not swallowed by an overflow end at an isolate.
StackDiscipline ==
    /\ Len(directionalStatusStack) \in 1..(MaxDepth + 1)
    /\ ~directionalStatusStack[1].isolate
    /\ \A k \in 2..Len(directionalStatusStack) :
          directionalStatusStack[k - 1].level < directionalStatusStack[k].level
    /\ validIsolateCount = Cardinality(Isolates)

\* Initiators only overflow when the level is at the limit, and as long as any
\* has, nothing is pushed or popped: the PDI or PDF that ends the overflow
\* finds the stack as it was (bidi.go:385-575).
OverflowMeansFull ==
    ~NoOverflow => Peek(directionalStatusStack).level >= MaxDepth - 1

\* Matched initiators and PDIs are in order and do not cross, for any text
\* (bidi.go:510-548).
WellNested ==
    \A i, j \in DOMAIN isolatePDIs :
        /\ i < isolatePDIs[i]
        /\ i < j => isolatePDIs[j] < isolatePDIs[i] \/ isolatePDIs[i] < j

\* BD9: the PDI that closes an initiator, by counting.
CountIn(S, from, to) == Cardinality({k \in from..to : Class(text[k]) \in S})

Closes(j, i) ==
    /\ i < j /\ Class(text[i]) \in Initiators /\ Class(text[j]) = "PDI"
    /\ CountIn(Initiators, i, j) = CountIn({"PDI"}, i, j)
    /\ \A k \in i..(j - 1) : CountIn(Initiators, i, k) > CountIn({"PDI"}, i, k)

\* When the explicit levels are done, an initiator is matched with the PDI
\* that closes it by BD9, whatever embeddings, overflows and stray PDFs lie
\* between them; each PDI is back at the level and the override of its
\* initiator, and only initiators near the depth limit go unmatched
\* (bidi.go:429-548).
IsolatesMatch ==
    Explicit =>
        /\ \A i \in DOMAIN isolatePDIs : Closes(isolatePDIs[i], i)
        /\ \A i, j \in DOMAIN text :
              Closes(j, i) =>
                  /\ embeddingLevels[i] = embeddingLevels[j]
                  /\ runeClasses[j] \in {"L", "R"} <=> runeClasses[i] \in {"L", "R"}
                  /\ embeddingLevels[i] + 2 <= MaxDepth => i \in DOMAIN isolatePDIs
=============================================================================

---------------------------- MODULE TileCommands ----------------------------
(***************************************************************************)
(* The commands of one wide tile of the sparse strip renderer: what they   *)
(* draw (internal/sparse/fine.go, blend.go) and how the renderer rewrites  *)
(* them before it runs them (internal/sparse/opt.go).                      *)
(*                                                                         *)
(* A pixel is what was drawn into it, not a number: a sequence of atoms,   *)
(* the lowest first, each a paint or the result of an operation that does  *)
(* not distribute over what lies below.  << >> is transparent, and an      *)
(* opaque paint hides everything below it, so that two ways of drawing     *)
(* the same picture give the same pixels.  An opacity or a coverage is the *)
(* number of times it halves the alpha: 0 is full.                         *)
(***************************************************************************)
EXTENDS Integers, Sequences, SequencesExt

CONSTANTS TileWidth,     \* columns of a wide tile
          Zero           \* a coverage of nothing, and anything above it

ASSUME TileAssumption == TileWidth \in Nat \ {0} /\ Zero \in Nat \ {0}

Width == 0 .. TileWidth - 1
Span(c) == c.x .. c.x + c.w - 1

-----------------------------------------------------------------------------
(* Pixels.  A paint is an encoded colour, "opaque" or not. *)

Transparent == << >>
Atom(op, of, on, by) == << [op |-> op, of |-> of, on |-> on, by |-> by] >>
PaintPixel(p) == Atom(p, << >>, << >>, 0)
IsOpaque(pixel) == pixel # << >> /\ pixel[1].op = "opaque"

Scaled(pixel, n) ==
  CASE pixel = << >> \/ n >= Zero -> << >>
    [] pixel # << >> /\ n = 0 -> pixel
    [] OTHER -> IF Len(pixel) = 1 /\ pixel[1].op = "scaled"
                THEN << [pixel[1] EXCEPT !.by = @ + n] >>
                ELSE Atom("scaled", pixel, << >>, n)

Over(dst, src) == IF IsOpaque(src) THEN src ELSE dst \o src

(* What compositing with full coverage leaves; "multiply" stands for the   *)
(* modes that mix colours and place the source over the destination.       *)
Composed(mode, dst, src) ==
  CASE mode = "normal" -> Over(dst, src)
    [] mode = "clear" -> << >>
    [] mode = "copy" -> src
    [] mode = "multiply" -> IF src = << >> THEN dst
                            ELSE IF dst = << >> THEN src
                            ELSE Atom("multiply", src, dst, 0)
    [] mode = "srcin" -> IF dst = << >> \/ src = << >> THEN << >>
                         ELSE IF IsOpaque(dst) THEN src
                         ELSE Atom("srcin", src, dst, 0)
    [] mode = "srcout" -> IF src = << >> \/ IsOpaque(dst) THEN << >>
                          ELSE IF dst = << >> THEN src
                          ELSE Atom("srcout", src, dst, 0)

(* blendComplexComplex: the result of compositing is placed over dst with  *)
(* the alpha of the clip.                                                  *)
Blended(mode, dst, src, alpha, opacity) ==
  IF mode = "normal" THEN Over(dst, Scaled(src, alpha + opacity))
  ELSE LET out == Composed(mode, dst, Scaled(src, opacity))
       IN  CASE alpha >= Zero \/ out = dst -> dst
             [] alpha < Zero /\ out # dst /\ dst = << >> -> Scaled(out, alpha)
             [] OTHER -> IF alpha = 0 THEN out ELSE Atom("mix", out, dst, alpha)

-----------------------------------------------------------------------------
(* Commands, with their arguments in place of the index of them. *)

Nop == [typ |-> "nop", x |-> 0, w |-> 0, paint |-> "none", alphas |-> << >>,
        mode |-> "normal", opacity |-> 0]
Command(typ, x, w) == [Nop EXCEPT !.typ = typ, !.x = x, !.w = w]

IsBlend(c) == c.typ \in {"blend", "alphaBlend"}
HasAlphas(c) == c.typ \in {"alphaFill", "alphaBlend"}
AlphaAt(c, x) == IF HasAlphas(c) THEN c.alphas[x - c.x + 1] ELSE 0

(* fine.runCmd: what one command does to the stack of layers. *)
RunCommand(layers, c) ==
  LET top == Last(layers)
      rest == Front(layers)
      Drawn == [x \in Width |->
                  IF x \notin Span(c) THEN top[x]
                  ELSE Over(top[x], Scaled(PaintPixel(c.paint), AlphaAt(c, x)))]
      Cleared == [x \in Width |->
                    IF x \notin Span(c) THEN top[x]
                    ELSE IF c.paint = "none" THEN << >> ELSE PaintPixel(c.paint)]
      Below == [x \in Width |->
                  IF x \notin Span(c) THEN Last(rest)[x]
                  ELSE Blended(c.mode, Last(rest)[x], top[x], AlphaAt(c, x), c.opacity)]
  IN  CASE c.typ \in {"fill", "alphaFill"} -> Append(rest, Drawn)
        [] c.typ = "clear" -> Append(rest, Cleared)
        [] c.typ = "push" -> Append(layers, [x \in Width |-> Transparent])
        [] c.typ = "pop" -> rest
        [] IsBlend(c) -> Append(Front(rest), Below) \o << top >>
        [] OTHER -> layers

Rendered(cmds) == FoldLeft(RunCommand, << [x \in Width |-> Transparent] >>, cmds)

-----------------------------------------------------------------------------
(* optimizeCommands.  "opt" is the state of one turn of its loop.          *)

RootLayer(cmds) ==
  [parent |-> 0, children |-> << >>, push |-> 0, footer |-> 0, pop |-> Len(cmds),
   alphaBlends |-> 0, blended |-> {}, visible |-> {}, maybe |-> {},
   mode |-> "normal", opacity |-> 0]

(* indexLayers; "visible" is blendedNonZeroAlpha, "maybe" is               *)
(* maybeNotTransparent.                                                    *)
IndexLayers(cmds) ==
  LET Blend(l, i, c) ==
        [l EXCEPT !.footer = IF @ = 0 THEN i ELSE @,
                  !.mode = IF l.footer = 0 THEN c.mode ELSE @,
                  !.opacity = IF l.footer = 0 THEN c.opacity ELSE @,
                  !.alphaBlends = IF c.typ = "alphaBlend" THEN @ + 1 ELSE @,
                  !.blended = @ \cup Span(c),
                  !.visible = @ \cup {x \in Span(c) : AlphaAt(c, x) < Zero}]
      Step(st, i) ==
        LET c == cmds[i]
            new == Len(st.layers) + 1
        IN  CASE IsBlend(c) -> [st EXCEPT !.layers[st.top] = Blend(@, i, c)]
              [] c.typ = "pop" -> [st EXCEPT !.layers[st.top].pop = i,
                                             !.top = st.layers[st.top].parent]
              [] c.typ = "push" ->
                   [layers |-> Append([st.layers EXCEPT ![st.top].children = Append(@, new)],
                                      [RootLayer(cmds) EXCEPT !.parent = st.top,
                                                              !.push = i, !.pop = 0]),
                    top |-> new]
              [] OTHER -> st
  IN  FoldLeftDomain(Step, [layers |-> << RootLayer(cmds) >>, top |-> 1], cmds).layers

Least(S) == CHOOSE x \in S : \A y \in S : x <= y
Greatest(S) == CHOOSE x \in S : \A y \in S : x >= y

Set(opt, i, c) == [opt EXCEPT !.cmds[i] = c, !.changed = TRUE]
Clear(opt, from, to) ==
  [opt EXCEPT !.cmds = [i \in DOMAIN @ |-> IF i \in from .. to THEN Nop ELSE @[i]]]
Shortened(c, x, w) ==
  [c EXCEPT !.x = x, !.w = w,
            !.alphas = IF HasAlphas(c) THEN SubSeq(@, x - c.x + 1, Len(@)) ELSE @]

(* The commands of an outermost layer are cut to the pixels it blends. *)
CutToBlended(opt, l) ==
  LET first == Least(l.blended)
      last == Greatest(l.blended)
      Cut(o, i) ==
        LET c == o.cmds[i]
        IN  IF c.typ \in {"nop", "push", "pop"} THEN o
            ELSE CASE c.x > last \/ c.x + c.w - 1 < first -> Set(o, i, Nop)
                   [] c.x < first /\ c.x + c.w - 1 >= first ->
                        Set(o, i, Shortened(c, first, c.w - (first - c.x)))
                   [] OTHER -> IF c.x + c.w - 1 > last
                               THEN Set(o, i, [c EXCEPT !.w = last - c.x + 1]) ELSE o
  IN  IF l.blended = {} THEN opt
      ELSE FoldLeft(Cut, opt, [k \in 1 .. l.footer - 1 - l.push |-> l.push + k])

(* Fills or clears that touch and have one paint become one. *)
RECURSIVE Merge(_, _, _, _)
Merge(opt, i, j, last) ==
  LET c == opt.cmds[i]
      d == opt.cmds[j]
      merged == [c EXCEPT !.w = @ + d.w,
                          !.alphas = IF HasAlphas(c) THEN SubSeq(@, 1, c.w) \o SubSeq(d.alphas, 1, d.w)
                                     ELSE @]
  IN  IF j > last \/ d.typ # c.typ \/ d.paint # c.paint \/ d.x # c.x + c.w THEN opt
      ELSE Merge(Set(Set(opt, i, merged), j, Nop), i, j + 1, last)

(* A SrcOver blend is cut to the pixels that may not be transparent. *)
CutBlend(opt, l, i) ==
  LET c == opt.cmds[i]
      seen == opt.layers[l].maybe \cap Span(c)
      x == Least(seen)
      w == Greatest(seen) - x + 1
  IN  IF opt.layers[l].mode \notin {"normal", "multiply"} THEN opt
      ELSE IF seen = {} THEN Set(opt, i, Nop)
      ELSE IF c.x = x /\ c.w = w THEN opt ELSE Set(opt, i, Shortened(c, x, w))

DrawClear(opt, l, i, last) ==
  LET merged == Merge(opt, i, i + 1, last)
      c == merged.cmds[i]
      before == opt.layers[l].push + 1 .. i - 1
      known == [merged EXCEPT !.layers[l].maybe = IF c.paint = "none" THEN @ \ Span(c)
                                                  ELSE @ \cup Span(c)]
  IN  IF c.w = TileWidth /\ \E j \in before : known.cmds[j] # Nop
      THEN [Clear(known, opt.layers[l].push + 1, i - 1) EXCEPT !.changed = TRUE]
      ELSE known

(* A layer that only clears is replaced with clears of what it blends. *)
ReplaceWithClears(opt, child) ==
  LET blends == child.footer .. child.pop - 1
      Cleared(c) == [Command("clear", c.x, c.w) EXCEPT !.paint = "none"]
      cleared == Clear(opt, child.push, child.footer - 1)
  IN  [cleared EXCEPT
         !.cmds = [i \in DOMAIN @ |-> IF i \in blends THEN Cleared(@[i])
                                      ELSE IF i = child.pop THEN Nop ELSE @[i]],
         !.changed = TRUE,
         !.failed = @ \/ \E i \in blends : ~IsBlend(opt.cmds[i])]

Delete(opt, child) == [Clear(opt, child.push, child.pop) EXCEPT !.changed = TRUE]

Unwrap(opt, child) ==
  [Clear(Clear(opt, child.push, child.push), child.footer, child.pop) EXCEPT !.changed = TRUE]

\* Mutant: the layer's own mode, not those of the layers in it.
OwnBackdrop(opt, child) == child.mode # "normal"

ChildNeedsBackdrop(opt, child) ==
  \E k \in Range(child.children) : opt.layers[k].mode # "normal"

MeetChild(opt, l, child) ==
  LET blends == child.footer .. child.pop - 1
      clearing == child.visible = {} /\ child.alphaBlends = 0
      onNothing == child.blended \cap opt.layers[l].maybe = {}
      asOver == [opt EXCEPT !.cmds = [i \in DOMAIN @ |->
                                        IF i \in blends THEN [@[i] EXCEPT !.mode = "normal"] ELSE @[i]],
                            !.failed = @ \/ \E i \in blends : ~IsBlend(opt.cmds[i])]
  IN  CASE child.mode = "clear" ->
             IF child.alphaBlends = 0 THEN ReplaceWithClears(opt, child) ELSE opt
        [] child.mode = "srcin" ->
             IF clearing THEN ReplaceWithClears(opt, child)
             ELSE IF onNothing THEN Delete(opt, child) ELSE opt
        [] child.mode = "srcout" ->
             IF clearing THEN ReplaceWithClears(opt, child)
             ELSE IF onNothing THEN asOver ELSE opt
        [] child.mode \in {"normal", "multiply"} ->
             IF child.visible = {} THEN Delete(opt, child)
             ELSE IF /\ child.mode = "normal" /\ child.opacity = 0 /\ child.alphaBlends = 0
                     /\ ~ChildNeedsBackdrop(opt, child)
                     /\ child.maybe \subseteq child.blended
                  THEN Unwrap(opt, child) ELSE opt
        [] OTHER -> opt

(* The commands of layer l from i on; n of its children have been met. *)
RECURSIVE WalkLayer(_, _, _, _)
WalkLayer(opt, l, i, n) ==
  LET layer == opt.layers[l]
      last == layer.pop
      c == opt.cmds[i]
      See(o) == [o EXCEPT !.layers[l].maybe = @ \cup Span(o.cmds[i])]
      child == opt.layers[layer.children[n + 1]]
      met == MeetChild(opt, l, child)
  IN  IF i > last THEN opt
      ELSE CASE c.typ = "alphaFill" ->
                  WalkLayer(See(Merge(opt, i, i + 1, Len(opt.cmds))), l, i + 1, n)
             [] c.typ = "fill" -> WalkLayer(See(Merge(opt, i, i + 1, last)), l, i + 1, n)
             [] c.typ = "clear" -> WalkLayer(DrawClear(opt, l, i, last), l, i + 1, n)
             [] IsBlend(c) -> WalkLayer(CutBlend(opt, l, i), l, i + 1, n)
             [] c.typ = "pop" ->
                  WalkLayer([opt EXCEPT !.layers[l].visible = @ \cap layer.maybe], l, i + 1, n)
             [] c.typ = "push" ->
                  WalkLayer([met EXCEPT !.layers[l].maybe = @ \cup child.visible],
                            l, child.pop + 1, n + 1)
             [] OTHER -> WalkLayer(opt, l, i + 1, n)

(* Layers are optimised inside out. *)
RECURSIVE OptimizeLayer(_, _)
OptimizeLayer(opt, l) ==
  LET inner == FoldLeft(OptimizeLayer, opt, opt.layers[l].children)
      layer == inner.layers[l]
      emptied == IF layer.mode = "clear" /\ layer.footer # layer.push + 1
                 THEN [Clear(inner, layer.push + 1, layer.footer - 1) EXCEPT !.changed = TRUE]
                 ELSE inner
  IN  WalkLayer(emptied, l, layer.push + 1, 0)

Turn(cmds) ==
  LET layers == IndexLayers(cmds)
      start == [cmds |-> cmds, layers |-> layers, changed |-> FALSE, failed |-> FALSE]
      Cut(o, k) == CutToBlended(o, layers[k])
  IN  OptimizeLayer(FoldLeft(Cut, start, layers[1].children), 1)

RECURSIVE OptimizeCommands(_)
OptimizeCommands(cmds) ==
  LET turn == Turn(cmds)
  IN  IF cmds = << >> \/ turn.failed \/ ~turn.changed
      THEN [cmds |-> turn.cmds, failed |-> turn.failed]
      ELSE OptimizeCommands(SelectSeq(turn.cmds, LAMBDA c : c # Nop))

=============================================================================

---------------------------- MODULE LayerRenderer ----------------------------
(***************************************************************************)
(* A frame from its recording to its pixels: gfx.Recorder,                 *)
(* sparse.PlayRecording with optimizeRecording, and sparse.Renderer, which *)
(* turns drawing operations into the commands of its wide tiles            *)
(* (internal/sparse/render.go, wide_tile.go, path.go).  TileCommands       *)
(* optimises the commands and runs them.                                   *)
(*                                                                         *)
(* The canvas is one row of wide tiles.  A path is what its strips say of  *)
(* the row: the columns that a strip covers, each with its coverage, and   *)
(* the columns in gaps between strips that are filled.  Transforms, fill   *)
(* rules and the compilation of paths are left out.                        *)
(***************************************************************************)
EXTENDS TileCommands, FiniteSets

CONSTANTS NumTiles,      \* wide tiles of the row
          Fills,         \* the paths that are filled, each with its paint
          Clips,         \* the paths that are clipped with
          Layers,        \* the layers that are pushed
          GlyphRecording,\* a recording that is kept and played again
          MaxDraws, MaxLayers, MaxClips, \* bound a recording's commands
          MaxCommands,   \* and all of them
          Avoided        \* what recordings do not do, see Careful and MayDraw

ASSUME RowAssumption == NumTiles \in Nat \ {0} /\ MaxCommands \in Nat

Tiles == 0 .. NumTiles - 1
Columns == 0 .. NumTiles * TileWidth - 1
ColumnsOf(tile) == tile * TileWidth .. (tile + 1) * TileWidth - 1
TileOf(column) == column \div TileWidth
NoClip == [strip |-> << >>, fill |-> {-1}]

VARIABLES recording, \* *recorder.commands
          root,      \* layerStack[0], which Reset leaves as it is
          glyph      \* the kept recording, as playing it has left it

vars == << recording, root, glyph >>

-----------------------------------------------------------------------------
(* Paths. *)

Covered(p) == DOMAIN p.strip \cup p.fill
Coverage(p, column) == IF column \in p.fill THEN 0
                       ELSE IF column \in DOMAIN p.strip THEN p.strip[column] ELSE Zero

(* Path.Intersect: a gap where both have one, a strip elsewhere, with the  *)
(* product of the coverages.                                               *)
Intersect(p, o) ==
  LET fill == p.fill \cap o.fill
  IN  [fill |-> fill,
       strip |-> [column \in (Covered(p) \cap Covered(o)) \ fill |->
                    Coverage(p, column) + Coverage(o, column)]]

(* stripsBoundingBox: the tiles from the first strip to the last. *)
BoundingBox(p) ==
  IF Covered(p) = {} THEN << 0, -1 >>
  ELSE << TileOf(Least(Covered(p))), TileOf(Greatest(Covered(p))) >>
Meet(a, b) == << IF a[1] > b[1] THEN a[1] ELSE b[1], IF a[2] < b[2] THEN a[2] ELSE b[2] >>

(* The stretches of a path within a tile, from left to right: strips and   *)
(* gaps, each cut at the edges of the tile.                                *)
Stretches(p, tile) ==
  LET Within(S) == {s \in ColumnsOf(tile) \X ColumnsOf(tile) :
                      /\ s[1] .. s[2] # {} /\ s[1] .. s[2] \subseteq S
                      /\ s[1] - 1 \notin S \cap ColumnsOf(tile)
                      /\ s[2] + 1 \notin S \cap ColumnsOf(tile)}
      Stretch(s) == [x |-> s[1] % TileWidth, w |-> s[2] - s[1] + 1,
                     alphas |-> [k \in 1 .. s[2] - s[1] + 1 |-> Coverage(p, s[1] + k - 1)]]
  IN  SetToSortSeq({Stretch(s) : s \in Within(DOMAIN p.strip) \cup Within(p.fill)},
                   LAMBDA a, b : a.x < b.x)
Solid(s) == \A k \in DOMAIN s.alphas : s.alphas[k] = 0

-----------------------------------------------------------------------------
(* wideTile: a tile's commands, the zero clips it is under, its layers. *)

NewTile == [cmds |-> << >>, zeroClips |-> 0, numLayers |-> 0, failed |-> FALSE]
LastIs(tile, typ) == tile.cmds # << >> /\ Last(tile.cmds).typ = typ
Emit(tile, c) == IF tile.zeroClips > 0 THEN tile ELSE [tile EXCEPT !.cmds = Append(@, c)]

TileFill(tile, s, paint) ==
  LET typ == IF ~Solid(s) THEN "alphaFill" ELSE IF paint = "opaque" THEN "clear" ELSE "fill"
  IN  Emit(tile, [Command(typ, s.x, s.w) EXCEPT !.paint = paint, !.alphas = s.alphas])

TilePushLayer(tile) ==
  IF tile.zeroClips > 0 THEN tile
  ELSE [Emit(tile, Command("push", 0, 0)) EXCEPT !.numLayers = @ + 1]

TilePopLayer(tile) ==
  IF tile.zeroClips > 0 THEN tile
  ELSE [tile EXCEPT !.cmds = IF LastIs(tile, "push") THEN Front(@)
                             ELSE Append(@, Command("pop", 0, 0)),
                    !.numLayers = @ - 1]

AffectsDest(mode) == mode \in {"copy", "clear", "srcin", "srcout"}

TileBlend(tile, s, layer) ==
  LET typ == IF Solid(s) THEN "blend" ELSE "alphaBlend"
  IN  IF tile.zeroClips > 0 \/ (LastIs(tile, "push") /\ ~AffectsDest(layer.mode)) THEN tile
      ELSE IF typ = "blend" /\ tile.cmds = << >> THEN [tile EXCEPT !.failed = TRUE]
      ELSE IF /\ typ = "blend" /\ LastIs(tile, "blend")
              /\ s.x = Last(tile.cmds).x + Last(tile.cmds).w THEN tile
      ELSE Emit(tile, [Command(typ, s.x, s.w) EXCEPT !.mode = layer.mode,
                                                     !.opacity = layer.opacity,
                                                     !.alphas = s.alphas])

-----------------------------------------------------------------------------
(* Renderer.  State is what its methods change. *)

RootLayerOf(flags) ==
  [bbox |-> << 0, NumTiles - 1 >>, path |-> NoClip, mode |-> "normal", opacity |-> 0,
   nonempty |-> flags.nonempty, blackholed |-> flags.blackholed,
   noclip |-> FALSE, lazy |-> FALSE, pushedTo |-> {}]

(* Reset. *)
Fresh(flags, kept) ==
  [layers |-> << RootLayerOf(flags) >>, numLayers |-> 0, clips |-> << >>,
   tiles |-> [t \in Tiles |-> NewTile], kept |-> kept, failed |-> FALSE]

Top(r) == Last(r.layers)
InBox(r) == Top(r).bbox[1] .. Top(r).bbox[2]

(* ensureLayerForTile: the lazy layers that the tile does not have yet. *)
EnsureLayer(r, t) ==
  LET tile == r.tiles[t]
      missing == tile.numLayers + 2 .. Len(r.layers)
  IN  IF tile.zeroClips > 0 THEN r
      ELSE [r EXCEPT
              !.tiles[t] = FoldLeft(LAMBDA a, k : TilePushLayer(a), tile, SetToSeq(missing)),
              !.layers = [k \in DOMAIN @ |-> IF k \in missing
                                             THEN [@[k] EXCEPT !.pushedTo = @ \cup {t}] ELSE @[k]],
              !.failed = \/ @ \/ \E k \in missing : ~r.layers[k].lazy
                         \/ tile.numLayers + 1 > Len(r.layers)]

OnTile(r, t, tile) == [r EXCEPT !.tiles[t] = tile]
SortedTiles(S) == SetToSortSeq(S, LAMBDA a, b : a < b)

(* renderPath *)
Fill(r, path, paint) ==
  LET p == IF r.clips = << >> THEN path ELSE Intersect(Last(r.clips), path)
      drawn == [r EXCEPT !.layers[Len(r.layers)].nonempty = TRUE]
      DrawTile(q, t) ==
        FoldLeft(LAMBDA a, s : LET e == EnsureLayer(a, t)
                               IN  OnTile(e, t, TileFill(e.tiles[t], s, paint)),
                 q, Stretches(p, t))
  IN  IF Top(r).blackholed > 0 THEN r
      ELSE FoldLeft(DrawTile, drawn, SortedTiles(InBox(r)))

PushLayer(r, l) ==
  LET top == Top(r)
      depth == Len(r.layers)
      drawn == [r EXCEPT !.layers[depth].nonempty = TRUE]
      noclip == l.clip = NoClip
      bbox == IF noclip THEN top.bbox ELSE Meet(top.bbox, BoundingBox(l.clip))
      lazy == noclip /\ l.mode = "normal"
      layer == [bbox |-> bbox, path |-> l.clip, mode |-> l.mode, opacity |-> l.opacity,
                nonempty |-> FALSE, blackholed |-> 0, noclip |-> noclip, lazy |-> lazy,
                pushedTo |-> {}]
      PushOn(q, t) ==
        CASE lazy -> q
          [] noclip /\ ~lazy -> OnTile(q, t, TilePushLayer(q.tiles[t]))
          [] OTHER -> IF Covered(l.clip) \cap ColumnsOf(t) = {}
                      THEN [q EXCEPT !.tiles[t].zeroClips = @ + 1]
                      ELSE LET e == EnsureLayer(q, t)
                           IN  OnTile(e, t, TilePushLayer(e.tiles[t]))
      pushed == FoldLeft(PushOn, drawn, SortedTiles(bbox[1] .. bbox[2]))
  IN  IF top.blackholed > 0 \/ (l.mode = "srcin" /\ ~top.nonempty)
      THEN [r EXCEPT !.layers[depth].blackholed = @ + 1]
      ELSE [pushed EXCEPT !.layers = Append(@, layer), !.numLayers = @ + 1]

(* popLayer, and its two callers' guards: PopLayer. *)
PopLayer(r) ==
  LET layer == Top(r)
      whole == [x |-> 0, w |-> TileWidth, alphas |-> [k \in 1 .. TileWidth |-> 0]]
      popped == [r EXCEPT !.layers = Front(@), !.numLayers = @ - 1]
      BlendAll(q, t) == OnTile(q, t, TilePopLayer(TileBlend(q.tiles[t], whole, layer)))
      BlendPath(q, t) ==
        IF Covered(layer.path) \cap ColumnsOf(t) = {}
        THEN [q EXCEPT !.tiles[t].zeroClips = @ - 1,
                       !.failed = @ \/ q.tiles[t].zeroClips = 0]
        ELSE OnTile(q, t, TilePopLayer(FoldLeft(LAMBDA tile, s : TileBlend(tile, s, layer),
                                                q.tiles[t], Stretches(layer.path, t))))
  IN  IF Len(r.layers) = 1 \/ r.numLayers = 0 THEN r
      ELSE IF layer.blackholed > 0
      THEN [r EXCEPT !.layers[Len(r.layers)].blackholed = @ - 1]
      ELSE IF layer.noclip
      THEN FoldLeft(BlendAll, popped,
                    SortedTiles(IF layer.lazy THEN layer.pushedTo ELSE InBox(r)))
      ELSE FoldLeft(BlendPath, popped, SortedTiles(InBox(r)))

PushClip(r, path) ==
  [r EXCEPT !.clips = Append(@, IF r.clips = << >> THEN path ELSE Intersect(Last(r.clips), path))]
PopClip(r) == IF r.clips = << >> THEN r ELSE [r EXCEPT !.clips = Front(@)]

-----------------------------------------------------------------------------
(* Recordings. *)

Nil == [op |-> "nil"]
PopCommand == [op |-> "popLayer"]

PopOf(cmds, i) ==
  LET Depth(j) == Cardinality({k \in i .. j : cmds[k].op = "pushLayer"})
                - Cardinality({k \in i .. j : cmds[k].op = "popLayer"})
  IN  Least({j \in i .. Len(cmds) : Depth(j) = 0})

IsPush(cmds, i) == cmds[i].op = "pushLayer"

(* optimizeRecording, which changes the recording it is given. *)
OptimizeRecording(cmds) ==
  LET Plain(i) == /\ IsPush(cmds, i)
                  /\ cmds[i].layer = [mode |-> "normal", opacity |-> 0, clip |-> NoClip]
      ChildOf(i, k) == /\ IsPush(cmds, k) /\ k \in i + 1 .. PopOf(cmds, i)
                       /\ \A j \in i + 1 .. k - 1 :
                            IsPush(cmds, j) => PopOf(cmds, j) < k
      elided == {i \in DOMAIN cmds :
                   Plain(i) /\ \A k \in DOMAIN cmds :
                                 ChildOf(i, k) => cmds[k].layer.mode = "normal"}
  IN  [i \in DOMAIN cmds |-> IF i \in elided \/ (\E e \in elided : PopOf(cmds, e) = i)
                             THEN Nil ELSE cmds[i]]

(* PlayRecording.  What it plays is optimised in place, so that a kept      *)
(* recording is played again as optimizeRecording left it.                 *)
RECURSIVE RunRecorded(_, _)
RunRecorded(r, c) ==
  LET kept == OptimizeRecording(r.kept)
      replayed == FoldLeft(RunRecorded, r, kept)
  IN  CASE c.op = "fill" -> Fill(r, c.path, c.paint)
        [] c.op = "pushLayer" -> PushLayer(r, c.layer)
        [] c.op = "popLayer" -> PopLayer(r)
        [] c.op = "pushClip" -> PushClip(r, c.path)
        [] c.op = "popClip" -> PopClip(r)
        [] c.op = "play" -> IF Nil \in Range(r.kept) THEN [r EXCEPT !.failed = TRUE]
                            ELSE [replayed EXCEPT !.kept = kept]
        [] OTHER -> r

PlayRecording(cmds, r) == FoldLeft(RunRecorded, r, OptimizeRecording(cmds))

(* Renderer.finish: open layers are popped.                                *)
RECURSIVE Finish(_)
Finish(r) == IF r.numLayers > 0 THEN Finish(PopLayer(r)) ELSE r

-----------------------------------------------------------------------------
(* What a recording means: the picture that its commands describe.         *)

Blank == [column \in Columns |-> Transparent]

Draw(pic, c) ==
  LET top == Last(pic.layers)
      clip(column) == IF pic.clips = << >> THEN 0 ELSE Coverage(Last(pic.clips), column)
      layer == Last(pic.open)
      below == Last(Front(pic.layers))
      Within(column) == IF layer.clip = NoClip THEN 0 ELSE Coverage(layer.clip, column)
  IN  CASE c.op = "fill" ->
             [pic EXCEPT !.layers[Len(pic.layers)] =
                [column \in Columns |->
                   Over(top[column], Scaled(PaintPixel(c.paint),
                                            Coverage(c.path, column) + clip(column)))]]
        [] c.op = "pushLayer" -> [pic EXCEPT !.layers = Append(@, Blank),
                                             !.open = Append(@, c.layer)]
        [] c.op = "popLayer" ->
             [pic EXCEPT !.open = Front(@),
                         !.layers = Append(Front(Front(@)),
                            [column \in Columns |->
                               Blended(layer.mode, below[column], top[column],
                                       Within(column), layer.opacity)])]
        [] c.op = "pushClip" ->
             [pic EXCEPT !.clips = Append(@, IF @ = << >> THEN c.path ELSE Intersect(Last(@), c.path))]
        [] c.op = "popClip" -> IF pic.clips = << >> THEN pic ELSE [pic EXCEPT !.clips = Front(@)]
        [] OTHER -> pic

Inlined(cmds, kept) ==
  FlattenSeq([i \in DOMAIN cmds |-> IF cmds[i].op = "play" THEN kept ELSE << cmds[i] >>])

Open(cmds) == Cardinality({i \in DOMAIN cmds : cmds[i].op = "pushLayer"})
            - Cardinality({i \in DOMAIN cmds : cmds[i].op = "popLayer"})

(* recorder.Finish *)
Finished(cmds) == cmds \o [i \in 1 .. Open(cmds) |-> PopCommand]

Meant(cmds) ==
  FoldLeft(Draw, [layers |-> << Blank >>, open |-> << >>, clips |-> << >>],
           Inlined(Finished(cmds), GlyphRecording)).layers[1]

-----------------------------------------------------------------------------
(* The recorder, and the frame that is drawn of what it recorded. *)

Coarse == Finish(PlayRecording(Finished(recording), Fresh(root, glyph)))

Init == /\ recording = << >>
        /\ root = [nonempty |-> FALSE, blackholed |-> 0]
        /\ glyph = GlyphRecording

Record(c) == recording' = Append(recording, c) /\ UNCHANGED << root, glyph >>

Count(op) == Cardinality({i \in DOMAIN recording : recording[i].op = op})
Room == Len(recording) < MaxCommands
RoomForMore == Len(recording) + 1 < MaxCommands
RoomToDraw == Room /\ Count("fill") + Count("play") < MaxDraws

(* What the renderer is when it meets the next command, but for the layers *)
(* that will be elided.                                                    *)
SoFar == FoldLeft(RunRecorded, Fresh(root, glyph), recording)

(* Recordings that the code draws: an unclipped layer with a blend mode is *)
(* pushed when every tile has the layers below it, and a layer that keeps  *)
(* the source within the destination is not the first on the canvas.       *)
Careful ==
  LET r == SoFar
      pushed == \A t \in InBox(r) :
                  r.tiles[t].zeroClips > 0 \/ r.tiles[t].numLayers + 1 = Len(r.layers)
      drawn == Open(recording) > 0 \/ Coarse.layers[1].nonempty
  IN  {l \in Layers : /\ "unpushed" \in Avoided =>
                            (l.clip = NoClip /\ l.mode # "normal" => pushed)
                      /\ "emptyRoot" \in Avoided => (l.mode = "srcin" => drawn)}

(* A layer that may be unwrapped, and that another has cut something out   *)
(* of: in the code, the last thing that happens to it.                     *)
CutOpen ==
  LET Closes(i, j) == IsPush(recording, i) /\ PopOf(Finished(recording), i) = j
      closed == {i \in DOMAIN recording : \E j \in DOMAIN recording : Closes(i, j)}
  IN  \E i \in closed, k \in DOMAIN recording \ closed :
        /\ k < i /\ IsPush(recording, k)
        /\ recording[k].layer.mode = "normal" /\ recording[k].layer.opacity = 0
        /\ recording[i].layer.mode \in {"srcin", "srcout", "clear"}
MayDraw == "cutout" \in Avoided => ~CutOpen

RecordFill ==
  /\ RoomToDraw /\ MayDraw
  /\ \E f \in Fills : Record([op |-> "fill", path |-> f.path, paint |-> f.paint])
RecordPlay == RoomToDraw /\ MayDraw /\ Record([op |-> "play"])
RecordPushLayer ==
  /\ Room /\ Count("pushLayer") < MaxLayers /\ MayDraw
  /\ \E l \in Careful : Record([op |-> "pushLayer", layer |-> l])
RecordPopLayer == RoomForMore /\ Open(recording) > 0 /\ Record(PopCommand)
RecordPushClip ==
  /\ RoomForMore /\ Count("pushClip") < MaxClips
  /\ \E p \in Clips : Record([op |-> "pushClip", path |-> p])
RecordPopClip ==
  RoomForMore /\ Count("popClip") < Count("pushClip") /\ Record([op |-> "popClip"])

(* A frame: the renderer is reset, plays the recording and renders it; the *)
(* next frame is recorded anew.                                            *)
DrawFrame ==
  /\ recording # << >>
  /\ \E drawn \in {Coarse} :
       /\ root' = [nonempty |-> drawn.layers[1].nonempty,
                   blackholed |-> drawn.layers[1].blackholed]
       /\ glyph' = drawn.kept
       /\ recording' = << >>

Next == \/ RecordFill \/ RecordPushLayer \/ RecordPopLayer
        \/ RecordPushClip \/ RecordPopClip \/ RecordPlay
        \/ DrawFrame

Spec == Init /\ [][Next]_vars

-----------------------------------------------------------------------------
(* A frame shows the picture that its recording describes, pixel for       *)
(* pixel, and nothing panics: whichever layers are elided, pushed to a     *)
(* tile late or never, clipped away or unwrapped, and whichever commands   *)
(* are cut, merged, replaced or dropped.                                   *)
FrameShowsPicture ==
  LET coarse == Coarse
      meant == Meant(recording)
  IN  /\ ~coarse.failed
      /\ \A t \in Tiles :
           LET fine == OptimizeCommands(coarse.tiles[t].cmds)
               pixels == Last(Rendered(fine.cmds))
           IN  /\ ~coarse.tiles[t].failed /\ ~fine.failed
               /\ \A x \in Width : pixels[x] = meant[t * TileWidth + x]

=============================================================================

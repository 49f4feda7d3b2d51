# Gutter: models, checks and proofs

Gutter is a GUI framework in Go: a widget library in the style of Flutter
(`widget`), a render tree with layout and painting (`render`), animations
(`animation`), a software renderer for vector graphics (`internal/sparse`), and
a Wayland client that runs the event loop (`wsi`). This directory holds TLA+
modules of the parts of it that have state and order, the TLC configurations
that check them on small instances, and TLAPS proofs of what matters most for
every instance.

Run a check with `tlc -config X.cfg M` (the table under *Runs* says which module
goes with which configuration) and a proof with `tlapm M_proofs.tla`.
`PROJECT.json` lists, for every definition, the source lines it stands for.

## 1. The system

### Components, their state and their operations

| component | state | operations |
|---|---|---|
| `wsi.System` (`wsi/wsi.go`) | the set of windows that asked for a frame, a token channel, a channel of user events; in `Run`: the poll set, the shutdown flags; in libwayland: requests not yet flushed, events not yet dispatched | `Run`, `poll` (a goroutine), `RequestFrame`, `EmitEvent`, the handlers of frame, sync and configure events |
| `wsi.WaylandWindow` (`wsi/wsi.go`) | size, scale, `frameScheduled`, the buffers and which are busy | `SetSize`, `NextBuffer`, `Present`, `redraw`, the release handler |
| `render.Renderer`, `ObjectHandle` (`render/pipeline.go`, `render/render.go`) | the render tree with the flags `needsLayout`, `needsPaint`, the recorded relayout boundaries, the list of nodes to lay out; the frame callbacks, double buffered with a generation | `MarkNeedsLayout`, `MarkNeedsPaint`, `InsertChild`, `RemoveChild`, `MoveChild`, `Attach`, `Detach`, `Layout`, `FlushLayout`, `FlushPaint`; `ScheduleFrameCallback`, `CancelFrameCallback`, `RunFrameCallbacks` |
| `animation.PlainTicker` (`animation/ticker.go`) | active, muted, start time, the identifier of its frame callback | `Start`, `Stop`, `SetMuted`, `tick` |
| `animation.Controller` (`animation/controller.go`) | value, status, last status told, direction, simulation, ticker, listeners; `CurvedAnimation`: the direction of its curve | `Forward`, `Reverse`, `ToggleDirection`, `AnimateTo`, `SetValue`, `Repeat`, `Stop`, `Dispose`, `tick` |
| `widget.BuildOwner` and the elements (`widget/base.go`, `widget/binding.go`) | the element tree with depths and lifecycles, the dirty list with its flags, the inactive elements, the global keys | `MarkNeedsBuild`, `scheduleBuildFor`, `BuildScope`, `updateChild`, `inflateWidget`, `retakeInactiveElement`, `deactivateChild`, `finalizeTree` |
| `sparse.ConcurrentRenderer` (`internal/sparse/concurrency.go`) | a channel of tasks, a channel per path, a `done` channel | `Fill`, `Stroke`, `PushClip`, `PushLayer`, `Pop…`, `Reset`, `Stop`, `RenderToPixmap`, a worker goroutine, a goroutine per path |
| an element and its render object (`widget/base.go`, `render/render.go`) | the list of child elements with their slots, the render object's list of children | `updateChildren`, `updateChild`; `PerformInsertChild`, `PerformMoveChild` |
| `gfx.Recorder`, `gfx.Recording` (`gfx/record.go`) | a list of commands, the number of open layers; recordings of glyphs are kept between frames | `Fill`, `PushLayer`, `PopLayer`, `PushClip`, `PopClip`, `PlayRecording`, `Finish` |
| `sparse.Renderer`, wide tiles (`internal/sparse/render.go`, `wide_tile.go`, `opt.go`, `fine.go`) | stacks of layers and clips; per tile: commands, open layers, zero clips | `PlayRecording`, `Fill`, `PushLayer`, `PopLayer`, `PushClip`, `PopClip`, `Reset`, `Render` |
| `bidi.Instance` (`text/bidi`) | during `Process`: a stack of directional statuses, two overflow counters, the classes and levels of the runes | `Process`, `Runs`, `ReorderRuns`, `Order` |
| `linebreak.Instance` (`text/linebreak`) | during `Process`: verdicts on the gaps, the rule that gave each | `Process` |
| `text.ParagraphBuilder`, `text.Paragraph` (`text/text.go`, `split.go`) | runs with their styles, a stack of styles; lines | `PushStyle`, `Pop`, `AddText`, `Build`, `Layout`, `Paint` |
| fonts (`opentype`, `fontdb`, `internal/harfbuzz`), `lottie`, `internal/language` | none between calls | conversions |

`PROJECT.json` lists every part, also the ones that are not modelled, with the
reason.

### How they interact

`application.WindowEvent` runs on the goroutine of `System.Run`. A
`RedrawRequested` event (made by the handler of a frame callback) runs
`Binding.DrawFrame`: frame callbacks, then `BuildScope`, then layout and
painting into a recording, then `finalizeTree`; the recording is played on a
sparse renderer into a buffer of the window, which is presented. Everything that
changes asks for the next frame through one function, `WaylandWindow.RequestFrame`:
the build owner when an element is marked (`OnBuildScheduled`), the renderer when
something needs layout or paint or a callback is registered
(`OnNeedVisualUpdate`). `RequestFrame` may be called from any goroutine.
Concurrency is in three places: the loop with its poller and the goroutines that
request frames or emit events; the concurrent renderer; and the compositor, which
is another process that reads and writes the socket and the buffers.

### What is hard, and what makes each part correct

* **Concurrent renderer.** Paths are compiled by goroutines that finish in any
  order; operations must reach the sequential renderer in call order, a caller
  may not outrun the compilers, and `Stop` must mean that all of it has happened.
* **Tickers.** A callback may operate on any ticker, its own included, while the
  list of callbacks is being run. Each ticking ticker must have exactly one
  callback, whose identifier is valid, and tick once a frame for as long as it runs.
* **Build owner.** The list of dirty elements is sorted and grows while it is
  being worked through, and elements move in the tree. Every dirty element must be
  rebuilt before layout, once, after its dirty ancestors.
* **Layout pipeline.** A request for layout climbs to a recorded boundary; what
  was recorded may be out of date. What a frame shows must have been laid out with
  what was last configured.
* **Event loop.** A token and a set under a lock announce requests; a rendezvous
  hands the descriptor back and forth; writes stall; a shutdown races events,
  errors and a timeout. No request may be lost and `Run` must return.
* **Buffers.** The compositor holds buffers for a time it chooses. The window
  must never draw into, or unmap, one that is held, also across resizes.
* **Animation controller.** Status listeners may call the controller in the middle
  of its methods, the one that called them included. Between calls every listener
  must know the status, and an animation that has come to its end must be over.
* **Child lists.** Two lists are matched from the top, from the bottom and by key,
  with render objects inserted and moved on the way. State must follow keys.
* **Layers of the sparse renderer.** A layer is pushed to a tile late, or never;
  tiles are clipped away while layers come and go above them; the commands of a
  tile are then cut, merged and unwrapped on what is known of their pixels. None of
  it may change a pixel.
* **Text.** The rules of UAX #9 and UAX #14 are stated rune by rune and computed in
  passes that share stacks, bitmaps and packed verdicts; a paragraph's runs are cut
  by level, script and line, and must keep their runes, styles and order.

The hazards are listed in `PROJECT.json`, each at its line, with the properties
that would notice it going wrong or the reason none does yet.

## 2. The modules

| module | models | role |
|---|---|---|
| `ConcurrentRenderer` | `internal/sparse/concurrency.go` | detailed specification |
| `DrawQueue` | what a renderer promises: operations drawn in order, then finished | abstract specification, implemented by `ConcurrentRenderer` |
| `ConcurrentRendererInv`, `MCConcurrentRenderer` | | inductive invariant; instance |
| `FrameCallbacks` | `PlainTicker` on the renderer's frame callbacks (`animation/ticker.go`, `render/pipeline.go:32-74`, `mem/mem.go`) | |
| `BuildOwner`, `BuildOwner_proofs`, `MCBuildOwner` | the element tree and `BuildScope` (`widget/base.go`, `widget/binding.go`) | |
| `LayoutPipeline` | layout and paint requests, relayout boundaries, frames (`render/render.go`, `render/pipeline.go`) | |
| `Renderer_proofs` | | proofs about `ConcurrentRenderer` and `LayoutPipeline` |
| `EventLoop` | `System.Run`, its poller, requests, the compositor (`wsi/wsi.go`) | |
| `WindowBuffers` | the buffers of a window (`wsi/wsi.go`) | |
| `Wsi_proofs` | | proofs about the two |
| `Controller` | the animation controller, its simulations, status listeners, `CurvedAnimation` (`animation`) | |
| `Animation_proofs` | | proofs about `FrameCallbacks` and `Controller` |
| `ChildList`, `ChildList_proofs`, `MCChildList` | `updateChildren`, `updateChild`, `ManyChildren` (`widget/base.go`, `render/render.go`) | |
| `BidiExplicit` | rules X1 to X8 of `text/bidi/bidi.go` | first half of `Process` |
| `BidiRuns`, `BidiRuns_proofs` | `Runs` and `ReorderRuns` | helpers of `Bidi` and `Paragraph`; lemmas for the proofs of both |
| `Bidi` | the passes after X8 | second half of `Process`, on `BidiExplicit` |
| `BidiRules`, `Bidi_proofs`, `MCBidi` | the rules rune by rune | reference definitions and properties; proofs; instance |
| `LineBreak`, `LineBreakRules` | `text/linebreak/linebreak.go`; the rules gap by gap | detailed; reference definition |
| `Paragraph`, `Paragraph_proofs`, `MCParagraph` | `text/text.go`, `text/split.go`, on `LineBreak` and `BidiRuns` | composition; proofs; instance |
| `TileCommands` | the commands of a wide tile, run and optimised (`opt.go`, `fine.go`, `blend.go`) | operators |
| `LayerRenderer`, `MCLayerRenderer` | `gfx/record.go`, `render.go`, `wide_tile.go`, `path.go`, on `TileCommands` | composition; instance |

### ConcurrentRenderer

`pc` and `call` say where the caller is within an operation, `tasks` is the
buffered channel, `compiling` the goroutines that have not sent their path,
`ready` the paths sent, `worker` and `cur` where the worker is. `canvas` is what
was applied to the sequential renderer since the last `Reset`, `output` what was
rendered. `Send` blocks when the channel is full; `Go` starts the path's
goroutine after the send (`concurrency.go:92-95`); `Receive`, `TakePath`, `Apply`
and `Exit` are the worker's loop; `Stop` closes the channel and `Stopped` waits
for `done`. `PushLayer` panics in the code and does so in the model; so does a
send on the closed channel. `Reset` goes to the sequential renderer from the
caller, without synchronisation: the model takes it and `Apply` as atomic, which
the code does not guarantee (a hazard without a property).

`DrawQueue` is a queue of operations with one consumer. The refinement mapping
puts the task the worker holds, followed by the channel, in the abstract queue:
how far a path has been compiled disappears.

### FrameCallbacks

`front` and `gen` are `nextFrameCallbacks`, with tickers in place of the
closures and `None` where one was cancelled; `due` is what `RunFrameCallbacks` has
still to call of the list it swapped out. A tick is split at the call of `OnTick`:
`Tick` does what precedes it, then the program may take any of its actions on any
ticker (`phase = "tick"`), and `EndTick` does what follows. Generations and the
millisecond clock wrap. `CancelDue` says whether callbacks may stop or mute a
ticker that is still due in the frame being run; the code fails when they do.

### BuildOwner

`dirty`, `listed`, `list`, `resort` and `scheduled` are the flags and the list of
the source; `stack` holds the `performRebuild` calls in progress, each with the
children it has still to decide about. What a build returns for a child is
nondeterministic: the same widget or another (`Update`), none (`Deactivate`), a
new one (`Mount`), one with a global key that was elsewhere (`Retake`, which takes
it from its old parent when it is still active). `Advance` is the end of the body
of `BuildScope`'s loop, with the re-sorting and the walk back of the index;
`EndScope` and `FinalizeTree` end the frame. An element that is unmounted gives
its name back, so mounts do not run out. `MaxMoves` bounds how many *listed*
elements are retaken in a frame. The sort of the source is not stable, so `Sortings`
are all the orders in which depths rise and, at one depth, the clean come first.
`Trees` are the parent functions that `RunApp` may have built; they have no cycle
(`WellFounded`) and nothing hangs outside of the root's tree.

### LayoutPipeline

`h[o]` is the `ObjectHandle` of a render object. `laid` stands for the size and
offsets that `PerformLayout` computes: it records the configuration they were
computed from, so "stale" is `laid # config` or constraints other than those the
parent hands out now. Constraints are reduced to tight or not and a value that
changes with the window. The handlers are operators on the state taken as one
value, since they call each other: `MarkNeedsLayout`, `MarkNeedsPaint`, `Attach`,
`Layout`, `FlushLayout`; an action is one call by the program, or one frame. A
panic of the code (a failed assertion, a nil renderer, the explicit panic of
`MarkNeedsLayout`) sets `failed` and ends the behaviour. The tree is built and
taken apart by `InsertChild` and `RemoveChild`; note that at this commit the
widget library never reaches `RemoveChild` (it looks for a method under another
name, `base.go:375-383` and `base.go:769`), so what the runs say of removal is
about the exported functions of `render`. `Hiders` are the objects that may paint no
child: `Opacity` and `AnimatedOpacity` at 0 and a `FittedBox` without a size
(`objects.go:328-330`, `397-399`, `563`). Which of them that have children do is chosen anew whenever a
frame paints them, since opacities and sizes are read then; `hidden`, a history variable, are
those that did not. What is below one keeps its mark, and no frame is requested for it:
`PaintIsRequested` is about the objects that can be seen, and says that this mark does no
harm once they can be, as they are moved away or the object above them is painted
again. Attachers are left out, and with them the `MarkNeedsPaint` that `AnimatedOpacity`
adds when it is attached. Calls that go down the tree are recursive functions of how deep they may nest,
which the number of objects bounds (`Attached`, `Performed`), and loops functions of
how many turns are done (`ForEach`). `Detached` (FALSE in every run and theorem) lets
calls be made on objects outside the tree. `returned` is a history variable: an
object was inserted that was not new (`IsNew`), that is, with a boundary, a mark, a
layout or children left from its time in the tree.

### EventLoop

`pc` is where `Run` is: at its `select`, or in the handling of a poll result
(`read`, `dispatch`, `flushConfigure`, `flush`), or serving requested frames
(`frames`, `flushFrames`), or returned. The poller is in `poll`, holding a
`result`, or waiting for the trigger (`wait`). A request travels from `out`
(libwayland's buffer) through `sent` to the compositor, and its answer through
`in` to `queue`; both are named by the window, or `Sync`. `Flush` may write only a
part when `Stalls`, and arms POLLOUT. `Receive`, `FrameDone`, `Resize`, `Close` are
the compositor, `RequestFrame`, `EmitEvent`, `Cancel` any goroutine. The handler of
a frame callback ends in `RedrawRequested`; what the application does with it is
the subject of the other modules.

### WindowBuffers

`held` is what the compositor may read and `released` the release events on their
way; `busy` is the flag in the code. `Kept` is what `NextBuffer` keeps of the old
buffers when the size has changed. Buffers keep no order.

### Controller

A call is a stack of steps, `todo`, because a status listener may call the
controller from within it: `checkStatusChanged` compares and stores the status and
then tells two listeners, the `CurvedAnimation`'s and the program's, in either
order (they are values of a Go map), and what is left of the interrupted method
goes on afterwards with what it reads then. Values and times are integers, so the
simulations are exact. The program calls every method; its listener does so too,
on the statuses in `ActOn`. The ticker is seen through its interface;
`FrameCallbacks` has its inside.

### ChildList

`UpdateChildren` is one atomic handler: the scans from the top and from the bottom,
the matching by key of what is between, and for each child `updateChild`, which
keeps and moves, or inflates and inserts, its element. `rendered` is the list of
`ManyChildren`, changed by `PerformInsertChild` and `PerformMoveChild` after the
render object of the slot before. `RebuildChild` is a child that is rebuilt into
one of another type without its parent. A child that leaves keeps its place among
the render objects: that is what the code does (see below).

### BidiExplicit, BidiRuns, Bidi, BidiRules

`BidiExplicit` steps through the paragraph a rune at a time, with the stack of
directional statuses, its two counters and the matching of isolates; the last step
removes formatting characters (X9). `Closes` is BD9, the PDI that closes an initiator, by
counting; `IsolatesMatch` compares the matching with it. `Bidi` takes what it leaves and has one
operator per pass (isolating run sequences, W1 to W7, N0 with the bit sets of
brackets, N1 and N2, I1 and I2), then `Runs` and `ReorderRuns` of `BidiRuns`.
`BidiRules` states each rule for a rune by itself, as UAX #9 does; `LevelsFollowRules`
compares the two, and `VisualOrder` compares the order of runs with rule L2 applied to
runes. Lines are the stretches of the paragraph; all are checked.

### LineBreak, LineBreakRules, Paragraph

`LineBreak` steps rune by rune through the rules, each of which proposes verdicts for
gaps around it, the first proposal staying; then it reads the verdicts out of words.
`LineBreakRules` gives each gap the verdict of the first rule of UAX #14 that matches.
`Paragraph` is the builder and the layout on top: `Split` cuts runs by level and by
script, `RunsForInterval` by line, `NextLine` is one turn of the loop of `Layout`, and
`Glyphs` is the order in which `Paint` draws. Levels are any that `Bidi` can give to a
text of the classes at hand, and a glyph stands for one to three runes, also at the end of
the text. A loop of `Layout` ends in one of three ways. It is done (`EndLayout`). It
panics, `UnsafeBreak`: HarfBuzz may flag any glyph after a break as unsafe to break at
(`unsafe`), and `Layout` looks at every break that is left and has no answer to one of
those (`text.go:635`, `646-648`), even if an earlier one would do. Or it never ends:
where no break is left up to which the line fits (`LineEnd` is 0), the line it adds is the zero
line, from the first rune to before it, and the next one begins the text again
(`text.go:651-657`). That is so where a stretch between two breaks is wider than the
paragraph, and where the last rune shares a glyph with the one before it, as no width is
then recorded for the end of the text (`text.go:619`). The model does all three;
`CanBeLaidOut` is the condition under which the third is ruled out.

### TileCommands, LayerRenderer

A pixel is the sequence of paints that were placed over one another in it, with the
operations that do not distribute over them as atoms, so that two ways of drawing a
picture can be compared. A path is what its strips say of one row of tiles: columns
with a coverage, and columns in gaps that are filled. The operators of
`LayerRenderer` take the renderer's state as one value and follow its methods;
those of `TileCommands` follow `optimizeCommands` (one turn of its loop is `Turn`, one
layer `WalkLayer`) and `fine.runCmd`. The recorder's operations are the actions,
`DrawFrame` resets the renderer, plays what was recorded and renders it; every state
compares `Render`'s pixels with those that the recording describes (`Meant`).

`Avoided` names three things that recordings do not do in the run, since the code
fails when they do: see *Other disagreements*.

## 3. Runs

| run | module / configuration | properties | what it shows |
|---|---|---|---|
| concurrent_renderer | `MCConcurrentRenderer` | `StopDrains`, `StopReturns`, `ImplementsDrawQueue` | operations are drawn in call order and none is lost; `Stop` returns, and everything is drawn by then |
| frame_callbacks | `FrameCallbacks` | `AssertionsHold`, `OncePerFrame`, `OneCallbackEach`, `TickingIsScheduled`, `KeepsTicking` | tickers tick once a frame and go on, whatever callbacks do to tickers that are not due |
| build_owner | `MCBuildOwner` | `ListIsSound`, `LaidOutTreeIsBuilt`, `ParentsFirst`, `MarkedIsRebuilt` | dirty elements are rebuilt before layout, parents first, with one listed element moved a frame |
| layout_pipeline | `LayoutPipeline` | `RequestsAreKept`, `NeverPanics` | a request for the paint of what can be seen is never forgotten (`PaintIsRequested`), a dirty boundary stays listed until a removed object is put back (`DirtyBoundaryIsListed`), and no call panics |
| layout_stale | `LayoutPipeline`, `LayoutStale.cfg` | `SettledIsLaidOut` | **violated**: an object is never laid out again |
| event_loop | `EventLoop` | `RequestIsAnnounced`, `PollsInTurn`, `CleanEnd`, `OneCallback`, `FrameIsDrawn`, `RunReturns` | no request is lost on a socket that stalls and hangs up, and `Run` returns |
| window_buffers | `WindowBuffers` | `DrawsIntoFreeBuffer`, `HeldIsMapped` | buffers the compositor holds are left alone |
| bidi | `MCBidi` | `StackDiscipline`, `IsolatesMatch`, `LevelsFollowRules`, `VisualOrder` | the passes give the levels, and the order, that the rules state |
| paragraph | `MCParagraph` | `LinesCoverText`, `RunesKeepTheirStyles`, `LinesInVisualOrder`, `BreaksFollowRules`, `LinesAdvance`, `LayoutEnds` | when a layout is done each rune has been drawn once, in its style and in order, on lines that end where they may; no line begins the text again if `CanBeLaidOut`, and if moreover every break is safe, `Layout` comes to an end |
| controller | `Controller` | `NeverFails`, `ListenersAreUpToDate`, `AnimationEnds` | no call fails, listeners and curve agree with the controller between calls, animations end |
| child_list | `MCChildList` | `ChildrenRendered`, `AdditionsKeepOrder`, `KeysKeepElements`, `OnePlaceChangeKeepsTheRest` | elements, and with them states, follow keys and positions; every child is drawn |
| layers | `MCLayerRenderer` | `FrameShowsPicture` | delaying, eliding, unwrapping, cutting and merging change no pixel of the recordings that do not do what `Avoided` names |

### What the violated one shows

It is a disagreement between the code and what it says of itself; `PROJECT.json`
quotes the lines.

* **Layout.** An object whose recorded boundary is another object does not set its
  own `needsLayout`, so when the boundary is laid out, `Layout` skips it: its
  constraints are the same. Boundaries are only recorded when a layout is
  *skipped*, so the trace needs one frame in which a sibling or an ancestor changes
  (a padding whose inset moves without changing its sum), and then the change of a
  grandchild.

### Other disagreements met while modelling

No run is kept for these; each is a change of one constant, or a reading of the
code, away.

* **Tickers.** `RunFrameCallbacks` swaps the two lists before it calls anything, so
  cancelling a callback of the same frame does nothing. With `CancelDue = TRUE`,
  `AssertionsHold` fails: stopping or muting a ticker that is still due trips
  `debug.Assert(t.Ticking())` (`ticker.go:181`). `OncePerFrame` fails too: a callback
  that stops and starts a ticker still due leaves its old callback in the list being
  run and adds one for the next frame, so the ticker fires twice a frame from then on
  (`ticker.go:75-76` says once).
* The compositor's 32-bit count of milliseconds wraps; a running ticker is then
  told a negative elapsed time (`wsi.go:500-506`, `ticker.go:192`).
* With `Detached = TRUE`, `NeverPanics` fails: marking an object outside the tree
  panics once a boundary was recorded for it (`render.go:125-131`), although
  `pipeline.go:216-217` prepares for nodes "dirtied in some way while unattached".
  And `Detach` does not go down to the children as `Attach` does
  (`pipeline.go:237-249`), so removing a child of a removed object fails the
  assertion of `dropChild` (`render.go:464`).
* `dropChild` leaves the boundaries of what it removes as they are: the call that would
  clear them is commented out (`render.go:465`). So an object that needs layout and has
  no boundary can be put back in a place where objects around it still name others as
  theirs. `Attach` only lists what has a boundary, and the next `Layout`, told to skip,
  records the object as its own: a boundary that needs layout and that no list holds,
  where every later request from below stops. `DirtyBoundaryIsListed` without
  `~returned` fails in this way, with three objects that loosen their constraints, after 27
  steps. The widgets at this commit never put a removed object back.
* `Layout` cleans the boundaries below an object whose boundary changed
  (`render.go:376-388`) without storing the new one of the object itself: laid out
  under tight and later under loose constraints, it remains its own boundary.
* Two flushes (`wsi.go:423`, `wsi.go:619`) ignore `stopWriting`, which is set to
  "Prevent any further writes" (`wsi.go:383-388`).
* **Build owner.** When one build moves two listed elements (`MaxMoves = 2`, five
  elements), the re-sort leaves a clean element between dirty ones; the walk back
  stops there (`base.go:687-693`). The element left of it stays dirty for good, because
  the end of the scope clears `inDirtyList` only, and `MarkNeedsBuild` returns early on
  `dirty`.
* **Shutdown.** The sync request of the shutdown is queued (`wsi.go:407`) after the last
  flush and, on an idle connection, is written by nobody: `Run` waits for its ten
  seconds (`wsi.go:401`).
* **Buffers.** A buffer that was busy during a resize is kept (`wsi.go:721`) and returned
  later with the old size; packing then runs past it, or leaves a part
  (`internal/sparse/pack.go:82-83`).
* **Controller.** With all statuses in `ActOn`, `NeverFails` and `ListenersAreUpToDate`
  fail: a listener that calls `Stop` in `setDirection` of a repeating animation makes
  `tick` dereference nil (`controller.go:281`), and one that is told second is told a
  status that the first has already changed, after which `CurvedAnimation` has the
  wrong curve. With a duration of zero, `animateTo` overwrites a status that a listener
  has set meanwhile (`controller.go:188-197`), and `Repeat` divides by zero.
  `ReverseDuration` is only used when `Duration` is 0. A repeating animation that ends at its
  upper bound shows its lower one. `CurvedAnimation.Dispose` never removes its listener
  (`animation.go:126-133`, `161`), and implicit animations create one again each time
  (`implicit.go:97-98`). `MaybeLerp` interpolates from the start to the start.
* **Child lists.** `detachRenderObject`, which "recursively instructs the children of
  the element to detach their render object" (`base.go:379`), looks for a method
  `performDetachRenderObject` (`base.go:375-377`); the elements have
  `PerformDetachRenderObject` (`base.go:769`). So the render object of a child that has
  left stays where it was. Moving keyed children leaves render objects in another order
  than the elements: from a, b, c to c, b, a they become c, a, b, since each is put after
  one that has itself not moved yet; `AdditionsKeepOrder` is what holds. Duplicate
  keys lose a child. An element with a render object that is retaken by its global key meets the
  assertion of `adoptChild` (`render.go:451`).
* **Line breaking.** Mandatory breaks of the second and later words are counted with 64
  verdicts a word (`linebreak.go:781`); a word has 32 (`linebreak.go:161`).
* **Bidirectional text.** `bidi.go:5` says that the package implements UAX #9. Where a
  removed rune stands at the end of a run, the level -1 it was given is read as a level:
  RLE L ON PDF R gives the ON level 2 instead of 1. `RemovedAreHarmless` lists the places.
* **Paragraphs.** A line that wraps after a ligature at the end of a run never ends, and
  `Layout` with it (`text.go:619` against `601-602`). Later lines count the white space that
  ended the line before, so that a word that would fit exactly may be moved on
  (`text.go:636`). Lines that are all too long are a known endless loop (the comment
  "XXX" there), and a break that is not safe is a known panic (`text.go:647`); a mandatory
  break is a panic (`text.go:547`); empty text panics in
  `splitByScript`.
* **Layers, without "cutout" in `Avoided`.** A layer with `SrcIn`, `SrcOut` or `Clear` that is empty in a
  tile becomes clears in the layer below it (`opt.go:640-667`). If that layer is plain and
  is drawn into afterwards, it is unwrapped (`opt.go:756-758`), and the clears wipe what
  lies below it. The comment there supposes this: "I don't think this is currently
  possible" (`opt.go:760-768`). Filling everything, pushing a clipped layer, pushing and
  popping an empty `SrcOut` layer and filling does it.
* **Layers, without "unpushed".** A layer with a blend mode and no clip is pushed to every tile
  without first pushing the lazy layers below it (`render.go:784-793`); the next drawing
  panics with "unexpected unlazy layer" (`render.go:741`). Lottie mattes within a plain
  layer do this (`lottie/lottie_renderer/renderer.go:82-100`).
* **Layers, without "emptyRoot".** A `SrcIn` layer on an empty canvas makes the root layer
  ignore what follows (`render.go:767-770`), `PopLayer` returns before it undoes that
  (`render.go:930-934`), and `Reset` does not either: nothing is drawn from then on.
* **Kept recordings.** Playing a recording writes nil over the layers without effect
  (`render.go:113-116`), and the next time `optimizeRecording` panics at them
  (`render.go:136`). Recordings of colour glyphs are kept (`text/text.go:744-760`); a
  `GlyphRecording` with a plain layer shows it.
* **Blends.** `wideTile.blend` means to widen the blend before it, and widens a copy
  (`wide_tile.go:228-234`): the second of two adjacent blends is lost, where a clip path has a strip
  of full coverage next to a gap. And a blend that the optimiser has removed among
  others makes it panic when it meets the layer again (`opt.go:661`, `opt.go:720`), with clipped
  layers that straddle the bounds of the clipped layer around them. The paths of
  `MCLayerRenderer` do neither.

### Bounds, and why they are enough

* `MCConcurrentRenderer`: `Parallelism = 2`, four operations, one reset. Two paths
  compiling while one is waited for is the least in which they can finish in the
  wrong order with the channel full and the caller blocked.
* `FrameCallbacks`: two tickers (one operating on the other), three generations
  and two times, so both counters wrap; a list may hold four callbacks
  before the program stops adding: two live ones and two cancelled.
* `BuildOwner`: a root and three elements in two shapes, one of them keyed.
* `LayoutPipeline`: the view and three objects: one that passes its constraints on,
  one that loosens them and a self-sized leaf with a paint setter, in every shape:
  parent, child and grandchild, or siblings. The window grows once (`MaxResizes`).
  `MaxListed = 2` bounds the list where an object is inserted, since an object that
  is removed and inserted while dirty is listed again each time. `Configurable`
  restricts whose configurations are told apart: none in `layout_pipeline`, whose
  properties are about flags and the list, all in `layout_stale`. One
  object may hide its children (`Hiders`; none in `layout_stale`). `Painted` are the
  objects with a setter of what they look like: the leaf.
* `EventLoop`: one window and one resize, with stalls, hang-ups and every other event.
  Windows meet only in the set under the lock; the proofs are for any number of them.
* `WindowBuffers`: three buffers and two sizes: one held, one released, one drawn.
* `Controller`: values 0 to 2, durations 0 and 2, so that an animation has an end, a
  middle and, when it is 0, neither; five calls, which start, interrupt, turn and end one
  with a listener's call in between. The program's listener acts when an animation
  has ended (`ActOn`).
* `MCChildList`: lists of up to three of five widgets, which keep, move, replace and
  drop a child at once; four render objects.
* `MCBidi`: a depth limit of 3 instead of 125 and a bracket stack of 1 instead of 62, so
  that both overflow; words of two runes instead of 64, so that marks cross words.
  Every text of up to four runes over alphabets for explicit levels, weak types, neutral
  types and brackets, of five with removed characters and isolates, of six where the
  stack overflows and empties again. The theorems are for every text and depth.
* `MCParagraph`: words of three verdicts instead of 32, every pair of runes, and up to
  four over the runes that one group of rules is about. Laid out are texts of up to three
  words, spaces and brackets in two scripts and directions, and three of four, for
  every levels, clusters, flags and a width of 2, with two styles with one on the stack. Zero lines
  are added until there are more lines than runes; a layout that goes on for ever is one
  that stops there and is not "done".
* `MCLayerRenderer`: three tiles of three columns; a path over all, one whose edges are
  within the outer tiles, one that leaves the middle out; an opaque and a translucent
  fill; nine layers with and without clip, opacity and blend modes of each kind; three
  draws, two layers, one clip and five commands, which are enough for something drawn
  below, in and above a layer within a layer. A second frame is drawn with the
  renderer that the first one leaves.

### Fairness

The Go scheduler runs every goroutine that can run (weak fairness of the steps
of the worker, of compilations, of the loop's handlers, of the poller). A `select`
chooses uniformly among the cases that are ready, so a case that is ready again
and again is chosen: strong fairness of the loop's cases (`TakeResult`,
`TakeToken`, `HandleEvent`, `Quit`, `ReturnPollError`). The compositor reads its
socket and answers frame callbacks (weak fairness); nothing obliges it to resize
or to hang up, nor a program to request frames, call or cancel anything. The
timer of the shutdown fires (`SF_vars(Timeout)`). In `FrameCallbacks` and
`BuildOwner` a requested frame is drawn, which `EventLoop` shows (`FrameIsDrawn`):
unless `Run` ends, or what is left of a write that stalled waits for an event, since
the flush at `wsi.go:423` ignores EAGAIN, as the comment at `wsi.go:240-243` concedes.
In `Controller` a call in progress goes on, since it is one goroutine, and a
ticker that was started is ticked (`KeepsTicking` of `FrameCallbacks`). In `Paragraph`
the loop of `Layout` goes on, as nothing in it waits (weak fairness of `NextLine` and
`EndLayout`; none of the builder's steps, and none that a panic is reached). The other
modules (`LayoutPipeline`, `WindowBuffers`, `ChildList`, `Bidi`, `LineBreak`,
`LayerRenderer`) state no fairness: their properties are about what may happen.

`CHECK_DEADLOCK FALSE` is set where the system may stop: the renderer after
`Stop`, the loop after `Run` returns, layouts with a panic, layout or buffers with
nothing left to do, a text that has been processed, a controller or a list whose
bound on calls is reached.

## 4. Proofs

All hold for every value of the constants that satisfies the assumptions named in
the modules.

* **`Renderer_proofs`, the concurrent renderer**: `IInv`, the inductive invariant of
  `ConcurrentRendererInv`, and from it `DrawnInOrder`, `StopDrains`,
  `NoStrayCompilation`, `BoundedCompilation`, and the safety part of the refinement
  of `DrawQueue`. `DrawnInOrder` alone is not inductive: it says nothing of the
  task being sent, of the numbering of tasks in the channel, or of which goroutine
  belongs to which task. `IInv` adds where the caller is (`CallerInv`), that the
  worker's task precedes the channel's (`OrderInv`), and that a task's path is
  either being compiled or ready, once, until it is taken (`PathInv`).
* **`Renderer_proofs`, the layout pipeline**: for any number of objects in any tree,
  `NeverPanics` and `RequestsAreKept`, that is `PaintIsRequested` and
  `DirtyBoundaryIsListed`, under `Detached = FALSE` and for any `Hiders`. The invariant
  `Kept` says of the state between two calls within a handler as well as between handlers
  that the view is the root, attached and its own boundary, and what has a parent is attached
  (`Placed`), that what is marked for painting has a marked parent unless that one hides it, so that
  stopping at the first marked object is enough (`PaintClosed`), and that the view has then asked for a
  frame (`PaintAsked`). For `DirtyBoundaryIsListed`, while not `returned`, `Fresh` adds that every boundary is above the
  object that names it (`InBoundaries`), which is what a removed subtree keeps no longer
  when it is put back elsewhere, and that the dirty ones are listed (`Listed`).
  Handlers call each other, so the lemmas say of each operator on the state what it keeps
  (`Keeps`, `Laid`, `Requesting`) and a step of the specification is a few of them. Loops
  and calls down the tree are followed by counting up (`CountingUp`, `ForEachFacts`,
  `AttachedFacts`, `PerformedFacts`). The ancestors, defined by climbing as often as there are objects,
  are shown to be the least set that holds the object and each member's parent (`AboveFacts`).
* **`Animation_proofs`, tickers**: `AssertionsHold`, `OncePerFrame`, `OneCallbackEach`,
  `TickingIsScheduled` and `FrameIsRequested`, under `CancelDue = FALSE`. The invariant is
  `TypeOK /\ OneCallbackEach /\ TickingIsScheduled` with `FrameInv`, which ties the
  tickers that are due to those that have not ticked in this frame. The proof
  covers any number of generations, so also a counter that wraps: what keeps an
  old identifier from cancelling another ticker's callback is that an
  identifier is only used while its callback is in the list. `FrameIsRequested` (a
  frame is requested whenever a callback waits for the next one) is an induction
  of its own on top.
* **`Wsi_proofs`, the event loop**: for any number of windows, with stalls and hang-ups.
  `RequestIsAnnounced` (the order of set and token, and of token and lock) and
  `PollsInTurn` (the rendezvous) are inductive together. `OneCallback` needs a count:
  for each window that has asked for a frame, its requests in libwayland's buffer and on
  the socket and its answers on the way back and in the queue are one in all, and none
  for the others (`AnswersInv`). `CleanEnd` needs to know what of the writes preceded
  the sync request, and that nothing is read once the connection has hung up (`HangupInv`).
* **`Animation_proofs`, the controller**: `NeverFails`, that the status last told is the controller's
  between calls (`StatusIsKnown`), and `ListenersAreUpToDate`. The invariant says of the
  steps still on the stack which of them will dereference a simulation or tell a
  status. The theorems have a condition on the listener: it acts when an animation has
  ended (`ActsAtTheEnd`), or, for `NeverFails`, nothing repeats a given number of times
  (`ActsSafely`). Without it both are false: `controller.go:281`, above.
* **`ChildList_proofs`**: for lists of any length, `KeysKeepElements`,
  `OnePlaceChangeKeepsTheRest`, `ChildrenRendered` and `AdditionsKeepOrder`. The first two
  are about what `UpdateChildren` matches. The invariant of the third is that the render
  objects in the list are different, that each child has one of them, and that new ones
  have names not yet used, so that no insertion misses the place it follows. The
  recursive function that goes from child to child is followed by a least counterexample.
* **`BuildOwner_proofs`**: for trees of any size. The tree, the stack of builds and the
  agreement of list and flag (`TreeInv`, `StackInv`, `ListInv`) are inductive however many
  elements move, and give `DeeperThanParent`: retaking a subtree moves it down far enough,
  because `updateDepth` takes the maximum, and an element that is being built is never in
  a subtree that moves or leaves (`StackAbove`). `ListIsSound`, `LaidOutTreeIsBuilt` and
  `ParentsFirst` need `MaxMoves <= 1`; with two the model checker refutes them (above).
  `BetweenInv` says that between two elements the list is sorted and nothing left of the
  index waits; `WithinInv`, that while one is rebuilt what lies left of the index is done
  unless it has moved, at most one has, and what is marked or moved lies at least as
  deep as the element being rebuilt. The step to prove is the walk back
  (`WalkBackSuffices`, `base.go:687-693`): if something waited left of the right-most clean
  element, then that element is the deeper one, all but one of the elements up to the
  index come before it, and beside them the one that waits; there is no room
  for so many (`Crowded`).
* **`Wsi_proofs`, buffers**: type correctness, `DrawsIntoFreeBuffer`,
  `HeldIsMapped`, `BusyIsOwed` and `FirstFrameFits` (these two are not in the run), for any number of buffers and
  sizes. The invariant adds that the buffer being drawn is one of the window's and
  not busy.
* **`Bidi_proofs`**, with the lemmas of **`BidiRuns_proofs`**: for every text and every depth limit, `StackDiscipline` (the
  levels on the stack rise, within the limit, and the counters agree with it),
  `OverflowMeansFull` (initiators overflow only when the next level would be beyond the limit) and
  `WellNested` (matched isolates do not cross). The invariant relates each entry of the stack to
  the initiator that made it (`IndexInv`, `PairInv`), since what a PDI pops is decided by
  a counter and where it belongs is read from the stack. `IsolatesMatch`, the agreement
  with rule BD9, needs the difference between the initiators and the PDIs since an open
  initiator (`Delta`): for one on the stack it is the number of isolates from it to the
  top and of those that overflowed (`OpenInv`), for any other at most those that
  overflowed (`SwallowedInv`), and each was given the level that its PDI will find. So the
  PDI that brings the difference to zero is the one that pops it, and without an overflow
  nothing but the stack is open. `ClassInv` says that the search of an FSI for its first
  strong character (`ResolveFSIFacts`) turns initiators into initiators and nothing else.
  `LevelsInv` adds what the pass leaves behind: a rune that is not removed has at least
  the level of the paragraph and at most the limit (`ExplicitTypes`).

  `VisualOrder` follows from these levels alone. It is what L2 amounts to, and the code never
  says it: it reverses runs, level by level, where the rule speaks of runes. The
  invariant of the rounds (`Ordered`) is about the runs once the levels from i up are
  done: two of them are turned if the lowest level from one to the other is at
  least i and an even number above it (`Turned`), and a run has only moved among
  runs of at least level i, which is why reversing positions, as the code does,
  reverses those runs. `RunsFacts` says that runs tile the text with one level each,
  removed runes aside, `LowestBetween` carries lowest levels from runs to
  runes, and `LineLevelsFacts` says that the pass for L1 from the end of a line resets the
  white space that L1 names. The passes that count up or down are recursive
  functions over an interval; `RecursionUp` and `RecursionDown` show that such a
  function exists and so has the values its definition gives.
* **`Paragraph_proofs`**: for every text, with any styles, levels, clusters and widths,
  `LinesCoverText` and `LinesAdvance`. Neither is inductive: that a line ends where
  the text may be broken and that the next one begins there is decided by widths, and
  which runs the line gets by what styles, levels and scripts have made of them.
  `ParagraphInv` says what each stage leaves to the next. `BreaksInv`: `Process` never
  allows a break before the first rune and always one after the last, since LB2 is the
  first rule on that gap and no later proposal changes a verdict (`RulesAreLate`,
  `ProposeKeepsFirst`). `Collected`: while the text is built the runs tile what has been
  added, and only the last may be empty. `TextRuns`: they tile the text, and go on to do so
  when they are split at the starts of other pieces that tile it (`SplitFacts`), which
  the runs of levels (`RunsFacts`) and of scripts (`ScriptRunsFacts`) do. `LayoutInv`: the
  lines follow each other, each the one found from its start (`Contiguous`), until a line is the
  zero line. From then on the layout is `Trapped`: it has come to a set of runes where each
  line begins the next in the set again (`Circle`), so it is never done, and what is done
  covers the text. `LinesAdvance` says that there is no zero line if `CanBeLaidOut`: a width
  never decreases from a glyph to a later one (`SafeWidthFacts`), so the break that follows
  the start of a line, at a rune with a glyph, is a candidate for its end (`LineFits`). The last
  rune is one if nothing else is, hence the condition. `LineRunsFacts` says that the runs of
  an interval are exactly its runes.

Only model-checked: `LayerRenderer`; how `Paragraph` paints its
lines (`RunesKeepTheirStyles`, `LinesInVisualOrder`); the passes of `Bidi`
and `LineBreak` against their rules; what `BuildOwner` and
`Controller` do beyond the conditions above is refuted, not open. Liveness (`StopReturns`, the
liveness of `ImplementsDrawQueue`, `KeepsTicking`, `MarkedIsRebuilt`, `FrameIsDrawn`,
`RunReturns`, `AnimationEnds`, `LayoutEnds`) is beyond TLAPS, as are ENABLED and RECURSIVE
operators (`TileCommands`, `LayerRenderer`). `SettledIsLaidOut` is refuted.

## 5. Plan

1. `FrameLoop`: the composition of a frame. `RequestFrame` of `EventLoop` called by
   build owner, frame callbacks and layout within `Binding.DrawFrame`; whatever is
   marked at any point of a frame is shown by some later one.
2. The application's dispatch of window events, and the widgets that emit events of
   their own (`ChannelListener`).
3. Save, Restore and CopyBackdrop of the sparse renderer, and the columns and rows of
   paths with several strips.
4. Flex layout over integers and hit testing as functions of the render tree.
5. Proofs: the glyphs that `Paragraph` paints, each once and in visual order.

## 6. Not modelled, and why

Numerical code (the strips of a path, gradients, blur, curves, colour, the arithmetic of
blending, SIMD) has no order to get wrong and is compared with golden images by the
repository's tests. Tables and their generators, which are most of the lines of the
text packages, are data: the models name a rune after its class. The OpenType parsers,
the copy of `golang.org/x/text`, the HarfBuzz bindings, Lottie conversion and font
lookup keep no state between calls. The device objects of `wsi` (pointer, seats,
outputs) are filled by events and not read by the widgets at this commit. Flex layout,
hit testing and the application's dispatch could be modelled and are not yet.

--------------------------- MODULE LayoutPipeline ---------------------------
(***************************************************************************)
(* Layout in gutter: how a render object asks to be laid out again         *)
(* (MarkNeedsLayout, render/render.go), how the request climbs to a        *)
(* relayout boundary, and how the next frame lays out the boundaries that  *)
(* were listed (Renderer.FlushLayout and Layout).  A render object is      *)
(* reduced to its ObjectHandle: the flags, the boundary recorded for it,   *)
(* its constraints, and in laid the configuration its last PerformLayout   *)
(* saw, which stands for the size and the offsets PerformLayout computes.  *)
(* The window's constraints are always tight (application/app.go:52).      *)
(* A panic of the code ends the behaviour with failed set.                 *)
(***************************************************************************)
EXTENDS Naturals, Sequences, FiniteSets, SequencesExt

CONSTANTS
    Objects, View, None,
    Constrainers,  \* Constrained: config 1 is a tight SetExtraConstraints
    Looseners,     \* hand loose constraints to children: PositionedBox, Flex
    SelfSized,     \* SizedByParenter: no children, no setter of the layout: FillColor
    Configurable,  \* the objects whose setters matter to what is laid out
    Painted,       \* the objects with setters of what they look like
    Hiders,        \* may paint no child: Opacity, AnimatedOpacity, FittedBox
    MaxResizes,    \* bound: how often the window gets a larger size
    Removes,       \* RemoveChild is called
    Detached,      \* the calls are also made on objects outside the tree
    MaxListed      \* bound: of the list, where an object is inserted

ASSUME ObjectsAssumption ==
    /\ IsFiniteSet(Objects)
    /\ View \in Objects /\ None \notin Objects
    /\ MaxResizes \in Nat /\ MaxListed \in Nat
    /\ Constrainers \cup Looseners \cup SelfSized \cup Hiders \subseteq Objects \ {View}

VARIABLES
    h,          \* h[o]: the ObjectHandle of o
    list,       \* nodesNeedingLayout.Front
    requested,  \* a frame has been requested (OnNeedVisualUpdate)
    failed,     \* the panic that ended the program
    hidden,     \* history: the objects that painted no child when last painted
    returned    \* history: an object was inserted with what remained of its past

pipelineVars == <<h, list, requested, failed, hidden, returned>>

\* v tells the sizes of the window apart, and 0 the zero constraints of a new
\* object, whose minimum is its maximum.
Constraints == [tight : BOOLEAN, v : 0..(MaxResizes + 1)]
Panics == {"none", "orphan", "nilRenderer", "assert"}

Handle == [parent : Objects \cup {None}, attached : BOOLEAN,
           needsLayout : BOOLEAN, needsPaint : BOOLEAN,
           boundary : Objects \cup {None},
           cs : Constraints, config : 0..1, laid : (0..1) \cup {None}]

States == [h : [Objects -> Handle], list : Seq(Objects),
           requested : BOOLEAN, failed : Panics]

\* The state as one value, for the operators that stand for calls made in
\* sequence by one handler.
State == [h |-> h, list |-> list, requested |-> requested, failed |-> failed]
Become(s) == /\ h' = s.h /\ list' = s.list
             /\ requested' = s.requested /\ failed' = s.failed

Failing(s, p) == IF s.failed = "none" THEN [s EXCEPT !.failed = p] ELSE s

\* A call on one object, and how deep calls on children, and on theirs, can nest.
Calls == [s : States, o : Objects]
MaxDepth == Cardinality(Objects)

\* A loop that makes call for each of objs.
ForEach(s, objs, call) ==
    LET after[i \in 0..Len(objs)] ==
            IF i = 0 THEN s ELSE call[[s |-> after[i - 1], o |-> objs[i]]]
    IN  after[Len(objs)]

Children(s, o) == SetToSeq({c \in Objects : s.h[c].parent = o})

\* o and its ancestors.
Above(s, o) ==
    LET up[n \in 0..MaxDepth] ==
            [x \in Objects |-> IF n = 0 \/ s.h[x].parent = None THEN {x}
                              ELSE {x} \cup up[n - 1][s.h[x].parent]]
    IN  up[MaxDepth][o]

\* The objects on the way from o up to x, without x.
OnTheWay(s, o, x) == {y \in Above(s, o) \ {x} : x \in Above(s, y)}

InTree(s) == {o \in Objects : View \in Above(s, o)}

-----------------------------------------------------------------------------
\* MarkNeedsPaint: up to the first object that is marked already, or to the root,
\* which asks for a frame.
MarkNeedsPaint(s, o) ==
    LET marked == {x \in Above(s, o) :
                      \A y \in OnTheWay(s, o, x) \cup {x} : ~s.h[y].needsPaint}
    IN [s EXCEPT
          !.h = [x \in Objects |-> [s.h[x] EXCEPT !.needsPaint = @ \/ x \in marked]],
          !.requested = @ \/ \E x \in marked : s.h[x].parent = None /\ s.h[x].attached]

\* MarkNeedsLayout: up to the first object that is marked already or is its own
\* boundary, which is listed.  An object that has no boundary yet marks itself on
\* the way, one that has another object for a boundary does not.
MarkNeedsLayout(s, o) ==
    LET asked == {x \in Above(s, o) :
                    /\ ~s.h[x].needsLayout
                    /\ \A y \in OnTheWay(s, o, x) :
                          ~s.h[y].needsLayout /\ s.h[y].boundary # y}
        orphans    == {x \in asked : s.h[x].boundary \notin {None, x} /\ s.h[x].parent = None}
        boundaries == {x \in asked : s.h[x].boundary = x}
        marked == [s EXCEPT !.h = [x \in Objects |-> [s.h[x] EXCEPT
                      !.needsLayout = @ \/ (x \in asked /\ s.h[x].boundary \in {None, x})]]]
    IN CASE orphans # {} -> Failing(marked, "orphan")
         [] \E x \in boundaries : ~s.h[x].attached -> Failing(marked, "nilRenderer")
         [] \E x \in boundaries : s.h[x].attached ->
              [marked EXCEPT !.list = Append(@, CHOOSE x \in boundaries : TRUE),
                             !.requested = TRUE]
         [] OTHER -> marked

\* Mutants: Attach only hands down the renderer; a child is adopted without it.
AttachQuietly(s, o) ==
    [s EXCEPT !.h = [x \in Objects |->
        [s.h[x] EXCEPT !.attached = @ \/ o \in Above(s, x)]]]

AdoptUnattached(s, p, o) == [MarkNeedsLayout(s, p) EXCEPT !.h[o].parent = p]

\* Attach: what was marked outside the tree is marked again, now that there is a
\* renderer to list it.
Remarked(s, o) ==
    LET s1 == [s EXCEPT !.h[o].attached = TRUE]
        s2 == IF s1.h[o].needsLayout /\ s1.h[o].boundary # None
              THEN MarkNeedsLayout([s1 EXCEPT !.h[o].needsLayout = FALSE], o)
              ELSE s1
    IN  IF s2.h[o].needsPaint
        THEN MarkNeedsPaint([s2 EXCEPT !.h[o].needsPaint = FALSE], o)
        ELSE s2

Attached[n \in 0..MaxDepth] ==
    [c \in Calls |->
        IF n = 0 THEN c.s
        ELSE LET s1 == Remarked(c.s, c.o) IN
             ForEach(s1, Children(s1, c.o), Attached[n - 1])]

Attach(s, o) == Attached[MaxDepth][[s |-> s, o |-> o]]

\* adoptChild and dropChild.  Detach does not go down to o's children.
Adopt(s, p, o) ==
    LET s1 == [MarkNeedsLayout(s, p) EXCEPT !.h[o].parent = p] IN
    IF s1.h[p].attached THEN Attach(s1, o) ELSE s1

Drop(s, p, o) ==
    LET s1 == [s EXCEPT !.h[o].parent = None,
                        !.h[o].attached = @ /\ ~s.h[p].attached] IN
    IF s.h[o].attached # s.h[p].attached
    THEN Failing(s, "assert")
    ELSE MarkNeedsLayout(s1, p)

-----------------------------------------------------------------------------
\* The constraints o's PerformLayout hands to its children.
Given(s, o) ==
    LET cs == s.h[o].cs IN
    CASE o \in Constrainers -> [cs EXCEPT !.tight = @ \/ s.h[o].config = 1]
      [] o \in Looseners    -> [cs EXCEPT !.tight = FALSE]
      [] OTHER              -> cs

\* The objects below o that a call hands itself down to, from child to child, when
\* it stops at those that are their own boundary or have a boundary of kept.
HandedDown(s, o, kept) ==
    {x \in Objects \ Above(s, o) :
        /\ o \in Above(s, x)
        /\ \A y \in OnTheWay(s, x, o) : s.h[y].boundary \notin kept \cup {y}}

\* o's boundary is recorded, and handed down by propagateRelayoutBoundary.
Propagate(s, o, b) ==
    LET told == HandedDown(s, o, {b}) \cup {o} IN
    [s EXCEPT !.h = [x \in Objects |->
        [s.h[x] EXCEPT !.boundary = IF x \in told THEN b ELSE @]]]

\* cleanRelayoutBoundary of each child.
CleanRelayoutBoundaries(s, o) ==
    LET told == HandedDown(s, o, {}) IN
    [s EXCEPT !.h = [x \in Objects |->
        [s.h[x] EXCEPT !.boundary = IF x \in told THEN None ELSE @]]]

\* Layout(o, cs, parentUsesSize).  Only the view ignores a child's size, and it
\* then hands out tight constraints.  The boundary is recorded when the layout
\* is skipped, and only then; otherwise perform is called.
Layout(s, o, cs, perform) ==
    LET b == IF o \in SelfSized \/ cs.tight THEN o
             ELSE s.h[s.h[o].parent].boundary
        old == s.h[o].boundary
        s1 == [s EXCEPT !.h[o].cs = cs]
        s2 == IF old \notin {None, b} THEN CleanRelayoutBoundaries(s1, o) ELSE s1
    IN IF ~s.h[o].needsLayout /\ cs = s.h[o].cs
       THEN IF b = old THEN s ELSE Propagate(s, o, b)
       ELSE perform[[s |-> s2, o |-> o]]

\* PerformLayout, which lays out the children, and what is done after it: also
\* layoutWithoutResize.
Performed[n \in 0..MaxDepth] ==
    [c \in Calls |->
        LET s1 == IF n = 0 THEN c.s
                  ELSE ForEach(c.s, Children(c.s, c.o), [child \in Calls |->
                           Layout(child.s, child.o, Given(child.s, c.o), Performed[n - 1])])
        IN  MarkNeedsPaint([s1 EXCEPT !.h[c.o].needsLayout = FALSE,
                                      !.h[c.o].laid = s1.h[c.o].config], c.o)]

LayoutWithoutResize(s, o) == Performed[MaxDepth][[s |-> s, o |-> o]]

\* Mutant: the loop is left after the first node, and the others are forgotten.
FlushFirst(s) ==
    IF s.list # <<>> /\ s.h[Head(s.list)].needsLayout
    THEN LayoutWithoutResize([s EXCEPT !.list = <<>>], Head(s.list))
    ELSE [s EXCEPT !.list = <<>>]

\* FlushLayout.  The nodes are sorted by a depth that no code sets: they stay in
\* the order they were marked.  Nothing is marked while they are laid out.
FlushLayout(s) ==
    ForEach([s EXCEPT !.list = <<>>], s.list,
            [c \in Calls |-> IF c.s.h[c.o].needsLayout /\ c.s.h[c.o].attached
                             THEN LayoutWithoutResize(c.s, c.o) ELSE c.s])

\* The objects of the tree that a frame comes by when those of hides paint no child.
Seen(s, hides) ==
    {o \in Objects : LET up == Above(s, o) IN View \in up /\ up \cap hides \subseteq {o}}

\* FlushPaint: every other object paints its children; what is not painted keeps its
\* mark.
FlushPaint(s, hides) ==
    LET seen == Seen(s, hides) IN
    [s EXCEPT !.h = [o \in Objects |->
        [s.h[o] EXCEPT !.needsPaint = @ /\ o \notin seen]]]

-----------------------------------------------------------------------------
NewHandle == [parent |-> None, attached |-> FALSE, needsLayout |-> FALSE,
              needsPaint |-> FALSE, boundary |-> None, cs |-> [tight |-> TRUE, v |-> 0],
              config |-> 0, laid |-> None]

\* NewRenderer attaches the view and prepares the initial frame; the window
\* has its first size when that frame is drawn.
PipelineInit ==
    /\ h = [o \in Objects |->
              IF o = View
              THEN [NewHandle EXCEPT !.attached = TRUE, !.needsLayout = TRUE,
                       !.needsPaint = TRUE, !.boundary = View,
                       !.cs.v = 1]
              ELSE NewHandle]
    /\ list = <<View>>
    /\ requested = TRUE
    /\ failed = "none"
    /\ hidden = {}
    /\ returned = FALSE

\* A call may be made on o, while the program runs.
Callable(o) == failed = "none" /\ (Detached \/ View \in Above(State, o))

\* A setter of o (SetInset, SetAlignment, SetExtraConstraints, ...).
Set(o) ==
    /\ o \notin SelfSized \cup {View} /\ Callable(o)
    /\ LET config == IF o \in Configurable THEN 1 - h[o].config ELSE 0
       IN  Become(MarkNeedsLayout([State EXCEPT !.h[o].config = config], o))
    /\ UNCHANGED <<hidden, returned>>

\* A setter that only changes what o looks like (SetColor, SetOpacity).
SetPaint(o) ==
    /\ o \in Painted /\ Callable(o)
    /\ Become(MarkNeedsPaint(State, o))
    /\ UNCHANGED <<hidden, returned>>

\* The view's SetConfiguration, with another window size.
SetConfiguration ==
    /\ failed = "none"
    /\ h[View].cs.v <= MaxResizes
    /\ Become(MarkNeedsLayout([State EXCEPT !.h[View].cs.v = @ + 1], View))
    /\ UNCHANGED <<hidden, returned>>

\* An object that was not in the tree before, or might as well not have been.
IsNew(o) == h[o] = NewHandle /\ Children(State, o) = <<>>

\* InsertChild: the view has one child.
InsertChild(p, o) ==
    /\ p \notin SelfSized /\ Len(list) < MaxListed
    /\ o # View /\ h[o].parent = None /\ o \notin Above(State, p) /\ Callable(p)
    /\ p = View => Children(State, View) = <<>>
    /\ Become(Adopt(State, p, o))
    /\ returned' = (returned \/ ~IsNew(o))
    /\ UNCHANGED hidden

RemoveChild(p, o) ==
    /\ Removes
    /\ h[o].parent = p /\ Callable(p)
    /\ Become(Drop(State, p, o))
    /\ UNCHANGED <<hidden, returned>>

\* MoveChild, among the other children of p.
MoveChild(p) ==
    /\ Cardinality({c \in Objects : h[c].parent = p}) > 1 /\ Callable(p)
    /\ Become(MarkNeedsLayout(State, p))
    /\ UNCHANGED <<hidden, returned>>

\* A requested frame: Renderer.DrawFrame.  Opacities and sizes are read when their
\* objects are painted; those that are not painted stay as they were.  Only an
\* object that has children has something to leave out.
RenderFrame ==
    /\ requested /\ failed = "none"
    /\ \E s \in {FlushLayout([State EXCEPT !.requested = FALSE])},
          hides \in SUBSET {o \in Hiders : Children(State, o) # <<>>} :
          LET seen == Seen(s, hides)
          IN  /\ Become(FlushPaint(s, hides))
              /\ hidden' = (hidden \ seen) \cup (hides \cap seen)
    /\ UNCHANGED returned

PipelineNext ==
    \/ RenderFrame
    \/ SetConfiguration
    \/ \E o \in Objects : Set(o) \/ SetPaint(o) \/ MoveChild(o)
    \/ \E p, o \in Objects : InsertChild(p, o) \/ RemoveChild(p, o)

PipelineSpec == PipelineInit /\ [][PipelineNext]_pipelineVars

-----------------------------------------------------------------------------
PipelineTypeOK == State \in States /\ hidden \subseteq Hiders /\ returned \in BOOLEAN

Tree == InTree(State)

\* A boundary that needs layout is listed for the next frame, and that frame has
\* been requested: the climb of MarkNeedsLayout ended in the list, and moving
\* objects in and out of the tree or drawing other frames did not lose it
\* (render.go:109-134, pipeline.go:216-222).  An object that was removed keeps its
\* boundary (the call at render.go:465 is commented out); once one was put back,
\* this need not hold.
DirtyBoundaryIsListed ==
    ~returned => \A o \in Tree : h[o].needsLayout /\ h[o].boundary = o
                                     => requested /\ o \in Range(list)

\* An object that needs painting and can be seen has asked the root for a frame,
\* although MarkNeedsPaint stops at the first object that is already marked
\* (render.go:91-108), also when it was marked outside the tree, or kept its mark
\* below an Opacity of 0 or the like, and came from there.  As long as it is below
\* such an object it may keep its mark with no frame requested (objects.go:328-330,
\* 397-399, 563); to be shown again, that object has to be painted.
PaintIsRequested ==
    (\E o \in Seen(State, hidden) : h[o].needsPaint) => h[View].needsPaint /\ requested

\* No request that was made to a render object is forgotten while frames are drawn
\* and objects come and go: neither one for layout nor one for paint.
RequestsAreKept == DirtyBoundaryIsListed /\ PaintIsRequested

\* No sequence of calls on objects of the tree makes MarkNeedsLayout run off the
\* top of the tree or find a boundary without a renderer (render.go:125-131),
\* or breaks dropChild's assertion (render.go:464).
NeverPanics == failed = "none"

\* What the last frame shows was laid out with the configuration each object
\* has, under the constraints its parent hands out, once no further frame is
\* requested.
SettledIsLaidOut ==
    ~requested => \A o \in Tree \ {View} :
                     /\ h[o].laid = h[o].config
                     /\ h[o].cs = Given(State, h[o].parent)

=============================================================================

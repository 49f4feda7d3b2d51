------------------------------ MODULE BuildOwner ------------------------------
(***************************************************************************)
(* The element tree of widget/base.go and the list of dirty elements its    *)
(* BuildOwner rebuilds once per frame: MarkNeedsBuild, scheduleBuildFor,     *)
(* BuildScope with its sorting and its walk back, the reconciliation of      *)
(* children (updateChild, inflateWidget, retakeInactiveElement,              *)
(* deactivateChild), and the frame that Binding.DrawFrame wraps around it.   *)
(*                                                                         *)
(* The elements are the interior ones, those that have a Build method; what *)
(* a build decides about each child is nondeterministic.  Everything runs   *)
(* on the event loop's goroutine.                                          *)
(***************************************************************************)
EXTENDS Integers, Sequences, FiniteSetsExt, Functions

CONSTANTS
  Elements,  \* element names; the name of an unmounted element is used again
  Root,      \* Binding.renderViewElement
  None,      \* no element
  Keyed,     \* the elements whose widget has a GlobalKey
  Trees,     \* the parent functions RunApp may have mounted: None off the tree
  MaxMoves   \* bound: listed elements that move in the tree in one frame

\* No element hangs, step by step, from itself.
WellFounded(p) ==
  \A S \in SUBSET Elements : S # {} => \E e \in S : p[e] \notin S

ASSUME BuildOwnerAssumption ==
  /\ IsFiniteSet(Elements) /\ Root \in Elements /\ None \notin Elements
  /\ Keyed \subseteq Elements \ {Root}
  /\ \A p \in Trees :
       /\ p \in [Elements -> Elements \cup {None}] /\ p[Root] = None
       /\ \A e \in Elements : p[e] \notin {Root, None} => p[p[e]] # None
       /\ WellFounded(p)
  /\ MaxMoves \in Nat

VARIABLES
  parent, life, depth,  \* elementHandle.parent, .lifecycleState and .depth
  dirty,     \* the elements with elementHandle.dirty
  listed,    \* the elements with elementHandle.inDirtyList
  list,      \* BuildOwner.dirtyElements
  resort,    \* BuildOwner.dirtyElementsNeedsResorting
  scheduled, \* BuildOwner.scheduledFlushDirtyElements
  requested, \* OnBuildScheduled asked the window for a frame
  phase,     \* "idle", or in DrawFrame: "callbacks", "scope" or "late"
  index,     \* BuildScope's index, counting from 1
  count,     \* BuildScope's dirtyCount
  stack,     \* the performRebuild calls in progress, innermost last
  moved      \* the elements that were retaken in this frame

treeVars == <<parent, life, depth>>
listVars == <<listed, list, resort, scheduled, requested>>
scopeVars == <<phase, index, count, stack, moved>>
vars == <<parent, life, depth, dirty, listed, list, resort, scheduled,
          requested, phase, index, count, stack, moved>>

Active(e) == life[e] = "active"

-----------------------------------------------------------------------------
\* The tree.

\* An element and what it hangs from.
Path(e) == LET up[x \in Elements \cup {None}] ==
                 IF x = None THEN {} ELSE {x} \cup up[parent[x]]
           IN up[e]

IsIn(e, a) == a \in Path(e)
Subtree(a) == {e \in Elements : IsIn(e, a)}
Distance(a, e) == Cardinality(Path(e)) - Cardinality(Path(a))
ChildrenOf(p) == {e \in Elements : parent[e] = p}

\* RunApp has mounted the tree and built all of it.
Init ==
  /\ parent \in Trees
  /\ life = [e \in Elements |->
               IF IsIn(e, Root) THEN "active" ELSE "unmounted"]
  /\ depth = [e \in Elements |->
                IF IsIn(e, Root) THEN Distance(Root, e) + 1 ELSE 0]
  /\ dirty = {} /\ listed = {} /\ list = <<>>
  /\ resort = FALSE /\ scheduled = FALSE /\ requested = FALSE
  /\ phase = "idle" /\ index = 1 /\ count = 0 /\ stack = <<>> /\ moved = {}

-----------------------------------------------------------------------------
\* Marking.

\* The members of S in any order.
Listings(S) == {s \in [1..Cardinality(S) -> S] : IsInjective(s)}

\* Mutant: the list is not sorted.
Unsorted(s, d, D) == {s}

\* sortElements: by depth, clean elements first.  The sort is not stable.
Sortings(s, d, D) ==
  {t \in Listings(Range(s)) :
     \A i, j \in DOMAIN t : i < j =>
       /\ d[t[i]] <= d[t[j]]
       /\ d[t[i]] = d[t[j]] => t[i] \notin D \/ t[j] \in D}

\* scheduleBuildFor of every element of S, each before what hangs from it.
Schedule(S) ==
  LET new == S \ listed
      ask == new # {} /\ phase = "idle" /\ ~scheduled
  IN /\ listed' = listed \cup S
     /\ \E s \in Listings(new) :
          /\ \A i, j \in DOMAIN s : IsIn(s[j], s[i]) => i <= j
          /\ list' = list \o s
     /\ resort' = (resort \/ S \cap listed # {})
     /\ scheduled' = (scheduled \/ ask)
     /\ requested' = (requested \/ ask)

MarkNeedsBuild(e) ==
  /\ Active(e) /\ e \notin dirty
  /\ dirty' = dirty \cup {e}
  /\ Schedule({e})

\* The program marks elements between frames, from frame callbacks, and while
\* an element builds: that element itself or one below it (didChangeDependencies).
\* Only DrawFrame marks the root.
Mark(e) ==
  /\ e # Root
  /\ \/ phase \in {"idle", "callbacks"}
     \/ stack # <<>> /\ IsIn(e, stack[Len(stack)].el)
  /\ MarkNeedsBuild(e)
  /\ UNCHANGED <<treeVars, scopeVars>>

-----------------------------------------------------------------------------
\* A frame.

\* DrawFrame up to the frame callbacks: AttachRootWidget marks the root.  The
\* window also draws frames that were not requested, when it is configured.
DrawFrame ==
  /\ phase = "idle"
  /\ phase' = "callbacks"
  /\ requested' = FALSE
  /\ dirty' = dirty \cup {Root}
  /\ listed' = listed \cup {Root}
  /\ list' = Append(list, Root)
  /\ moved' = {}
  /\ UNCHANGED <<treeVars, resort, scheduled, index, count, stack>>

BuildScope ==
  /\ phase = "callbacks"
  /\ phase' = "scope"
  /\ scheduled' = TRUE
  /\ list' \in Sortings(list, depth, dirty)
  /\ resort' = FALSE
  /\ index' = 1
  /\ count' = Len(list)
  /\ UNCHANGED <<treeVars, dirty, listed, requested, stack, moved>>

NoWalkBack(s, i, D) == i

\* The index after the list was sorted into s: just after the right-most clean
\* element to the left of i.
WalkBack(s, i, D) == 1 + Max({0} \cup {k \in 1..i-1 : s[k] \notin D})

AdvanceOnly(D) == index' = index + 1 /\ UNCHANGED <<list, resort, count>>

\* What BuildScope does after rebuild() returned; D is the dirty set by then.
Advance(D) ==
  IF count < Len(list) \/ resort
  THEN /\ list' \in Sortings(list, depth, D)
       /\ resort' = FALSE
       /\ count' = Len(list)
       /\ index' = WalkBack(list', index + 1, D)
  ELSE index' = index + 1 /\ UNCHANGED <<list, resort, count>>

Frame(e) == [el |-> e, todo |-> ChildrenOf(e)]

\* rebuild, for an element of the list.
Rebuild ==
  /\ phase = "scope" /\ stack = <<>> /\ index <= count
  /\ LET e == list[index] IN
       IF Active(e) /\ e \in dirty
       THEN stack' = <<Frame(e)>> /\ UNCHANGED <<list, resort, count, index>>
       ELSE Advance(dirty) /\ UNCHANGED stack
  /\ UNCHANGED <<treeVars, dirty, listed, scheduled, requested, phase, moved>>

Builds(e) == stack # <<>> /\ stack[Len(stack)].el = e

\* The stack once the build that is executing has dealt with child c.
Done(c) == [stack EXCEPT ![Len(stack)].todo = @ \ {c}]

\* updateChild with a widget that can update the child: forceRebuild.
Update(e, c) ==
  /\ Builds(e) /\ c \in stack[Len(stack)].todo /\ parent[c] = e
  /\ stack' = Append(Done(c), Frame(c))
  /\ UNCHANGED <<treeVars, dirty, listVars, phase, index, count, moved>>

\* deactivateChild: the whole subtree becomes inactive.
Deactivate(e, c) ==
  /\ Builds(e) /\ c \in stack[Len(stack)].todo /\ parent[c] = e
  /\ stack' = Done(c)
  /\ parent' = [parent EXCEPT ![c] = None]
  /\ life' = [x \in Elements |-> IF IsIn(x, c) THEN "inactive" ELSE life[x]]
  /\ UNCHANGED <<depth, dirty, listVars, phase, index, count, moved>>

\* inflateWidget of a new element: mount, which builds it.
Mount(e, c) ==
  /\ Builds(e) /\ life[c] = "unmounted"
  /\ parent' = [parent EXCEPT ![c] = e]
  /\ depth' = [depth EXCEPT ![c] = depth[e] + 1]
  /\ life' = [life EXCEPT ![c] = "active"]
  /\ dirty' = dirty \cup {c}
  /\ stack' = Append(stack, [el |-> c, todo |-> {}])
  /\ UNCHANGED <<listVars, phase, index, count, moved>>

\* updateDepth, when c becomes a child of e.
NewDepth(e, c) ==
  [x \in Elements |-> IF IsIn(x, c)
                      THEN Max({depth[x], depth[e] + 1 + Distance(c, x)})
                      ELSE depth[x]]

\* No two widgets of a tree have the same global key.  So when a build takes c
\* from an active parent, that parent has still to say what its children are.
GivesUp(p, c) ==
  \/ p \notin {e \in Elements : Active(e)}
  \/ p \in dirty \ {stack[i].el : i \in 1..Len(stack)}
  \/ \E i \in 1..Len(stack) : stack[i].el = p /\ c \in stack[i].todo

\* inflateWidget of a widget whose global key names element c, which is inactive
\* or a child of another element: retakeInactiveElement, activateWithParent, and
\* updateChild, with the same widget or a new one.
Retake(e, c) ==
  /\ Builds(e)
  /\ c \in Keyed \ moved /\ life[c] # "unmounted"
  /\ parent[c] # e /\ ~IsIn(e, c) /\ GivesUp(parent[c], c)
  /\ Cardinality((moved \cup Subtree(c)) \cap listed) <= MaxMoves
  /\ parent' = [parent EXCEPT ![c] = e]
  /\ life' = [x \in Elements |-> IF IsIn(x, c) THEN "active" ELSE life[x]]
  /\ depth' = NewDepth(e, c)
  /\ dirty' = dirty \cup Subtree(c)
  /\ Schedule(Subtree(c))
  /\ moved' = moved \cup Subtree(c)
  /\ \/ UNCHANGED stack
     \/ stack' = Append(stack, Frame(c))
  /\ UNCHANGED <<phase, index, count>>

\* performRebuild returns, and with it rebuild or forceRebuild.  The children it
\* has not touched keep their widgets (updateChild with the same widget).
Finish(e) ==
  /\ Builds(e)
  /\ dirty' = dirty \ {e}
  /\ stack' = SubSeq(stack, 1, Len(stack) - 1)
  /\ IF Len(stack) = 1 THEN Advance(dirty \ {e})
                       ELSE UNCHANGED <<list, resort, count, index>>
  /\ UNCHANGED <<treeVars, listed, scheduled, requested, phase, moved>>

EndScopeScheduled ==
  /\ phase = "scope" /\ stack = <<>> /\ index > count
  /\ phase' = "late"
  /\ listed' = {} /\ list' = <<>> /\ resort' = FALSE
  /\ UNCHANGED <<treeVars, dirty, scheduled, requested, index, count, stack, moved>>

\* The end of BuildScope.
EndScope ==
  /\ phase = "scope" /\ stack = <<>> /\ index > count
  /\ phase' = "late"
  /\ listed' = {} /\ list' = <<>> /\ resort' = FALSE /\ scheduled' = FALSE
  /\ UNCHANGED <<treeVars, dirty, requested, index, count, stack, moved>>

\* The rest of DrawFrame: layout and painting, then finalizeTree unmounts what
\* has stayed inactive.
FinalizeTree ==
  /\ phase = "late"
  /\ phase' = "idle"
  /\ LET gone == {e \in Elements : life[e] = "inactive"} IN
       /\ life' = [e \in Elements |-> IF e \in gone THEN "unmounted" ELSE life[e]]
       /\ parent' = [e \in Elements |-> IF e \in gone THEN None ELSE parent[e]]
       /\ depth' = [e \in Elements |-> IF e \in gone THEN 0 ELSE depth[e]]
       /\ dirty' = dirty \ gone
  /\ index' = 1 /\ count' = 0 /\ moved' = {}
  /\ UNCHANGED <<listVars, stack>>

Program == \E e \in Elements : Mark(e)
Build(e) ==
  \/ Finish(e)
  \/ \E c \in Elements :
       Update(e, c) \/ Deactivate(e, c) \/ Mount(e, c) \/ Retake(e, c)
Draw == BuildScope \/ Rebuild \/ EndScope \/ FinalizeTree \/ \E e \in Elements : Build(e)
Next == Program \/ DrawFrame \/ Draw

\* A requested frame is drawn, DrawFrame runs to its end.
Fairness == WF_vars(DrawFrame /\ requested) /\ WF_vars(Draw)

Spec == Init /\ [][Next]_vars /\ Fairness

-----------------------------------------------------------------------------

TypeOK ==
  /\ parent \in [Elements -> Elements \cup {None}]
  /\ life \in [Elements -> {"active", "inactive", "unmounted"}]
  /\ depth \in [Elements -> Nat]
  /\ dirty \subseteq Elements /\ listed \subseteq Elements
  /\ list \in Seq(Elements) /\ IsInjective(list)
  /\ resort \in BOOLEAN /\ scheduled \in BOOLEAN /\ requested \in BOOLEAN
  /\ phase \in {"idle", "callbacks", "scope", "late"}
  /\ index \in Nat \ {0} /\ count \in Nat
  /\ stack \in Seq([el : Elements, todo : SUBSET Elements])
  /\ moved \subseteq Elements

Building == {stack[i].el : i \in 1..Len(stack)}

\* inDirtyList agrees with the list, and an element that waits to be rebuilt is
\* in it: outside a BuildScope, marking an element twice or moving it cannot
\* lose it (MarkNeedsBuild and scheduleBuildFor return early on both flags).
DirtyIsListed ==
  /\ listed = Range(list)
  /\ \A e \in dirty : Active(e) => e \in listed \cup Building

\* base.go:687-693: moving the index left accounts for the elements that moved
\* right in the list, so nothing that must be rebuilt is left of the index.
AccountedFor ==
  phase = "scope" /\ stack = <<>> =>
    \A k \in 1..Len(list) : k < index => ~(Active(list[k]) /\ list[k] \in dirty)

\* When BuildScope returns, no element of the tree needs to be built: layout
\* and painting see a tree that is up to date.
LaidOutTreeIsBuilt == phase = "late" => \A e \in dirty : ~Active(e)

\* Elements are built in the order of their depth, so an element must be deeper
\* than its parent wherever in the tree it has been moved; and what is active is
\* exactly what hangs below the root.
DeeperThanParent ==
  \A e \in Elements :
    /\ Active(e) <=> IsIn(e, Root)
    /\ parent[e] # None => depth[e] > depth[parent[e]]

\* The three together: what BuildScope relies on while it walks the list.
ListIsSound == DirtyIsListed /\ AccountedFor /\ DeeperThanParent

\* Parents are built before their children: BuildScope never rebuilds an
\* element below one that is dirty too, whose build might remove it.
ParentsFirst ==
  [][\A e \in Elements : stack = <<>> /\ stack' # <<>> /\ stack'[1].el = e =>
       \A a \in dirty : IsIn(e, a) => a = e]_vars

\* An element that is marked is rebuilt or leaves the tree: a frame is on its
\* way, and scheduledFlushDirtyElements never suppresses the request for it.
MarkedIsRebuilt ==
  \A e \in Elements : (e \in dirty /\ Active(e)) ~> ~(e \in dirty /\ Active(e))

=============================================================================

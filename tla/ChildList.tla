------------------------------- MODULE ChildList -------------------------------
(***************************************************************************)
(* The children of one element and of its render object: updateChildren and *)
(* updateChild of widget/base.go bring the list of child elements in line   *)
(* with a new list of widgets, and on the way the render objects of the     *)
(* children are inserted and moved in ManyChildren of render/render.go.     *)
(*                                                                         *)
(* A child stands for an element with one render object, its own or that of *)
(* the element an interior element has built.  Slots are positions, counted *)
(* from 1 here and from 0 in the code.  No child has a GlobalKey, and the   *)
(* keys of a list are different.                                           *)
(***************************************************************************)
EXTENDS Integers, Sequences, FiniteSets, SequencesExt

CONSTANTS
  Widgets,    \* the widgets, records of a type and a key
  NoKey,      \* the key of a widget without one
  MaxLength,  \* bound: the length of a list of widgets
  MaxObjects  \* bound: the render objects ever created

ASSUME ChildListAssumption ==
  /\ \A w \in Widgets : DOMAIN w = {"type", "key"}
  /\ {MaxLength, MaxObjects} \subseteq Nat

VARIABLES
  list,     \* the child elements: widget, element and render object of each
  rendered, \* the render object's children
  next,     \* a number for the next element and render object
  grown,    \* so far children have only been added, history
  failed    \* a slice has been indexed out of its range

vars == <<list, rendered, next, grown, failed>>

WidgetLists ==
  {ws \in BoundedSeq(Widgets, MaxLength) :
     \A i, j \in DOMAIN ws : ws[i].key = ws[j].key => ws[i].key = NoKey \/ i = j}

Child(w, n) == [widget |-> w, element |-> n, object |-> n]

\* renderObjectElementAfterMount gives every widget an element, in order.
Init ==
  /\ \E ws \in WidgetLists : list = [i \in DOMAIN ws |-> Child(ws[i], i)]
  /\ rendered = [i \in DOMAIN list |-> i]
  /\ next = Len(list) + 1
  /\ grown = TRUE /\ failed = FALSE

canUpdate(old, new) == old.type = new.type /\ old.key = new.key

----------------------------------------------------------------------------
(* updateChildren: which old child each new widget gets *)

Least(m, n) == IF m < n THEN m ELSE n

\* The length of the longest stretch at the top, and then at the bottom, on
\* which old children can be updated one by one.
Top(ws) ==
  CHOOSE t \in 0..Least(Len(list), Len(ws)) :
    /\ \A i \in 1..t : canUpdate(list[i].widget, ws[i])
    /\ t < Least(Len(list), Len(ws))
         => ~canUpdate(list[t + 1].widget, ws[t + 1])

FromBottom(s, i) == s[Len(s) + 1 - i]

Bottom(ws, top) ==
  LET most == Least(Len(list), Len(ws)) - top
      Fits(i) == canUpdate(FromBottom(list, i).widget, FromBottom(ws, i))
  IN  CHOOSE b \in 0..most :
        /\ \A i \in 1..b : Fits(i)
        /\ b < most => ~Fits(b + 1)

\* Mutant: the middle of the list is not matched by key.
UnkeyedMatches(ws) ==
  LET t == Top(ws)
      b == Bottom(ws, t)
  IN  [i \in DOMAIN ws |->
         IF i <= t THEN {i}
         ELSE IF i > Len(ws) - b THEN {i - Len(ws) + Len(list)}
         ELSE {}]

\* Mutant: there is no bottom of the list, whose children go by key too.
BottomlessMatches(ws) ==
  LET t == Top(ws)
  IN  [i \in DOMAIN ws |->
         IF i <= t THEN {i}
         ELSE {j \in t + 1..Len(list) :
                 ws[i].key # NoKey /\ canUpdate(list[j].widget, ws[i])}]

\* The old child's place, if any, for each new widget: the top and the bottom
\* stay in step, and what is between goes by key.
Matches(ws) ==
  LET t == Top(ws)
      b == Bottom(ws, t)
  IN  [i \in DOMAIN ws |->
         IF i <= t THEN {i}
         ELSE IF i > Len(ws) - b THEN {i - Len(ws) + Len(list)}
         ELSE {j \in t + 1..Len(list) - b :
                 ws[i].key # NoKey /\ canUpdate(list[j].widget, ws[i])}]

----------------------------------------------------------------------------
(* The render object's children *)

\* Mutant: a child goes before the one that has the slot before its own.
InsertedBefore(s, o, slot) == InsertAt(s, IF slot = 1 THEN 1 ELSE slot - 1, o)

\* PerformInsertChild, after the child with the slot before; a shorter list is
\* filled up to one child too few, and the insertion is then out of range.
Inserted(s, o, slot) == InsertAt(s, slot, o)
InsertFails(s, slot) == Len(s) < slot - 1

\* Mutant: a child that moves is inserted and not deleted.
Copied(s, o, slot) == InsertAt(s, slot, o)

PlaceOf(s, o) == CHOOSE p \in DOMAIN s : s[p] = o

\* PerformMoveChild.
Moved(s, o, slot) ==
  LET p == PlaceOf(s, o)
  IN  CASE p = slot - 1 -> s
        [] p < slot - 1 -> InsertAt(RemoveAt(s, p), slot - 1, o)
        [] OTHER -> InsertAt(RemoveAt(s, p), slot, o)
MoveFails(s, slot) == slot - 1 > Len(s)

\* What remains of a render object's children when one of them leaves: all of
\* them, because detachRenderObject looks for performDetachRenderObject, which
\* no element has.
Detached(s, gone) == s

\* updateChild for the child that gets the slot: an old one is moved if its
\* slot changes, a new one is inflated and its render object attached.
Placed(r, child, old, slot) ==
  IF old = {}
    THEN IF InsertFails(r.rendered, slot) THEN [r EXCEPT !.failed = TRUE]
         ELSE [r EXCEPT !.rendered = Inserted(r.rendered, child.object, slot)]
  ELSE IF old = {slot} THEN r
  ELSE IF MoveFails(r.rendered, slot) THEN [r EXCEPT !.failed = TRUE]
       ELSE [r EXCEPT !.rendered = Moved(r.rendered, child.object, slot)]

----------------------------------------------------------------------------
(* The actions *)

\* The places of the new widgets that no old child gets, and of the old
\* children that get no new widget, given the matches.
Fresh(old) == {i \in DOMAIN old : old[i] = {}}
Gone(old) == DOMAIN list \ UNION {old[i] : i \in DOMAIN old}

\* An old child keeps its element and is updated, a new one is inflated.
Updated(ws, old) ==
  [i \in DOMAIN ws |->
     IF old[i] = {}
       THEN Child(ws[i], next + Cardinality({j \in Fresh(old) : j < i}))
       ELSE [list[CHOOSE j \in old[i] : TRUE] EXCEPT !.widget = ws[i]]]

\* The render object's children after the children have got their slots, from
\* the first to the last.
PlacedAll(child, old) ==
  LET placed[i \in 0..Len(child)] ==
        IF i = 0
          THEN [rendered |-> Detached(rendered, Gone(old)), failed |-> FALSE]
          ELSE Placed(placed[i - 1], child[i], old[i], i)
  IN  placed[Len(child)]

\* The element is given a widget with the children ws.
UpdateChildren(ws) ==
  LET old == Matches(ws)
      placed == PlacedAll(Updated(ws, old), old)
      fresh == Cardinality(Fresh(old))
  IN  /\ next + fresh - 1 <= MaxObjects
      /\ list' = Updated(ws, old)
      /\ rendered' = placed.rendered /\ failed' = placed.failed
      /\ next' = next + fresh
      /\ grown' = (grown /\ Gone(old) = {}
                   /\ \A i, j \in DOMAIN ws \ Fresh(old) : i < j =>
                        \A p \in old[i], q \in old[j] : p < q)

\* An interior element below builds a widget of another type: the element it
\* had built goes, and the new one's render object is attached at the slot.
RebuildChild(i) ==
  /\ next <= MaxObjects
  /\ list' = [list EXCEPT ![i].object = next]
  /\ failed' = InsertFails(rendered, i)
  /\ rendered' = Inserted(Detached(rendered, {i}), next, i)
  /\ next' = next + 1
  /\ grown' = FALSE

Next ==
  /\ ~failed
  /\ \/ \E ws \in WidgetLists : UpdateChildren(ws)
     \/ \E i \in DOMAIN list : RebuildChild(i)

Spec == Init /\ [][Next]_vars

----------------------------------------------------------------------------
(* Properties *)

Objects == [i \in DOMAIN list |-> list[i].object]
Elements == {list[i].element : i \in DOMAIN list}

\* Inserting and moving never reach beyond the list of render objects, and
\* every child's render object is in that list exactly once.
ChildrenRendered ==
  /\ ~failed
  /\ \A i \in DOMAIN list :
       Cardinality({p \in DOMAIN rendered : rendered[p] = list[i].object}) = 1

\* As long as children are only added, wherever in the list and whichever old
\* ones an update keeps, the render objects are in the order of the elements.
AdditionsKeepOrder == grown => rendered = Objects

\* "If a widget with a key is in both lists, it will be synced" (base.go:1028):
\* the child that has the key, and its type, keeps its element and its state.
KeysKeepElements ==
  [][\A i \in DOMAIN list, j \in DOMAIN list' :
       /\ list[i].widget.key # NoKey
       /\ canUpdate(list[i].widget, list'[j].widget)
       => list[i].element = list'[j].element]_vars

\* "There is an insertion or removal of one or more widgets in only one place"
\* (base.go:1026): then the other children keep their elements, keys or no.
OnePlaceChange(old, new) ==
  \E t \in 0..Least(Len(old), Len(new)) :
    LET b == Least(Len(old), Len(new)) - t
    IN  /\ \A i \in 1..t : canUpdate(old[i].widget, new[i].widget)
        /\ \A i \in 1..b :
             canUpdate(FromBottom(old, i).widget, FromBottom(new, i).widget)

OnePlaceChangeKeepsTheRest ==
  [][OnePlaceChange(list, list') =>
       Cardinality(Elements \cap {list'[i].element : i \in DOMAIN list'})
         = Least(Len(list), Len(list'))]_vars

=============================================================================

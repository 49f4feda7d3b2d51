---------------------------- MODULE WindowBuffers ----------------------------
(***************************************************************************)
(* The buffers a window draws into: NextBuffer, Present, SetSize and the    *)
(* release of a buffer (wsi/wsi.go), used by the RedrawRequested and Resized *)
(* handlers of application/app.go.  A buffer is memory shared with the       *)
(* compositor, which reads it from Present until it releases it.            *)
(*                                                                         *)
(* The window keeps its buffers in a slice and takes the first that is not  *)
(* busy; their order is left out.                                           *)
(***************************************************************************)
EXTENDS FiniteSets

CONSTANTS
  Buffers,  \* names of buffers; the name of a destroyed buffer is used again
  None,     \* no buffer
  Sizes     \* physical sizes

ASSUME WindowBuffersAssumption == None \notin Buffers /\ Sizes # {}

VARIABLES
  size,           \* PhysicalSize()
  needNewBuffers,
  buffers,        \* WaylandWindow.buffers
  bufferSize,     \* Buffer.size, meaningful for the window's buffers
  busy,           \* the buffers with Buffer.busy
  drawing,        \* the buffer the application is rendering into
  held,           \* the buffers the compositor may read
  released        \* buffers whose release event is on its way

bufferVars == <<size, needNewBuffers, buffers, bufferSize, busy, drawing, held, released>>

BuffersInit ==
  /\ size \in Sizes
  /\ needNewBuffers = TRUE
  /\ buffers = {} /\ busy = {} /\ drawing = None
  /\ bufferSize \in [Buffers -> Sizes]
  /\ held = {} /\ released = {}

\* SetSize, which every Resized event makes the application call.
SetSize(s) ==
  /\ drawing = None
  /\ size' = s
  /\ needNewBuffers' = TRUE
  /\ UNCHANGED <<buffers, bufferSize, busy, drawing, held, released>>

KeptFitting == {b \in buffers : bufferSize[b] = size}

\* The buffers that survive the beginning of NextBuffer.
Kept == IF needNewBuffers
        THEN {b \in buffers : b \in busy \/ bufferSize[b] = size}
        ELSE buffers

\* NextBuffer, when the application handles RedrawRequested: a buffer that is
\* not busy, or else a new one.
NextBuffer(b) ==
  /\ drawing = None
  /\ needNewBuffers' = FALSE
  /\ \/ /\ b \in Kept \ busy
        /\ buffers' = Kept
        /\ UNCHANGED bufferSize
     \/ /\ Kept \subseteq busy
        /\ b \notin Kept
        /\ buffers' = Kept \cup {b}
        /\ bufferSize' = [bufferSize EXCEPT ![b] = size]
  /\ drawing' = b
  /\ UNCHANGED <<size, busy, held, released>>

PresentIdle ==
  /\ drawing # None
  /\ drawing' = None
  /\ held' = held \cup {drawing}
  /\ UNCHANGED <<size, needNewBuffers, buffers, bufferSize, busy, released>>

\* Present, at the end of that handler.
Present ==
  /\ drawing # None
  /\ drawing' = None
  /\ busy' = busy \cup {drawing}
  /\ held' = held \cup {drawing}
  /\ UNCHANGED <<size, needNewBuffers, buffers, bufferSize, released>>

\* The compositor is done with a buffer.
Release(b) ==
  /\ b \in held
  /\ held' = held \ {b}
  /\ released' = released \cup {b}
  /\ UNCHANGED <<size, needNewBuffers, buffers, bufferSize, busy, drawing>>

\* OnRelease, dispatched by the event loop between two handlers.
OnRelease(b) ==
  /\ b \in released /\ drawing = None
  /\ released' = released \ {b}
  /\ busy' = busy \ {b}
  /\ UNCHANGED <<size, needNewBuffers, buffers, bufferSize, drawing, held>>

BuffersNext ==
  \/ \E s \in Sizes : SetSize(s)
  \/ Present
  \/ \E b \in Buffers : NextBuffer(b) \/ Release(b) \/ OnRelease(b)

BuffersSpec == BuffersInit /\ [][BuffersNext]_bufferVars

-----------------------------------------------------------------------------

BuffersTypeOK ==
  /\ size \in Sizes /\ needNewBuffers \in BOOLEAN
  /\ buffers \subseteq Buffers
  /\ bufferSize \in [Buffers -> Sizes]
  /\ busy \subseteq buffers
  /\ drawing \in Buffers \cup {None}
  /\ held \subseteq Buffers /\ released \subseteq Buffers

\* The application never renders into memory the compositor may still read.
DrawsIntoFreeBuffer == drawing \notin held

\* Memory the compositor may read is never unmapped: its buffers stay buffers of
\* the window, across every change of the size.
HeldIsMapped == held \subseteq buffers

\* A buffer is busy exactly from Present to the dispatch of its release event, and
\* only once: the event of an earlier Present cannot free a later one.
BusyIsOwed ==
  /\ busy = held \cup released
  /\ held \cap released = {}

\* The first frame after a change of the size is drawn into a buffer of that size.
FirstFrameFits ==
  [][drawing = None /\ drawing' # None /\ needNewBuffers
       => bufferSize'[drawing'] = size]_bufferVars

=============================================================================

------------------------------- MODULE EventLoop -------------------------------
(***************************************************************************)
(* System.Run of wsi/wsi.go: the event loop, the goroutine that polls the    *)
(* Wayland connection for it, the goroutines that request frames and emit   *)
(* user events, and the compositor at the other end of the connection.      *)
(*                                                                         *)
(* A request is the name of a window, for the frame callback it asks for,   *)
(* or Sync; other requests need no answer and are left out.  The answer to  *)
(* a request is an event of the same name.                                  *)
(***************************************************************************)
EXTENDS Integers, Sequences, FiniteSets, SequencesExt

CONSTANTS
  Windows,       \* the windows
  Sync,          \* the wl_display.sync request Run makes to shut down
  MaxConfigures, \* bound: size changes the compositor asks for
  Stalls,        \* may the connection accept only part of a flush (EAGAIN)?
  Hangups        \* may the compositor close the connection, or poll fail?

\* The event that tells a window of a new size.
Configure(w) == <<"configure", w>>

ASSUME EventLoopAssumption ==
  /\ Sync \notin Windows
  /\ \A w \in Windows : Configure(w) \notin Windows \cup {Sync}
  /\ MaxConfigures \in Nat
  /\ Stalls \in BOOLEAN /\ Hangups \in BOOLEAN

VARIABLES
  pc,             \* where Run is
  frames,         \* System.requestedFrames
  token,          \* the requestedFrame channel holds a value
  event,          \* the userEvents channel holds an event
  frameScheduled, \* the windows with WaylandWindow.frameScheduled
  out,            \* requests libwayland has buffered, not flushed
  sent,           \* requests on their way to the compositor
  callbacks,      \* frame callbacks the compositor owes
  in,             \* events on their way to the client
  queue,          \* events read, not yet dispatched
  armed,          \* POLLOUT is in fds[0].Events
  poller,         \* the polling goroutine: "poll", "result", "wait", "failed"
  revents,        \* fds[0].Revents, of {"in", "out"}
  cancelled,      \* the context was cancelled
  quitting, stopWriting, synced,
  closed,         \* the compositor has closed the connection
  configures      \* size changes so far

appVars == <<frames, token>>
wireVars == <<sent, callbacks, in, closed, configures>>
pollVars == <<armed, poller, revents>>
quitVars == <<cancelled, quitting, stopWriting, synced>>
vars == <<pc, frames, token, event, frameScheduled, out, sent, callbacks, in,
          queue, armed, poller, revents, cancelled, quitting, stopWriting,
          synced, closed, configures>>

Events == Windows \cup {Sync} \cup {Configure(w) : w \in Windows}
Returned == {"cancelled", "timed out", "error"}

Init ==
  /\ pc = "select"
  /\ frames = {} /\ token = FALSE /\ event = FALSE /\ frameScheduled = {}
  /\ out = <<>> /\ sent = <<>> /\ callbacks = {} /\ in = <<>> /\ queue = <<>>
  /\ armed = TRUE /\ poller = "poll" /\ revents = {}
  /\ cancelled = FALSE /\ quitting = FALSE /\ stopWriting = FALSE /\ synced = FALSE
  /\ closed = FALSE /\ configures = 0

-----------------------------------------------------------------------------
\* The program: handlers and other goroutines.

RequestWhenIdle(w) ==
  /\ frames' = frames \cup {w}
  /\ token' = (token \/ pc = "select")
  /\ UNCHANGED <<pc, event, frameScheduled, out, queue, wireVars, pollVars, quitVars>>

\* RequestFrame, from any goroutine; mu makes it atomic.
RequestFrame(w) ==
  /\ frames' = frames \cup {w}
  /\ token' = TRUE
  /\ UNCHANGED <<pc, event, frameScheduled, out, queue, wireVars, pollVars, quitVars>>

\* EmitEvent, from a goroutine that is blocked until there is room.
EmitEvent ==
  /\ ~event
  /\ event' = TRUE
  /\ UNCHANGED <<pc, appVars, frameScheduled, out, queue, wireVars, pollVars, quitVars>>

Cancel ==
  /\ ~cancelled
  /\ cancelled' = TRUE
  /\ UNCHANGED <<pc, appVars, event, frameScheduled, out, queue, wireVars, pollVars,
                 quitting, stopWriting, synced>>

-----------------------------------------------------------------------------
\* The compositor.

Receive ==
  /\ sent # <<>> /\ ~closed
  /\ sent' = Tail(sent)
  /\ IF Head(sent) = Sync
     THEN in' = Append(in, Sync) /\ UNCHANGED callbacks
     ELSE callbacks' = callbacks \cup {Head(sent)} /\ UNCHANGED in
  /\ UNCHANGED <<pc, appVars, event, frameScheduled, out, queue, pollVars, quitVars,
                 closed, configures>>

FrameDone(w) ==
  /\ w \in callbacks /\ ~closed
  /\ callbacks' = callbacks \ {w}
  /\ in' = Append(in, w)
  /\ UNCHANGED <<pc, appVars, event, frameScheduled, out, queue, pollVars, quitVars,
                 sent, closed, configures>>

Resize(w) ==
  /\ configures < MaxConfigures /\ ~closed
  /\ configures' = configures + 1
  /\ in' = Append(in, Configure(w))
  /\ UNCHANGED <<pc, appVars, event, frameScheduled, out, queue, pollVars, quitVars,
                 sent, callbacks, closed>>

Close ==
  /\ Hangups /\ ~closed
  /\ closed' = TRUE
  /\ sent' = <<>> /\ callbacks' = {}
  /\ UNCHANGED <<pc, appVars, event, frameScheduled, out, queue, pollVars, quitVars,
                 in, configures>>

-----------------------------------------------------------------------------
\* The polling goroutine.

\* poll returns: input is ready when there are events or the connection is
\* closed, output when POLLOUT is armed and the connection has room.
PollReturns ==
  /\ poller = "poll"
  /\ \E r \in SUBSET {"in", "out"} :
       /\ r # {}
       /\ "in" \in r <=> in # <<>> \/ closed
       /\ "out" \in r => armed
       /\ revents' = r
  /\ poller' = "result"
  /\ UNCHANGED <<pc, appVars, event, frameScheduled, out, queue, wireVars, quitVars, armed>>

PollFails ==
  /\ Hangups /\ poller = "poll"
  /\ poller' = "failed"
  /\ UNCHANGED <<pc, appVars, event, frameScheduled, out, queue, wireVars, quitVars,
                 armed, revents>>

-----------------------------------------------------------------------------
\* The event loop.

\* The first k buffered requests leave for the compositor.
Flushed(k) ==
  /\ out' = SubSeq(out, k + 1, Len(out))
  /\ sent' = sent \o SubSeq(out, 1, k)

\* wl_display_flush: how many requests it may write.
Flushes == IF closed THEN {0}
           ELSE IF Stalls THEN 0..Len(out) ELSE {Len(out)}

ReturnPollError ==
  /\ pc = "select" /\ poller = "failed"
  /\ pc' = "error"
  /\ UNCHANGED <<appVars, event, frameScheduled, out, queue, wireVars, pollVars, quitVars>>

TakeResult ==
  /\ pc = "select" /\ poller = "result"
  /\ poller' = "wait"
  /\ pc' = IF "in" \in revents THEN "read" ELSE "flush"
  /\ UNCHANGED <<appVars, event, frameScheduled, out, queue, wireVars, quitVars,
                 armed, revents>>

\* ReadEvents.
Read ==
  /\ pc = "read"
  /\ IF in = <<>>
     THEN pc' = IF quitting THEN "cancelled" ELSE "error"
     ELSE pc' = "dispatch"
  /\ queue' = in
  /\ in' = <<>>
  /\ UNCHANGED <<appVars, event, frameScheduled, out, sent, callbacks, closed,
                 configures, pollVars, quitVars>>

\* requestFrameNow, for every window of W that is not waiting for a frame.
RequestNow(W) ==
  /\ frameScheduled' = frameScheduled \cup W
  /\ out' = out \o SetToSeq(W \ frameScheduled)

DispatchSilently ==
  /\ pc = "dispatch" /\ queue # <<>> /\ Head(queue) \in Windows
  /\ queue' = Tail(queue)
  /\ UNCHANGED <<pc, appVars, event, frameScheduled, out, wireVars, pollVars, quitVars>>

\* onFrame, and the redraw it causes.
DispatchFrame ==
  /\ pc = "dispatch" /\ queue # <<>> /\ Head(queue) \in Windows
  /\ queue' = Tail(queue)
  /\ frameScheduled' = frameScheduled \ {Head(queue)}
  /\ UNCHANGED <<pc, appVars, event, out, wireVars, pollVars, quitVars>>

DispatchSync ==
  /\ pc = "dispatch" /\ queue # <<>> /\ Head(queue) = Sync
  /\ queue' = Tail(queue)
  /\ synced' = TRUE
  /\ UNCHANGED <<pc, appVars, event, frameScheduled, out, wireVars, pollVars,
                 cancelled, quitting, stopWriting>>

\* OnConfigure with a new size: requests a frame at once and flushes it, whatever
\* the flush returns.
DispatchConfigure ==
  /\ pc = "dispatch"
  /\ \E w \in Windows :
       /\ queue # <<>> /\ Head(queue) = Configure(w)
       /\ RequestNow({w})
  /\ queue' = Tail(queue)
  /\ pc' = "flushConfigure"
  /\ UNCHANGED <<appVars, event, wireVars, pollVars, quitVars>>

FlushConfigure ==
  /\ pc = "flushConfigure"
  /\ \E k \in Flushes : Flushed(k)
  /\ pc' = "dispatch"
  /\ UNCHANGED <<appVars, event, frameScheduled, queue, callbacks, in, closed,
                 configures, pollVars, quitVars>>

DispatchedOnly ==
  /\ pc = "dispatch" /\ queue = <<>>
  /\ pc' = "select"
  /\ UNCHANGED <<appVars, event, frameScheduled, out, queue, wireVars, pollVars, quitVars>>

Dispatched ==
  /\ pc = "dispatch" /\ queue = <<>>
  /\ pc' = "flush"
  /\ UNCHANGED <<appVars, event, frameScheduled, out, queue, wireVars, pollVars, quitVars>>

TriggerOrQuit ==
  /\ poller' = "poll"
  /\ pc' = IF quitting THEN "cancelled" ELSE "select"

\* Start the next round of polling, or leave the loop.
Trigger ==
  /\ poller' = "poll"
  /\ pc' = IF synced THEN "cancelled" ELSE "select"

\* The flush after events were handled or the connection has room again: EPIPE,
\* success, or EAGAIN.
Flush ==
  /\ pc = "flush" /\ ~stopWriting
  /\ \E k \in Flushes :
       /\ Flushed(k)
       /\ armed' = (~closed /\ k < Len(out))
       /\ stopWriting' = (closed \/ (k = Len(out) /\ quitting))
  /\ Trigger
  /\ UNCHANGED <<appVars, event, frameScheduled, queue, callbacks, in, closed,
                 configures, revents, cancelled, quitting, synced>>

SkipFlush ==
  /\ pc = "flush" /\ stopWriting
  /\ Trigger
  /\ UNCHANGED <<appVars, event, frameScheduled, out, queue, wireVars, armed, revents,
                 quitVars>>

\* ctx.Done() is ready.
Quit ==
  /\ pc = "select" /\ cancelled /\ ~quitting
  /\ quitting' = TRUE
  /\ out' = Append(out, Sync)
  /\ UNCHANGED <<pc, appVars, event, frameScheduled, queue, wireVars, pollVars,
                 cancelled, stopWriting, synced>>

TimeoutOnceWritten ==
  /\ pc = "select" /\ stopWriting
  /\ pc' = "timed out"
  /\ UNCHANGED <<appVars, event, frameScheduled, out, queue, wireVars, pollVars, quitVars>>

\* quitTimeout has passed since Quit.
Timeout ==
  /\ pc = "select" /\ quitting
  /\ pc' = "timed out"
  /\ UNCHANGED <<appVars, event, frameScheduled, out, queue, wireVars, pollVars, quitVars>>

\* requestedFrame is ready: take the value, then the lock.
TakeToken ==
  /\ pc = "select" /\ token
  /\ token' = FALSE
  /\ pc' = "frames"
  /\ UNCHANGED <<frames, event, frameScheduled, out, queue, wireVars, pollVars, quitVars>>

ServeFrames ==
  /\ pc = "frames"
  /\ RequestNow(frames)
  /\ frames' = {}
  /\ pc' = "flushFrames"
  /\ UNCHANGED <<token, event, queue, wireVars, pollVars, quitVars>>

FlushFrames ==
  /\ pc = "flushFrames"
  /\ \E k \in Flushes : Flushed(k)
  /\ pc' = "select"
  /\ UNCHANGED <<appVars, event, frameScheduled, queue, callbacks, in, closed,
                 configures, pollVars, quitVars>>

HandleEvent ==
  /\ pc = "select" /\ event
  /\ event' = FALSE
  /\ UNCHANGED <<pc, appVars, frameScheduled, out, queue, wireVars, pollVars, quitVars>>

Handle ==
  \/ Read \/ DispatchFrame \/ DispatchSync \/ DispatchConfigure \/ FlushConfigure
  \/ Dispatched \/ Flush \/ SkipFlush \/ ServeFrames \/ FlushFrames
Select == ReturnPollError \/ TakeResult \/ Quit \/ Timeout \/ TakeToken \/ HandleEvent
Poll == PollReturns \/ PollFails
Compositor == Receive \/ Close \/ \E w \in Windows : FrameDone(w) \/ Resize(w)
Program == EmitEvent \/ Cancel \/ \E w \in Windows : RequestFrame(w)
Next == Handle \/ Select \/ Poll \/ Compositor \/ Program

\* The goroutines run.  A Go select picks uniformly among the cases that are
\* ready, so none is passed over for ever; ten seconds pass.  The compositor
\* reads its connection and shows the windows.
Progress ==
  /\ WF_vars(Handle) /\ WF_vars(PollReturns)
  /\ SF_vars(TakeResult) /\ SF_vars(TakeToken) /\ SF_vars(HandleEvent)
  /\ SF_vars(Quit) /\ SF_vars(ReturnPollError) /\ SF_vars(Timeout)
  /\ WF_vars(Receive) /\ \A w \in Windows : WF_vars(FrameDone(w))

Spec == Init /\ [][Next]_vars /\ Progress

-----------------------------------------------------------------------------

TypeOK ==
  /\ pc \in {"select", "read", "dispatch", "flushConfigure", "flush", "frames",
             "flushFrames"} \cup Returned
  /\ frames \subseteq Windows /\ frameScheduled \subseteq Windows
  /\ callbacks \subseteq Windows
  /\ out \in Seq(Windows \cup {Sync}) /\ IsInjective(out)
  /\ sent \in Seq(Windows \cup {Sync})
  /\ in \in Seq(Events) /\ queue \in Seq(Events)
  /\ poller \in {"poll", "result", "wait", "failed"}
  /\ revents \subseteq {"in", "out"}
  /\ {token, event, armed, cancelled, quitting, stopWriting, synced, closed}
       \subseteq BOOLEAN
  /\ configures \in 0..MaxConfigures

\* A frame that was requested is noticed: the loop is told of it, or has taken
\* the token and not yet looked at the set (the order of the token and the lock
\* in wsi.go:416-422 and 464-472).
RequestIsAnnounced == frames # {} => token \/ pc = "frames"

\* frameScheduled is set exactly as long as a frame callback is outstanding, and
\* there is one at a time (wsi.go:707-709), whatever flush wrote.
OneCallback ==
  ~closed =>
  \A w \in Windows :
    LET on(s) == Cardinality({i \in 1..Len(s) : s[i] = w}) IN
    on(out) + on(sent) + on(in) + on(queue) + (IF w \in callbacks THEN 1 ELSE 0)
      = IF w \in frameScheduled THEN 1 ELSE 0

\* The polling goroutine touches fds only while the event loop does not: between
\* a result and the trigger the loop owns it.
PollsInTurn ==
  pc \notin Returned =>
    (pc \in {"read", "dispatch", "flushConfigure", "flush"} <=> poller = "wait")

\* Run ends without an error only when it was cancelled, and then the compositor
\* has received everything that was written before the sync request.
CleanEnd ==
  pc = "cancelled" => cancelled /\ (~closed => synced /\ Sync \notin Range(out))

\* A requested frame is drawn, unless Run ends, or the connection stalls and no
\* event arrives for which the rest would be flushed: FlushFrames ignores that
\* something is left (wsi.go:240-243, 423).
FrameIsDrawn ==
  \A w \in Windows :
    w \in frames ~> \/ pc = "dispatch" /\ queue # <<>> /\ Head(queue) = w
                    \/ pc \in Returned
                    \/ [](w \in Range(out))

\* Run ends once its context is cancelled.
RunReturns == cancelled ~> pc \in Returned

=============================================================================

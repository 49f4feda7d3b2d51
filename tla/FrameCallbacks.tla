---------------------------- MODULE FrameCallbacks ----------------------------
(***************************************************************************)
(* Tickers and the frame callbacks that drive them: PlainTicker of          *)
(* animation/ticker.go on top of ScheduleFrameCallback, CancelFrameCallback *)
(* and RunFrameCallbacks of render/pipeline.go and the double buffer of     *)
(* mem/mem.go.                                                             *)
(*                                                                         *)
(* All of it runs on the event loop's goroutine.  The program operates on   *)
(* tickers between frames and from within the OnTick callback of any        *)
(* ticker, which is where the interesting orders come from.                 *)
(***************************************************************************)
EXTENDS Integers, Sequences

CONSTANTS
  Tickers,      \* the tickers of the program
  None,         \* neither a ticker nor a callback
  MaxCallbacks, \* bound: callbacks in the list before the program adds one
  Generations,  \* number of values of the generation counter (2^32)
  Times,        \* number of values of a frame's millisecond timestamp (2^32)
  CancelDue     \* may a callback stop or mute a ticker whose own callback is
                \* still due in the same frame?

ASSUME FrameCallbacksAssumption ==
  /\ None \notin Tickers
  /\ MaxCallbacks \in Nat
  /\ Generations \in Nat \ {0}
  /\ Times \in Nat \ {0}
  /\ CancelDue \in BOOLEAN

VARIABLES
  active, muted, \* PlainTicker.active and .muted
  id,            \* PlainTicker.animationID
  start,         \* PlainTicker.startTime, 0 when not set
  front,         \* nextFrameCallbacks.Front: tickers, None once cancelled
  gen,           \* nextFrameCallbacks.Generation
  due,           \* what RunFrameCallbacks has still to call
  phase,         \* "idle", "running" callbacks, in a "tick", or "panicked"
  cur,           \* the ticker whose OnTick is executing
  requested,     \* a frame has been requested (RequestVisualUpdate)
  now,           \* the time of the frame
  ticks          \* how often each ticker has ticked in this frame

tickerVars == <<active, muted, id, start>>
frameVars == <<phase, cur, due, now, ticks>>
callbackVars == <<active, muted, id, start, front, gen, due, phase, cur, requested,
                  now, ticks>>

NoId == [gen |-> 0, idx |-> 0]
Ids == [gen : 0..Generations - 1, idx : Nat \ {0}]

TickersInit ==
  /\ active = [t \in Tickers |-> FALSE]
  /\ muted = [t \in Tickers |-> FALSE]
  /\ id = [t \in Tickers |-> NoId]
  /\ start = [t \in Tickers |-> 0]
  /\ front = <<>> /\ gen = 0
  /\ due = <<>> /\ phase = "idle" /\ cur = None
  /\ requested = FALSE /\ now = 0
  /\ ticks = [t \in Tickers |-> 0]

-----------------------------------------------------------------------------

Ticking(t) == active[t] /\ ~muted[t]
Scheduled(t) == id[t] # NoId

\* ScheduleFrameCallback, called by scheduleTick.
ScheduleTick(t) ==
  /\ front' = Append(front, t)
  /\ id' = [id EXCEPT ![t] = [gen |-> gen, idx |-> Len(front) + 1]]
  /\ requested' = TRUE

\* CancelFrameCallback: an identifier of another generation is ignored.
Cancelled(i) ==
  IF i.gen = gen /\ i.idx \in 1..Len(front)
  THEN [front EXCEPT ![i.idx] = None]
  ELSE front

UnscheduleTickLocally(t) ==
  /\ id' = [id EXCEPT ![t] = NoId]
  /\ UNCHANGED <<front, requested>>

UnscheduleTick(t) ==
  /\ front' = IF Scheduled(t) THEN Cancelled(id[t]) ELSE front
  /\ id' = [id EXCEPT ![t] = NoId]
  /\ UNCHANGED requested

\* The program runs between frames and inside an OnTick callback.
ProgramRuns == phase \in {"idle", "tick"} /\ Len(front) < MaxCallbacks

\* A callback of t is still to run in this frame, or runs in the next one.
IsDue(t) == \E i \in 1..Len(due) : due[i] = t
IsNext(t) == \E i \in 1..Len(front) : front[i] = t

MayCancel(t) == CancelDue \/ ~IsDue(t)

StartTicker(t) ==
  /\ ProgramRuns
  /\ ~active[t]     \* asserted
  /\ active' = [active EXCEPT ![t] = TRUE]
  /\ start' = [start EXCEPT ![t] = 0]
  /\ IF ~muted[t] /\ ~Scheduled(t)
     THEN ScheduleTick(t)
     ELSE UNCHANGED <<front, id, requested>>
  /\ UNCHANGED <<muted, gen, frameVars>>

StopUncancelled(t) ==
  /\ ProgramRuns
  /\ active[t]
  /\ active' = [active EXCEPT ![t] = FALSE]
  /\ UNCHANGED <<muted, id, start, front, gen, requested, frameVars>>

\* Stop and Dispose; a ticker that is not active is left alone.
StopTicker(t) ==
  /\ ProgramRuns
  /\ active[t] /\ MayCancel(t)
  /\ active' = [active EXCEPT ![t] = FALSE]
  /\ UnscheduleTick(t)
  /\ UNCHANGED <<muted, start, gen, frameVars>>

Mute(t) ==
  /\ ProgramRuns
  /\ ~muted[t] /\ MayCancel(t)
  /\ muted' = [muted EXCEPT ![t] = TRUE]
  /\ UnscheduleTick(t)
  /\ UNCHANGED <<active, start, gen, frameVars>>

UnmuteOnly(t) ==
  /\ ProgramRuns
  /\ muted[t]
  /\ muted' = [muted EXCEPT ![t] = FALSE]
  /\ UNCHANGED <<active, id, start, front, gen, requested, frameVars>>

Unmute(t) ==
  /\ ProgramRuns
  /\ muted[t]
  /\ muted' = [muted EXCEPT ![t] = FALSE]
  /\ IF active[t] /\ ~Scheduled(t)
     THEN ScheduleTick(t)
     ELSE UNCHANGED <<front, id, requested>>
  /\ UNCHANGED <<active, start, gen, frameVars>>

\* RunFrameCallbacks: the buffers are swapped before the first callback runs.
\* A frame that nothing requested is drawn too, when the window is configured.
RunFrameCallbacks ==
  /\ phase = "idle"
  /\ due' = front
  /\ front' = <<>>
  /\ gen' = (gen + 1) % Generations
  /\ phase' = "running"
  /\ requested' = FALSE
  /\ now' = (now + 1) % Times
  /\ ticks' = [t \in Tickers |-> 0]
  /\ UNCHANGED <<tickerVars, cur>>

SkipCancelled ==
  /\ phase = "running"
  /\ due # <<>> /\ Head(due) = None
  /\ due' = Tail(due)
  /\ UNCHANGED <<tickerVars, front, gen, phase, cur, requested, now, ticks>>

\* tick, up to the call of OnTick.
BeginTick ==
  /\ phase = "running"
  /\ due # <<>> /\ Head(due) # None
  /\ LET t == Head(due) IN
       IF ~Ticking(t) \/ ~Scheduled(t)   \* asserted
       THEN phase' = "panicked" /\ UNCHANGED <<id, start, cur, due, ticks>>
       ELSE /\ phase' = "tick"
            /\ cur' = t
            /\ due' = Tail(due)
            /\ id' = [id EXCEPT ![t] = NoId]
            /\ start' = [start EXCEPT ![t] = IF @ = 0 THEN now ELSE @]
            /\ ticks' = [ticks EXCEPT ![t] = @ + 1]
  /\ UNCHANGED <<active, muted, front, gen, requested, now>>

EndTickNow ==
  /\ phase = "tick"
  /\ phase' = "running"
  /\ cur' = None
  /\ IF Ticking(cur) /\ ~Scheduled(cur)
     THEN /\ due' = Append(due, cur)
          /\ id' = [id EXCEPT ![cur] = [gen |-> gen, idx |-> Len(due) + 1]]
     ELSE UNCHANGED <<due, id>>
  /\ UNCHANGED <<active, muted, start, front, gen, requested, now, ticks>>

EndTickNever ==
  /\ phase = "tick"
  /\ phase' = "running"
  /\ cur' = None
  /\ UNCHANGED <<active, muted, id, start, front, gen, due, requested, now, ticks>>

\* tick, after OnTick has returned.
EndTick ==
  /\ phase = "tick"
  /\ phase' = "running"
  /\ cur' = None
  /\ IF Ticking(cur) /\ ~Scheduled(cur)
     THEN ScheduleTick(cur)
     ELSE UNCHANGED <<front, id, requested>>
  /\ UNCHANGED <<active, muted, start, gen, due, now, ticks>>

EndFrame ==
  /\ phase = "running"
  /\ due = <<>>
  /\ phase' = "idle"
  /\ UNCHANGED <<tickerVars, front, gen, due, cur, requested, now, ticks>>

Program == \E t \in Tickers : StartTicker(t) \/ StopTicker(t) \/ Mute(t) \/ Unmute(t)
Frame == RunFrameCallbacks \/ SkipCancelled \/ BeginTick \/ EndTick \/ EndFrame
TickersNext == Program \/ Frame

\* A requested frame is eventually drawn by the event loop, which then runs to
\* completion: callbacks return.  Nothing else is owed.
Fairness ==
  /\ WF_callbackVars(RunFrameCallbacks /\ requested)
  /\ WF_callbackVars(SkipCancelled \/ BeginTick \/ EndTick \/ EndFrame)

TickersSpec == TickersInit /\ [][TickersNext]_callbackVars /\ Fairness

-----------------------------------------------------------------------------

TypeOK ==
  /\ active \in [Tickers -> BOOLEAN]
  /\ muted \in [Tickers -> BOOLEAN]
  /\ id \in [Tickers -> Ids \cup {NoId}]
  /\ start \in [Tickers -> 0..Times - 1]
  /\ front \in Seq(Tickers \cup {None})
  /\ gen \in 0..Generations - 1
  /\ due \in Seq(Tickers \cup {None})
  /\ phase \in {"idle", "running", "tick", "panicked"}
  /\ cur \in Tickers \cup {None}
  /\ requested \in BOOLEAN
  /\ now \in 0..Times - 1
  /\ ticks \in [Tickers -> Nat]

\* The assertions of PlainTicker.tick (ticker.go:181-182): a callback never
\* runs for a ticker that has been stopped or muted, or that has no callback
\* registered.
AssertionsHold == phase # "panicked"

\* ticker.go:75-76: "tickers fire once at the start of every frame".
OncePerFrame == \A t \in Tickers : ticks[t] <= 1

\* A ticker has a callback registered exactly while it believes so, never two,
\* neither in one list nor one in each, and the identifier it keeps cancels the
\* callback of the next frame (ticker.go:156-178, pipeline.go:32-61).
OneCallbackEach ==
  phase # "panicked" =>
  \A t \in Tickers :
    /\ Scheduled(t) <=> IsDue(t) \/ IsNext(t)
    /\ ~(IsDue(t) /\ IsNext(t))
    /\ \A i, j \in 1..Len(due) : due[i] = t /\ due[j] = t => i = j
    /\ \A i \in 1..Len(front) : front[i] = t => id[t] = [gen |-> gen, idx |-> i]

\* A ticking ticker is always about to tick again, unless it is executing its
\* callback; a ticker that is stopped or muted never is.
TickingIsScheduled ==
  \A t \in Tickers :
    phase # "panicked" /\ ~(phase = "tick" /\ cur = t) => (Ticking(t) <=> Scheduled(t))

\* No callback waits for a frame that nobody requested.
FrameIsRequested == (\E t \in Tickers : IsNext(t)) => requested

\* As long as it is started and not muted, a ticker ticks again and again.
KeepsTicking ==
  \A t \in Tickers : []<>(~Ticking(t) \/ (phase = "tick" /\ cur = t))

=============================================================================

------------------------------ MODULE Controller ------------------------------
(***************************************************************************)
(* The animation controller: animation/controller.go with the simulations  *)
(* it runs (simulation.go), the status listeners it tells (ticker.go) and   *)
(* the CurvedAnimation (animation.go) that is one of them.  The ticker that *)
(* drives it is seen through its interface: started or stopped, and called  *)
(* with the time since its first tick; FrameCallbacks has its inside.       *)
(*                                                                         *)
(* A status listener may call the controller again in the middle of one of  *)
(* its methods, so a call is a stack of steps, todo, whose head runs next.  *)
(* There are two status listeners, the CurvedAnimation's and the program's, *)
(* told in either order because they are the values of a Go map.  Value     *)
(* listeners mark elements for rebuilding and never call the controller,    *)
(* so that telling them is no step.                                         *)
(***************************************************************************)
EXTENDS Integers, Sequences

CONSTANTS
  Upper,     \* UpperBound; LowerBound is 0 and values are integers
  Durations, \* the durations the program sets
  Counts,    \* how often it has an animation repeated, 0 for without end
  MaxCalls,  \* bound: calls the program makes
  ActOn      \* the statuses on which the program's listener calls back

Statuses == {"Dismissed", "Forward", "Reverse", "Completed"}
Directions == {"Forward", "Reverse"}

ASSUME ControllerAssumption ==
  /\ Upper \in Nat \ {0}
  /\ Durations \subseteq Nat /\ \A d \in Durations : d % Upper = 0
  /\ Counts \subseteq Nat
  /\ MaxCalls \in Nat
  /\ ActOn \subseteq Statuses

VARIABLES
  c,      \* the controller and the state of its ticker
  curve,  \* CurvedAnimation.curveDirection, "none" when unset
  todo,   \* what remains to be done of the calls in progress
  calls,  \* the number of calls the program has made
  failed  \* an assertion has failed, or nil has been dereferenced

vars == <<c, curve, todo, calls, failed>>

NoSimulation == [kind |-> "nil"]
Unset == -1 \* the ticker has no start time yet

Init ==
  /\ \E d \in Durations :
       c = [value |-> 0, direction |-> "Forward", status |-> "Dismissed",
            reported |-> "Dismissed", simulation |-> NoSimulation,
            duration |-> d, active |-> FALSE, elapsed |-> Unset,
            listening |-> TRUE]
  /\ curve = "none" /\ todo = <<>> /\ calls = 0 /\ failed = FALSE

Idle == todo = <<>>

Then(steps) == todo' = steps \o Tail(todo)

----------------------------------------------------------------------------
(* Simulations *)

Clamped(v) == IF v < 0 THEN 0 ELSE IF v > Upper THEN Upper ELSE v

\* The simulations: from begin to end over a period, or from the lower to the
\* upper bound and again, count times or, for 0, without end.
Interpolation(begin, end, period) ==
  [kind |-> "interpolation", begin |-> begin, end |-> end, period |-> period]

Repeating(initial, reverse, period, count) ==
  [kind |-> "repeating", reverse |-> reverse, period |-> period,
   count |-> count, initialTime |-> (initial * period) \div Upper]

Endless(s) == s.kind = "repeating" /\ s.count = 0

PlaysReverse(s, d) ==
  s.reverse /\ ((d + s.initialTime) \div s.period) % 2 # 0

X(s, d) ==
  IF s.kind = "interpolation"
    THEN IF d >= s.period THEN s.end
         ELSE s.begin + ((s.end - s.begin) * d) \div s.period
    ELSE LET t == (((d + s.initialTime) % s.period) * Upper) \div s.period
         IN  IF PlaysReverse(s, d) THEN Upper - t ELSE t

ExitTime(s) == s.count * s.period - s.initialTime

Done(s, d) ==
  IF s.kind = "interpolation" THEN d > s.period
                              ELSE s.count > 0 /\ d >= ExitTime(s)

----------------------------------------------------------------------------
(* The parts of the controller's methods *)

Running(direction) == direction
Ended(direction) == IF direction = "Forward" THEN "Completed" ELSE "Dismissed"

\* Mutant: stopping forgets the simulation and leaves the ticker running.
TickingStopped(k) == [k EXCEPT !.simulation = NoSimulation]

Stopped(k) ==
  [k EXCEPT !.simulation = NoSimulation, !.active = FALSE, !.elapsed = Unset]

Placed(k, v) ==
  [k EXCEPT !.value = Clamped(v),
            !.status = CASE Clamped(v) = 0 -> "Dismissed"
                         [] Clamped(v) = Upper -> "Completed"
                         [] OTHER -> Running(k.direction)]

Check == <<"check">>
Begin(s) == <<"begin", X(s, 0)>>
Ticked(s, d) == <<"ticked", X(s, d), d>>

\* setDirection, called by a repeating simulation's X before it returns.
Directed(k, s, d) ==
  IF s.kind = "interpolation" THEN k
  ELSE LET direction == IF PlaysReverse(s, d) THEN "Reverse" ELSE "Forward"
       IN  [k EXCEPT !.direction = direction, !.status = Running(direction)]

ChecksOfX(s) == IF s.kind = "repeating" THEN <<Check>> ELSE <<>>

\* startSimulation up to the return of X(0).
Start(k, s, rest) ==
  /\ failed' = (failed \/ k.active)
  /\ c' = Directed([k EXCEPT !.simulation = s], s, 0)
  /\ todo' = ChecksOfX(s) \o <<Begin(s)>> \o rest

\* animateTo, with a reverse duration of 0, its default.
AnimateTo(k, v, rest) ==
  LET period == IF v = k.value THEN 0 ELSE k.duration
      k1 == Stopped(k)
  IN  IF period = 0
        THEN /\ c' = [k1 EXCEPT !.value = Clamped(v),
                                !.status = Ended(k.direction)]
             /\ todo' = <<Check>> \o rest
             /\ UNCHANGED failed
        ELSE Start(k1, Interpolation(k1.value, v, period), rest)

----------------------------------------------------------------------------
(* The calls of the program, which are made from outside, rest being empty, *)
(* or from its status listener, rest being what is left to do then          *)

SetValue(v, rest) ==
  /\ c' = Placed(Stopped(c), v)
  /\ todo' = <<Check>> \o rest
  /\ UNCHANGED failed

Forward(rest) == AnimateTo([c EXCEPT !.direction = "Forward"], Upper, rest)
Reverse(rest) == AnimateTo([c EXCEPT !.direction = "Reverse"], 0, rest)

ToggleDirection(rest) ==
  IF c.status \in {"Forward", "Completed"} THEN Reverse(rest)
                                           ELSE Forward(rest)

\* AnimateTo and AnimateBack.
AnimateTowards(v, direction, rest) ==
  AnimateTo([c EXCEPT !.direction = direction], v, rest)

Repeat(reverse, count, rest) ==
  LET k == Stopped(c)
  IN  Start(k, Repeating(k.value, reverse, k.duration, count), rest)

Stop(rest) == c' = Stopped(c) /\ todo' = rest /\ UNCHANGED failed

SetDuration(d, rest) ==
  c' = [c EXCEPT !.duration = d] /\ todo' = rest /\ UNCHANGED failed

\* Only the ticker is stopped: the simulation stays.
Dispose(rest) ==
  /\ c' = [c EXCEPT !.active = FALSE, !.elapsed = Unset, !.listening = FALSE]
  /\ todo' = rest
  /\ UNCHANGED failed

Call(rest) ==
  /\ calls < MaxCalls /\ c.listening
  /\ calls' = calls + 1 /\ UNCHANGED curve
  /\ \/ \E v \in 0..Upper : SetValue(v, rest)
     \/ Forward(rest)
     \/ Reverse(rest)
     \/ ToggleDirection(rest)
     \/ \E v \in 0..Upper, d \in Directions : AnimateTowards(v, d, rest)
     \/ /\ c.duration > 0 \* without a period a repetition divides by zero
        /\ \E r \in BOOLEAN, n \in Counts : Repeat(r, n, rest)
     \/ Stop(rest)
     \/ \E d \in Durations \ {c.duration} : SetDuration(d, rest)
     \/ Dispose(rest)

ProgramCalls == ~failed /\ Idle /\ Call(<<>>)

----------------------------------------------------------------------------
(* The steps of a call *)

At(kind) == ~failed /\ ~Idle /\ Head(todo)[1] = kind

\* checkStatusChanged: the listeners are told in an order nobody chooses.
CheckStatusChanged ==
  /\ At("check")
  /\ c' = [c EXCEPT !.reported = c.status]
  /\ IF c.reported # c.status /\ c.listening
       THEN LET told == <<<<"tell", c.status>>, <<"curve", c.status>>>>
            IN  Then(told) \/ Then(<<told[2], told[1]>>)
       ELSE Then(<<>>)
  /\ UNCHANGED <<curve, calls, failed>>

\* The program's listener: it looks at the status, and then may make calls.
\* Once the map of listeners has been cleared, those not yet told are not told.
TellProgram ==
  /\ At("tell")
  /\ Then(IF c.listening /\ Head(todo)[2] \in ActOn THEN <<<<"turn">>>>
                                                    ELSE <<>>)
  /\ UNCHANGED <<c, curve, calls, failed>>

ListenerCalls == At("turn") /\ Call(todo)

ListenerReturns ==
  At("turn") /\ Then(<<>>) /\ UNCHANGED <<c, curve, calls, failed>>

\* The direction of the curve once the CurvedAnimation is told the status.
CurveFor(status) == IF status = "Completed" THEN "none"
                    ELSE IF status = "Dismissed" THEN curve ELSE status

UpdateCurveDirection ==
  /\ At("curve")
  /\ curve' = IF c.listening THEN CurveFor(Head(todo)[2]) ELSE curve
  /\ Then(<<>>)
  /\ UNCHANGED <<c, calls, failed>>

\* Mutant: the listeners are not told that the animation has started.
QuietAfterStart == <<>>

AfterStart == <<Check>>

\* startSimulation from the return of X(0) on; the ticker asserts that it has
\* not been started.
BeginSimulation ==
  /\ At("begin")
  /\ failed' = c.active
  /\ c' = [c EXCEPT !.value = Clamped(Head(todo)[2]), !.active = TRUE,
                    !.elapsed = Unset, !.status = Running(c.direction)]
  /\ Then(AfterStart)
  /\ UNCHANGED <<curve, calls>>

\* The ticker's first call is at time 0, the others come some time later.
\* The time of an endless repetition matters only within two periods, that of
\* another simulation not after the frame in which it is done.
Later(s, d) ==
  LET last == 1 + IF s.kind = "interpolation" THEN s.period ELSE ExitTime(s)
  IN  IF Endless(s) THEN d % (2 * s.period) ELSE IF d > last THEN last ELSE d

\* tick up to the return of X.
Tick ==
  /\ ~failed /\ Idle /\ c.active
  /\ \E later \in {1, 2} :
       LET s == c.simulation
           d == IF c.elapsed = Unset THEN 0 ELSE Later(s, c.elapsed + later)
       IN  IF s = NoSimulation
             THEN failed' = TRUE /\ UNCHANGED <<c, todo>>
             ELSE /\ c' = Directed([c EXCEPT !.elapsed = d], s, d)
                  /\ todo' = ChecksOfX(s) \o <<Ticked(s, d)>>
                  /\ UNCHANGED failed
  /\ UNCHANGED <<curve, calls>>

\* Mutant: an animation that is done is not stopped.
Unfinished(k) == [k EXCEPT !.status = Ended(k.direction)]

Finished(k) == Stopped([k EXCEPT !.status = Ended(k.direction)])

\* tick from the return of X on, with whatever simulation there now is.
TickReturns ==
  /\ At("ticked")
  /\ LET k == [c EXCEPT !.value = Clamped(Head(todo)[2])]
     IN  IF c.simulation = NoSimulation
           THEN failed' = TRUE /\ c' = k /\ Then(<<>>)
           ELSE /\ c' = IF Done(c.simulation, Head(todo)[3])
                          THEN Finished(k) ELSE k
                /\ Then(<<Check>>)
                /\ UNCHANGED failed
  /\ UNCHANGED <<curve, calls>>

Step ==
  \/ CheckStatusChanged
  \/ TellProgram
  \/ ListenerReturns
  \/ UpdateCurveDirection
  \/ BeginSimulation
  \/ TickReturns

Next == ProgramCalls \/ ListenerCalls \/ Tick \/ Step

\* The steps of a call are the same goroutine's, a listener returns, and the
\* frames a running ticker asks for are drawn.
Spec == Init /\ [][Next]_vars /\ WF_vars(Step) /\ WF_vars(Tick)

----------------------------------------------------------------------------
(* Properties *)

\* No assertion of the controller or of its ticker fails and no tick meets a
\* controller without a simulation, whatever a listener that is told that an
\* animation has ended does to the controller.
NeverFails == ~failed

\* Between calls the ticker runs exactly while there is a simulation, if the
\* controller has not been disposed of, the status is then that of the
\* direction it runs in, and the status is the one the listeners were last
\* told of.
StatusIsReported ==
  Idle => /\ c.active <=> c.simulation # NoSimulation /\ c.listening
          /\ c.active => c.status = Running(c.direction)
          /\ c.reported = c.status

\* While an animation runs, the curve CurvedAnimation.Value applies is the
\* one of the direction it runs in, even when the CurvedAnimation is told of
\* an older status after a newer one.
CurveFollowsStatus ==
  Idle /\ c.active =>
    LET effective == IF curve = "none" THEN c.status ELSE curve
    IN  effective = "Reverse" <=> c.status = "Reverse"

\* Both: what listeners have been told, and what they made of it, is true.
ListenersAreUpToDate == StatusIsReported /\ CurveFollowsStatus

\* An animation that has an end is over at some time, unless the program
\* replaces it by an endless one.
AnimationEnds ==
  c.active /\ ~Endless(c.simulation)
    ~> Idle /\ (~c.active \/ Endless(c.simulation))
=============================================================================

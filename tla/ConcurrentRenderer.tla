-------------------------- MODULE ConcurrentRenderer --------------------------
(***************************************************************************)
(* internal/sparse/concurrency.go: a renderer whose caller queues drawing   *)
(* operations in a bounded channel, whose paths are compiled by one         *)
(* goroutine per operation, and whose single worker goroutine applies the   *)
(* operations to the wrapped Renderer.                                      *)
(*                                                                         *)
(* The wrapped Renderer is the sequence of operations applied to it since   *)
(* its last Reset.  A path is the identity of the operation it belongs to.  *)
(***************************************************************************)
EXTENDS Integers, Sequences, FiniteSets

CONSTANTS
  Parallelism,  \* capacity of the tasks channel
  MaxCalls,     \* bound: operations the caller queues
  MaxResets     \* bound: calls of Reset

ASSUME RendererAssumption ==
  /\ Parallelism \in Nat \ {0}
  /\ MaxCalls \in Nat
  /\ MaxResets \in Nat

\* renderTaskKind; Fill and Stroke both queue a fill.
PathKinds == {"fill", "clip"}
Kinds == PathKinds \cup {"save", "restore"}

Task == [id : 1..MaxCalls, kind : Kinds]
NoTask == [id |-> 0, kind |-> "none"]

VARIABLES
  pc,         \* the caller: where it is in the operation it is executing
  call,       \* the task of the operation the caller is executing
  calls,      \* number of operations the caller has begun
  resets,     \* number of calls of Reset
  tasks,      \* the tasks channel
  closed,     \* the tasks channel has been closed
  compiling,  \* operations whose path is being compiled by a goroutine
  ready,      \* operations whose path channel can be received from
  worker,     \* the worker goroutine: where it is in its loop
  cur,        \* the task the worker holds
  done,       \* the done channel has been closed
  canvas,     \* operations applied to the wrapped renderer since its Reset
  output      \* what RenderToPixmap rendered

callerVars == <<pc, call, calls, resets>>
workerVars == <<worker, cur>>
vars == <<pc, call, calls, resets, tasks, closed, compiling, ready, worker,
          cur, done, canvas, output>>

-----------------------------------------------------------------------------

Init ==
  /\ pc = "idle" /\ call = NoTask /\ calls = 0 /\ resets = 0
  /\ tasks = <<>> /\ closed = FALSE
  /\ compiling = {} /\ ready = {}
  /\ worker = "recv" /\ cur = NoTask /\ done = FALSE
  /\ canvas = <<>> /\ output = <<>>

(***************************************************************************)
(* The caller.                                                             *)
(***************************************************************************)

\* Fill, Stroke, PushClip: the task's path channel is empty and buffered.
\* Save, Restore: the task's path channel is closed before the task is sent.
Call(kind) ==
  /\ pc \in {"idle", "stopped"}
  /\ calls < MaxCalls
  /\ calls' = calls + 1
  /\ call' = [id |-> calls + 1, kind |-> kind]
  /\ pc' = "send"
  /\ ready' = IF kind \in PathKinds THEN ready ELSE ready \cup {calls + 1}
  /\ UNCHANGED <<resets, tasks, closed, compiling, workerVars, done, canvas,
                 output>>

\* r.tasks <- t blocks while the channel is full and panics once it is closed.
Send ==
  /\ pc = "send"
  /\ IF closed
     THEN pc' = "panicked" /\ UNCHANGED <<call, tasks>>
     ELSE /\ Len(tasks) < Parallelism
          /\ tasks' = Append(tasks, call)
          /\ IF call.kind \in PathKinds
             THEN pc' = "go" /\ UNCHANGED call
             ELSE pc' = "idle" /\ call' = NoTask
  /\ UNCHANGED <<calls, resets, closed, compiling, ready, workerVars, done,
                 canvas, output>>

\* go func() { t.path <- Compile...Path(...) }()
Go ==
  /\ pc = "go"
  /\ compiling' = compiling \cup {call.id}
  /\ pc' = "idle"
  /\ call' = NoTask
  /\ UNCHANGED <<calls, resets, tasks, closed, ready, workerVars, done,
                 canvas, output>>

\* Reset is not synchronised with the worker.
Reset ==
  /\ pc \in {"idle", "stopped"}
  /\ resets < MaxResets
  /\ resets' = resets + 1
  /\ canvas' = <<>>
  /\ UNCHANGED <<pc, call, calls, tasks, closed, compiling, ready, workerVars,
                 done, output>>

\* PushLayer is not implemented.
PushLayer ==
  /\ pc \in {"idle", "stopped"}
  /\ pc' = "panicked"
  /\ UNCHANGED <<call, calls, resets, tasks, closed, compiling, ready,
                 workerVars, done, canvas, output>>

\* Stop, called directly or by RenderToPixmap: closing twice panics.
Stop(then) ==
  /\ pc \in {"idle", "stopped"}
  /\ IF closed
     THEN pc' = "panicked" /\ UNCHANGED closed
     ELSE pc' = then /\ closed' = TRUE
  /\ UNCHANGED <<call, calls, resets, tasks, compiling, ready, workerVars,
                 done, canvas, output>>

\* <-r.done, after which RenderToPixmap renders.
Stopped ==
  /\ pc \in {"stop", "render"}
  /\ done
  /\ pc' = "stopped"
  /\ output' = IF pc = "render" THEN canvas ELSE output
  /\ UNCHANGED <<call, calls, resets, tasks, closed, compiling, ready,
                 workerVars, done, canvas>>

(***************************************************************************)
(* The goroutines.                                                         *)
(***************************************************************************)

Compiled(id) ==
  /\ id \in compiling
  /\ compiling' = compiling \ {id}
  /\ ready' = ready \cup {id}
  /\ UNCHANGED <<callerVars, tasks, closed, workerVars, done, canvas, output>>

ReceiveAnyReady ==
  /\ worker = "recv"
  /\ \E i \in 1..Len(tasks) :
       /\ tasks[i].id \in ready
       /\ cur' = tasks[i]
       /\ tasks' = SubSeq(tasks, 1, i - 1) \o SubSeq(tasks, i + 1, Len(tasks))
  /\ worker' = "wait"
  /\ UNCHANGED <<callerVars, closed, compiling, ready, done, canvas, output>>

\* for t := range r.tasks
Receive ==
  /\ worker = "recv"
  /\ tasks # <<>>
  /\ cur' = Head(tasks)
  /\ tasks' = Tail(tasks)
  /\ worker' = "wait"
  /\ UNCHANGED <<callerVars, closed, compiling, ready, done, canvas, output>>

\* p := <-t.path; the buffered path is consumed, a closed channel stays ready.
TakePath ==
  /\ worker = "wait"
  /\ cur.id \in ready
  /\ ready' = IF cur.kind \in PathKinds THEN ready \ {cur.id} ELSE ready
  /\ worker' = "apply"
  /\ UNCHANGED <<callerVars, tasks, closed, compiling, cur, done, canvas,
                 output>>

Apply ==
  /\ worker = "apply"
  /\ canvas' = Append(canvas, cur)
  /\ cur' = NoTask
  /\ worker' = "recv"
  /\ UNCHANGED <<callerVars, tasks, closed, compiling, ready, done, output>>

ExitOnClose ==
  /\ worker = "recv"
  /\ closed
  /\ worker' = "exit"
  /\ done' = TRUE
  /\ UNCHANGED <<callerVars, tasks, closed, compiling, ready, cur, canvas,
                 output>>

ExitSilently ==
  /\ worker = "recv"
  /\ closed /\ tasks = <<>>
  /\ worker' = "exit"
  /\ UNCHANGED <<callerVars, tasks, closed, compiling, ready, cur, done, canvas,
                 output>>

\* The range loop ends when the channel is closed and drained.
Exit ==
  /\ worker = "recv"
  /\ closed /\ tasks = <<>>
  /\ worker' = "exit"
  /\ done' = TRUE
  /\ UNCHANGED <<callerVars, tasks, closed, compiling, ready, cur, canvas,
                 output>>

Caller ==
  \/ \E kind \in Kinds : Call(kind)
  \/ Send \/ Go \/ Reset \/ PushLayer \/ Stopped
  \/ \E then \in {"stop", "render"} : Stop(then)
Worker == Receive \/ TakePath \/ Apply \/ Exit
Compilers == \E id \in compiling : Compiled(id)

Next == Caller \/ Worker \/ Compilers

\* The Go scheduler runs every goroutine that is ready; nothing obliges the
\* caller to begin another operation.
Fairness ==
  /\ WF_vars(Send) /\ WF_vars(Go) /\ WF_vars(Stopped)
  /\ WF_vars(Worker)
  /\ \A id \in 1..MaxCalls : WF_vars(Compiled(id))

Spec == Init /\ [][Next]_vars /\ Fairness

-----------------------------------------------------------------------------

\* The operations queued and not yet applied, oldest first.
Held == IF worker \in {"wait", "apply"} THEN <<cur>> ELSE <<>>
Pending == Held \o tasks

\* Operations whose task went through the tasks channel.
Sent == IF call # NoTask /\ pc # "go" THEN calls - 1 ELSE calls

Pcs == {"idle", "send", "go", "stop", "render", "stopped", "panicked"}

TypeOK ==
  /\ pc \in Pcs
  /\ call \in Task \cup {NoTask}
  /\ calls \in 0..MaxCalls
  /\ resets \in 0..MaxResets
  /\ tasks \in Seq(Task)
  /\ Len(tasks) <= Parallelism
  /\ closed \in BOOLEAN
  /\ compiling \subseteq 1..MaxCalls
  /\ ready \subseteq 1..MaxCalls
  /\ worker \in {"recv", "wait", "apply", "exit"}
  /\ cur \in Task \cup {NoTask}
  /\ done \in BOOLEAN
  /\ canvas \in Seq(Task)
  /\ output \in Seq(Task)

\* However the path compilations are scheduled, the operations on the canvas
\* are in the order of the calls, without gap or repetition, and all of them
\* precede every operation still queued: the worker waits for each path in
\* turn (concurrency.go, the loop of NewConcurrentRenderer).
DrawnInOrder ==
  LET drawn == canvas \o Pending IN
  \A i \in 1..Len(drawn) : drawn[i].id = drawn[1].id + i - 1

\* When Stop has returned, everything queued before it is on the canvas, so
\* RenderToPixmap renders every operation of the frame (Stop waits for done,
\* which the worker closes after draining tasks).
StopDrains ==
  pc = "stopped" =>
    /\ Pending = <<>>
    /\ resets = 0 => \A id \in 1..Sent : \E i \in 1..Len(canvas) : canvas[i].id = id

\* No compilation goroutine outlives Stop, and none runs for an operation that
\* has been drawn.
NoStrayCompilation ==
  /\ done => compiling = {}
  /\ \A id \in compiling : \E i \in 1..Len(Pending) : Pending[i].id = id

\* The tasks channel throttles the caller: besides the queued operations only
\* the one the worker waits for can be compiling.
BoundedCompilation == Cardinality(compiling) <= Parallelism + 1

\* Stop and RenderToPixmap return.
StopReturns == pc \in {"stop", "render"} ~> pc \in {"stopped"}

\* Everything above at once: the renderer implements the draw queue, whose
\* Finish is the worker's exit (concurrency.go).  The capacity counts the task
\* the worker holds besides those in the channel.
Queue == INSTANCE DrawQueue WITH
  Op <- Task, Capacity <- Parallelism + 1,
  queue <- Pending, open <- ~closed, finished <- done, canvas <- canvas

ImplementsDrawQueue == Queue!DSpec

\* Its safety part.
SafelyImplementsDrawQueue == Queue!DSafety

=============================================================================

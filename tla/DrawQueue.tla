------------------------------ MODULE DrawQueue ------------------------------
(***************************************************************************)
(* What ConcurrentRenderer promises its caller, without channels, path      *)
(* compilation or goroutines: a bounded first-in first-out queue in front   *)
(* of a canvas.  Operations are drawn one at a time, in the order they were *)
(* queued, none is lost, none is queued once the queue is closed, and a     *)
(* closed queue is finished only when it has been drained.                  *)
(***************************************************************************)
EXTENDS Naturals, Sequences

CONSTANTS Op, Capacity

VARIABLES queue, open, finished, canvas

dvars == <<queue, open, finished, canvas>>

DInit == queue = <<>> /\ open = TRUE /\ finished = FALSE /\ canvas = <<>>

Enqueue(op) ==
  /\ open
  /\ Len(queue) < Capacity
  /\ queue' = Append(queue, op)
  /\ UNCHANGED <<open, finished, canvas>>

Draw ==
  /\ queue # <<>>
  /\ canvas' = Append(canvas, Head(queue))
  /\ queue' = Tail(queue)
  /\ UNCHANGED <<open, finished>>

Clear ==
  /\ canvas' = <<>>
  /\ UNCHANGED <<queue, open, finished>>

Close ==
  /\ open
  /\ open' = FALSE
  /\ UNCHANGED <<queue, finished, canvas>>

Finish ==
  /\ ~open /\ queue = <<>> /\ ~finished
  /\ finished' = TRUE
  /\ UNCHANGED <<queue, open, canvas>>

DNext == (\E op \in Op : Enqueue(op)) \/ Draw \/ Clear \/ Close \/ Finish

DSafety == DInit /\ [][DNext]_dvars

\* What is queued is drawn, and a closed queue is finished.
DSpec == DSafety /\ WF_dvars(Draw) /\ WF_dvars(Finish)

=============================================================================

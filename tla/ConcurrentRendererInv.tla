----------------------- MODULE ConcurrentRendererInv -----------------------
(***************************************************************************)
(* The inductive invariant behind the safety properties of                  *)
(* ConcurrentRenderer, stated apart from its proof so that TLC can check it. *)
(***************************************************************************)
EXTENDS ConcurrentRenderer

Holding == worker \in {"wait", "apply"}

NumPending == Len(tasks) + (IF Holding THEN 1 ELSE 0)

\* Where the caller is agrees with the task it is queueing.
CallerInv ==
  /\ pc \in {"send", "go"} => call \in Task
  /\ call \in Task => call.id = calls /\ pc \in {"send", "go", "panicked"}
  /\ pc = "go" => call.kind \in PathKinds /\ ~closed /\ NumPending > 0
  /\ closed => pc \notin {"idle", "go"}
  /\ pc \in {"stop", "render", "stopped"} => closed
  /\ pc = "stopped" => done

WorkerInv ==
  /\ Holding <=> cur \in Task
  /\ done <=> worker = "exit"
  /\ done => closed /\ tasks = <<>>

\* Every operation's number follows from its place in the pipeline.
OrderInv ==
  /\ \A i \in 1..Len(tasks) : tasks[i].id = Sent - Len(tasks) + i
  /\ Holding => cur.id = Sent - Len(tasks)
  /\ \A i \in 1..Len(canvas) :
       canvas[i].id = Sent - NumPending - Len(canvas) + i
  /\ resets = 0 => Len(canvas) + NumPending = Sent

\* A path is compiled before it is ready and ready before it is taken.
PathInv ==
  /\ \A id \in compiling : Sent - NumPending < id /\ id <= Sent
  /\ \A id \in ready : id <= calls
  /\ compiling \cap ready = {}
  /\ worker = "apply" => cur.id \notin compiling
  /\ (call \in Task /\ call.kind \in PathKinds) => call.id \notin ready \cup compiling
  /\ (pc = "go" /\ worker = "apply") => cur.id # call.id

IInv == TypeOK /\ CallerInv /\ WorkerInv /\ OrderInv /\ PathInv

=============================================================================

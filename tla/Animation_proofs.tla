--------------------------- MODULE Animation_proofs ---------------------------
(***************************************************************************)
(* Proofs about the package animation.                                     *)
(*                                                                         *)
(* FrameCallbacks, for every set of tickers: as long as no callback stops or *)
(* mutes a ticker that is still due in the same frame, the assertions of    *)
(* PlainTicker hold and every ticker ticks at most once a frame.           *)
(*                                                                         *)
(* Controller: no assertion fails, and the listeners know the status, as    *)
(* long as the program's listener calls the controller only when an         *)
(* animation has ended, or when nothing is ever repeated.                  *)
(***************************************************************************)
EXTENDS Controller, FrameCallbacks, SequenceTheorems, TLAPS

-----------------------------------------------------------------------------
(* Tickers *)

\* The strengthening: what OneCallbackEach and TickingIsScheduled need to
\* survive the start of a frame, when the next list becomes the due one.
FrameInv ==
  /\ phase # "panicked"
  /\ phase = "idle" => due = <<>>
  /\ phase = "tick" => cur \in Tickers /\ ~IsDue(cur)
  /\ \A t \in Tickers : IsDue(t) => Ticking(t)
  /\ \A t \in Tickers : Scheduled(t) => Ticking(t)
  /\ \A t \in Tickers : ticks[t] <= 1 /\ (IsDue(t) => ticks[t] = 0)

TickersInv == TypeOK /\ OneCallbackEach /\ TickingIsScheduled /\ FrameInv

LEMMA CallbackLists ==
  ASSUME TypeOK
  PROVE  /\ Len(front) \in Nat /\ Len(due) \in Nat
         /\ \A i \in 1..Len(front) : front[i] \in Tickers \cup {None}
         /\ \A i \in 1..Len(due) : due[i] \in Tickers \cup {None}
BY LenProperties, ElementOfSeq DEF TypeOK

LEMMA TickersInitInv == TickersInit => TickersInv
<1> SUFFICES ASSUME TickersInit PROVE TickersInv
  OBVIOUS
<1>1. <<>> \in Seq(Tickers \cup {None}) /\ Len(<<>>) = 0
  BY EmptySeq
<1>2. 0 \in 0..Generations - 1 /\ 0 \in 0..Times - 1
  BY FrameCallbacksAssumption DEF FrameCallbacksAssumption
<1>3. TypeOK
  BY <1>1, <1>2 DEF TickersInit, TypeOK
<1>4. \A t \in Tickers : ~IsDue(t) /\ ~IsNext(t) /\ ~Scheduled(t) /\ ~Ticking(t)
  <2>1. 1..Len(front) = {} /\ 1..Len(due) = {}
    <3>1. Len(front) = 0 /\ Len(due) = 0
      BY <1>1 DEF TickersInit
    <3> QED BY <3>1
  <2>2. \A t \in Tickers : ~Scheduled(t) /\ ~Ticking(t)
    BY DEF TickersInit, Scheduled, Ticking
  <2> QED BY <2>1, <2>2 DEF IsDue, IsNext
<1>5. OneCallbackEach
  BY <1>4 DEF OneCallbackEach, IsDue, IsNext
<1>6. TickingIsScheduled
  BY <1>4 DEF TickingIsScheduled
<1>7. FrameInv
  BY <1>4 DEF TickersInit, FrameInv
<1> QED BY <1>3, <1>5, <1>6, <1>7 DEF TickersInv

\* What scheduling a ticker that has no callback does to the lists.
LEMMA ScheduleTickFacts ==
  ASSUME TypeOK, OneCallbackEach, phase # "panicked", due' = due, gen' = gen,
         NEW t \in Tickers, ~Scheduled(t), ScheduleTick(t)
  PROVE  /\ front' \in Seq(Tickers \cup {None})
         /\ id' \in [Tickers -> Ids \cup {NoId}]
         /\ \A u \in Tickers : Scheduled(u)' <=> (Scheduled(u) \/ u = t)
         /\ \A u \in Tickers : IsDue(u)' <=> IsDue(u)
         /\ \A u \in Tickers : IsNext(u)' <=> (IsNext(u) \/ u = t)
         /\ \A u \in Tickers : \A i \in 1..Len(front') :
              front'[i] = u => id'[u] = [gen |-> gen, idx |-> i]
<1>1. /\ front' = Append(front, t) /\ Len(front) \in Nat
      /\ front' \in Seq(Tickers \cup {None})
      /\ Len(front') = Len(front) + 1
      /\ \A i \in 1..Len(front) : front'[i] = front[i]
      /\ front'[Len(front) + 1] = t
  BY CallbackLists, AppendProperties DEF TypeOK, ScheduleTick
<1>2. [gen |-> gen, idx |-> Len(front) + 1] \in Ids
  BY <1>1 DEF TypeOK, Ids
<1>3. id' = [id EXCEPT ![t] = [gen |-> gen, idx |-> Len(front) + 1]]
  BY DEF ScheduleTick
<1>4. id' \in [Tickers -> Ids \cup {NoId}]
  BY <1>2, <1>3 DEF TypeOK
<1>5. [gen |-> gen, idx |-> Len(front) + 1] # NoId
  BY <1>1 DEF NoId
<1>6. \A u \in Tickers : Scheduled(u)' <=> (Scheduled(u) \/ u = t)
  BY <1>3, <1>5 DEF TypeOK, Scheduled
<1>7. \A u \in Tickers : IsDue(u)' <=> IsDue(u)
  BY DEF IsDue
<1>8. \A u \in Tickers : IsNext(u)' <=> (IsNext(u) \/ u = t)
  <2>1. \A i \in 1..Len(front') : i \in 1..Len(front) \/ i = Len(front) + 1
    BY <1>1
  <2>2. \A i \in 1..Len(front) : i \in 1..Len(front')
    BY <1>1
  <2>3. Len(front) + 1 \in 1..Len(front')
    BY <1>1
  <2> QED BY <1>1, <2>1, <2>2, <2>3 DEF IsNext
<1>9. ASSUME NEW u \in Tickers, NEW i \in 1..Len(front'), front'[i] = u
      PROVE  id'[u] = [gen |-> gen, idx |-> i]
  <2>1. CASE i = Len(front) + 1
    BY <1>1, <1>3, <1>9, <2>1 DEF TypeOK
  <2>2. CASE i # Len(front) + 1
    <3>1. i \in 1..Len(front) /\ front[i] = u
      BY <1>1, <1>9, <2>2
    <3>2. IsNext(u)
      BY <3>1 DEF IsNext
    <3>3. u # t
      BY <3>2 DEF OneCallbackEach
    <3> QED BY <1>3, <3>1, <3>3 DEF OneCallbackEach, TypeOK
  <2> QED BY <2>1, <2>2
<1> QED BY <1>1, <1>4, <1>6, <1>7, <1>8, <1>9

\* What cancelling the callback of a ticker that is not due does to them.
LEMMA UnscheduleTickFacts ==
  ASSUME TypeOK, OneCallbackEach, phase # "panicked", due' = due, gen' = gen,
         NEW t \in Tickers, ~IsDue(t), UnscheduleTick(t)
  PROVE  /\ front' \in Seq(Tickers \cup {None})
         /\ id' \in [Tickers -> Ids \cup {NoId}]
         /\ \A u \in Tickers : Scheduled(u)' <=> (Scheduled(u) /\ u # t)
         /\ \A u \in Tickers : IsDue(u)' <=> IsDue(u)
         /\ \A u \in Tickers : IsNext(u)' <=> (IsNext(u) /\ u # t)
         /\ \A u \in Tickers : \A i \in 1..Len(front') :
              front'[i] = u => id'[u] = [gen |-> gen, idx |-> i]
<1>1. id' = [id EXCEPT ![t] = NoId]
  BY DEF UnscheduleTick
<1>2. /\ id' \in [Tickers -> Ids \cup {NoId}]
      /\ \A u \in Tickers : Scheduled(u)' <=> (Scheduled(u) /\ u # t)
  BY <1>1 DEF TypeOK, Scheduled
<1>3. \A u \in Tickers : IsDue(u)' <=> IsDue(u)
  BY DEF IsDue
<1>4. CASE ~Scheduled(t)
  <2>1. front' = front /\ ~IsNext(t)
    BY <1>4 DEF UnscheduleTick, OneCallbackEach
  <2>2. \A u \in Tickers : IsNext(u)' <=> IsNext(u)
    BY <2>1 DEF IsNext
  <2>3. ASSUME NEW u \in Tickers, NEW i \in 1..Len(front'), front'[i] = u
        PROVE  id'[u] = [gen |-> gen, idx |-> i]
    <3>1. IsNext(u)
      BY <2>1, <2>3 DEF IsNext
    <3>2. u # t
      BY <2>1, <3>1
    <3> QED BY <1>1, <2>1, <2>3, <3>2 DEF OneCallbackEach, TypeOK
  <2> QED BY <1>2, <1>3, <2>1, <2>2, <2>3 DEF TypeOK
<1>5. CASE Scheduled(t)
  <2>1. PICK k \in 1..Len(front) : front[k] = t
    BY <1>5 DEF OneCallbackEach, IsNext
  <2>2. id[t] = [gen |-> gen, idx |-> k]
    BY <2>1 DEF OneCallbackEach
  <2>3. front' = [front EXCEPT ![k] = None]
    BY <1>5, <2>1, <2>2 DEF UnscheduleTick, Cancelled
  <2>4. /\ front' \in Seq(Tickers \cup {None})
        /\ Len(front') = Len(front)
        /\ \A j \in 1..Len(front) : front'[j] = IF j = k THEN None ELSE front[j]
    BY <2>1, <2>3, ExceptSeq DEF TypeOK
  <2>5. \A u \in Tickers : u # None
    BY FrameCallbacksAssumption DEF FrameCallbacksAssumption
  <2>6. \A j \in 1..Len(front) : front[j] = t => j = k
    <3>1. ASSUME NEW j \in 1..Len(front), front[j] = t PROVE j = k
      <4>1. id[t] = [gen |-> gen, idx |-> j]
        BY <3>1 DEF OneCallbackEach
      <4> QED BY <2>2, <4>1
    <3> QED BY <3>1
  <2>7. \A u \in Tickers : IsNext(u)' <=> (IsNext(u) /\ u # t)
    BY <2>1, <2>4, <2>5, <2>6 DEF IsNext
  <2>8. ASSUME NEW u \in Tickers, NEW i \in 1..Len(front'), front'[i] = u
        PROVE  id'[u] = [gen |-> gen, idx |-> i]
    <3>1. i \in 1..Len(front) /\ front[i] = u /\ i # k
      BY <2>4, <2>5, <2>8
    <3>2. u # t
      BY <2>6, <3>1
    <3> QED BY <1>1, <3>1, <3>2 DEF OneCallbackEach, TypeOK
  <2> QED BY <1>2, <1>3, <2>4, <2>7, <2>8
<1> QED BY <1>4, <1>5

\* The program's operations leave the frame alone.
LEMMA StartIInv ==
  ASSUME TickersInv, NEW t \in Tickers, StartTicker(t)
  PROVE  TickersInv'
<1>1. UNCHANGED <<muted, gen, phase, cur, due, now, ticks>>
  BY DEF StartTicker, frameVars
<1>2. active' \in [Tickers -> BOOLEAN] /\ start' \in [Tickers -> 0..Times - 1]
  BY FrameCallbacksAssumption DEF TickersInv, TypeOK, StartTicker, FrameCallbacksAssumption
<1>3. \A u \in Tickers : Ticking(u)' <=> IF u = t THEN ~muted[t] ELSE Ticking(u)
  BY DEF TickersInv, TypeOK, StartTicker, Ticking, frameVars
<1>4. ~Scheduled(t) /\ ~Ticking(t)
  BY DEF TickersInv, TypeOK, FrameInv, StartTicker, Ticking
<1>5. CASE ~muted[t]
  <2>1. ScheduleTick(t) /\ requested' = TRUE
    BY <1>4, <1>5 DEF StartTicker, ScheduleTick
  <2>2. /\ front' \in Seq(Tickers \cup {None})
        /\ id' \in [Tickers -> Ids \cup {NoId}]
        /\ \A u \in Tickers : Scheduled(u)' <=> (Scheduled(u) \/ u = t)
        /\ \A u \in Tickers : IsDue(u)' <=> IsDue(u)
        /\ \A u \in Tickers : IsNext(u)' <=> (IsNext(u) \/ u = t)
        /\ \A u \in Tickers : \A i \in 1..Len(front') :
             front'[i] = u => id'[u] = [gen |-> gen, idx |-> i]
    BY <1>1, <1>4, <2>1, ScheduleTickFacts DEF TickersInv, FrameInv
  <2>3. TypeOK'
    BY <1>1, <1>2, <2>1, <2>2 DEF TickersInv, TypeOK
  <2>4. ~IsDue(t)
    BY <1>4 DEF TickersInv, FrameInv
  <2>5. OneCallbackEach'
    BY <1>1, <2>2, <2>4 DEF TickersInv, OneCallbackEach
  <2>6. TickingIsScheduled'
    BY <1>1, <1>3, <1>5, <2>2 DEF TickersInv, TickingIsScheduled
  <2>7. FrameInv'
    BY <1>1, <1>3, <1>5, <2>2 DEF TickersInv, FrameInv
  <2> QED BY <2>3, <2>5, <2>6, <2>7 DEF TickersInv
<1>6. CASE muted[t]
  <2>1. UNCHANGED <<front, id, requested>>
    BY <1>6 DEF StartTicker
  <2>2. /\ \A u \in Tickers : Scheduled(u)' <=> Scheduled(u)
        /\ \A u \in Tickers : IsDue(u)' <=> IsDue(u)
        /\ \A u \in Tickers : IsNext(u)' <=> IsNext(u)
        /\ \A u \in Tickers : Ticking(u)' <=> Ticking(u)
    BY <1>1, <1>3, <1>4, <1>6, <2>1 DEF Scheduled, IsDue, IsNext
  <2>3. TypeOK'
    BY <1>1, <1>2, <2>1 DEF TickersInv, TypeOK
  <2>4. OneCallbackEach' /\ TickingIsScheduled' /\ FrameInv'
    BY <1>1, <2>1, <2>2 DEF TickersInv, OneCallbackEach, TickingIsScheduled, FrameInv
  <2> QED BY <2>3, <2>4 DEF TickersInv
<1> QED BY <1>2, <1>5, <1>6 DEF TickersInv, TypeOK

LEMMA StopOrMuteIInv ==
  ASSUME CancelDue = FALSE, TickersInv, NEW t \in Tickers, StopTicker(t) \/ Mute(t)
  PROVE  TickersInv'
<1>1. /\ UNCHANGED <<start, gen, phase, cur, due, now, ticks, requested>>
      /\ ~IsDue(t) /\ UnscheduleTick(t)
  BY DEF StopTicker, Mute, frameVars, MayCancel, UnscheduleTick
<1>2. active' \in [Tickers -> BOOLEAN] /\ muted' \in [Tickers -> BOOLEAN]
  BY DEF TickersInv, TypeOK, StopTicker, Mute
<1>3. \A u \in Tickers : Ticking(u)' <=> (Ticking(u) /\ u # t)
  BY DEF TickersInv, TypeOK, StopTicker, Mute, Ticking
<1>4. /\ front' \in Seq(Tickers \cup {None})
      /\ id' \in [Tickers -> Ids \cup {NoId}]
      /\ \A u \in Tickers : Scheduled(u)' <=> (Scheduled(u) /\ u # t)
      /\ \A u \in Tickers : IsDue(u)' <=> IsDue(u)
      /\ \A u \in Tickers : IsNext(u)' <=> (IsNext(u) /\ u # t)
      /\ \A u \in Tickers : \A i \in 1..Len(front') :
           front'[i] = u => id'[u] = [gen |-> gen, idx |-> i]
  BY <1>1, UnscheduleTickFacts DEF TickersInv, FrameInv
<1>5. TypeOK'
  BY <1>1, <1>2, <1>4 DEF TickersInv, TypeOK
<1>6. OneCallbackEach'
  BY <1>1, <1>4 DEF TickersInv, OneCallbackEach
<1>7. TickingIsScheduled'
  BY <1>1, <1>3, <1>4 DEF TickersInv, TickingIsScheduled
<1>8. FrameInv'
  BY <1>1, <1>3, <1>4 DEF TickersInv, FrameInv
<1> QED BY <1>5, <1>6, <1>7, <1>8 DEF TickersInv

LEMMA UnmuteIInv ==
  ASSUME TickersInv, NEW t \in Tickers, Unmute(t)
  PROVE  TickersInv'
<1>1. UNCHANGED <<active, start, gen, phase, cur, due, now, ticks>>
  BY DEF Unmute, frameVars
<1>2. muted' \in [Tickers -> BOOLEAN]
  BY DEF TickersInv, TypeOK, Unmute
<1>3. \A u \in Tickers : Ticking(u)' <=> IF u = t THEN active[t] ELSE Ticking(u)
  BY DEF TickersInv, TypeOK, Unmute, Ticking, frameVars
<1>4. ~Scheduled(t) /\ ~Ticking(t)
  BY DEF TickersInv, TypeOK, FrameInv, Unmute, Ticking
<1>5. CASE active[t]
  <2>1. ScheduleTick(t) /\ requested' = TRUE
    BY <1>4, <1>5 DEF Unmute, ScheduleTick
  <2>2. /\ front' \in Seq(Tickers \cup {None})
        /\ id' \in [Tickers -> Ids \cup {NoId}]
        /\ \A u \in Tickers : Scheduled(u)' <=> (Scheduled(u) \/ u = t)
        /\ \A u \in Tickers : IsDue(u)' <=> IsDue(u)
        /\ \A u \in Tickers : IsNext(u)' <=> (IsNext(u) \/ u = t)
        /\ \A u \in Tickers : \A i \in 1..Len(front') :
             front'[i] = u => id'[u] = [gen |-> gen, idx |-> i]
    BY <1>1, <1>4, <2>1, ScheduleTickFacts DEF TickersInv, FrameInv
  <2>3. TypeOK'
    BY <1>1, <1>2, <2>1, <2>2 DEF TickersInv, TypeOK
  <2>4. ~IsDue(t)
    BY <1>4 DEF TickersInv, FrameInv
  <2>5. OneCallbackEach'
    BY <1>1, <2>2, <2>4 DEF TickersInv, OneCallbackEach
  <2>6. TickingIsScheduled'
    BY <1>1, <1>3, <1>5, <2>2 DEF TickersInv, TickingIsScheduled
  <2>7. FrameInv'
    BY <1>1, <1>3, <1>5, <2>2 DEF TickersInv, FrameInv
  <2> QED BY <2>3, <2>5, <2>6, <2>7 DEF TickersInv
<1>6. CASE ~active[t]
  <2>1. UNCHANGED <<front, id, requested>>
    BY <1>6 DEF Unmute
  <2>2. /\ \A u \in Tickers : Scheduled(u)' <=> Scheduled(u)
        /\ \A u \in Tickers : IsDue(u)' <=> IsDue(u)
        /\ \A u \in Tickers : IsNext(u)' <=> IsNext(u)
        /\ \A u \in Tickers : Ticking(u)' <=> Ticking(u)
    BY <1>1, <1>3, <1>4, <1>6, <2>1 DEF Scheduled, IsDue, IsNext
  <2>3. TypeOK'
    BY <1>1, <1>2, <2>1 DEF TickersInv, TypeOK
  <2>4. OneCallbackEach' /\ TickingIsScheduled' /\ FrameInv'
    BY <1>1, <2>1, <2>2 DEF TickersInv, OneCallbackEach, TickingIsScheduled, FrameInv
  <2> QED BY <2>3, <2>4 DEF TickersInv
<1> QED BY <1>5, <1>6

LEMMA RunFrameCallbacksIInv ==
  ASSUME TickersInv, RunFrameCallbacks
  PROVE  TickersInv'
<1>1. /\ UNCHANGED <<active, muted, id, start, cur>>
      /\ phase = "idle" /\ phase' = "running" /\ due = <<>>
      /\ due' = front /\ front' = <<>> /\ requested' = FALSE
  BY DEF RunFrameCallbacks, tickerVars, TickersInv, FrameInv
<1>2. gen' \in 0..Generations - 1 /\ now' \in 0..Times - 1
  BY FrameCallbacksAssumption DEF TickersInv, TypeOK, RunFrameCallbacks, FrameCallbacksAssumption
<1>3. <<>> \in Seq(Tickers \cup {None}) /\ Len(<<>>) = 0
  BY EmptySeq
<1>4. ticks' \in [Tickers -> Nat] /\ \A t \in Tickers : ticks'[t] = 0
  BY DEF RunFrameCallbacks
<1>5. TypeOK'
  BY <1>1, <1>2, <1>3, <1>4 DEF TickersInv, TypeOK
<1>6. \A t \in Tickers :
        /\ IsDue(t)' <=> IsNext(t)
        /\ ~IsNext(t)' /\ ~IsDue(t)
        /\ Scheduled(t)' <=> Scheduled(t)
        /\ Ticking(t)' <=> Ticking(t)
  BY <1>1, <1>3 DEF IsDue, IsNext, Scheduled, Ticking
<1>7. OneCallbackEach'
  <2>1. ASSUME NEW t \in Tickers, NEW i \in 1..Len(due'), NEW j \in 1..Len(due'),
               due'[i] = t, due'[j] = t
        PROVE  i = j
    <3>1. id[t] = [gen |-> gen, idx |-> i] /\ id[t] = [gen |-> gen, idx |-> j]
      BY <1>1, <2>1 DEF TickersInv, OneCallbackEach
    <3> QED BY <3>1
  <2> QED BY <1>1, <1>3, <1>6, <2>1 DEF TickersInv, OneCallbackEach
<1>8. TickingIsScheduled'
  BY <1>1, <1>6 DEF TickersInv, TickingIsScheduled
<1>9. FrameInv'
  BY <1>1, <1>4, <1>6 DEF TickersInv, OneCallbackEach, FrameInv
<1> QED BY <1>5, <1>7, <1>8, <1>9 DEF TickersInv

\* Calling the first due callback, or skipping it when it has been cancelled.
LEMMA DueTail ==
  ASSUME TickersInv, due # <<>>, due' = Tail(due)
  PROVE  /\ due' \in Seq(Tickers \cup {None}) /\ Head(due) \in Tickers \cup {None}
         /\ \A t \in Tickers : IsDue(t)' <=> (IsDue(t) /\ t # Head(due))
         /\ \A t \in Tickers : \A i, j \in 1..Len(due') :
              due'[i] = t /\ due'[j] = t => i = j
         /\ Head(due) \in Tickers => IsDue(Head(due))
<1>1. due \in Seq(Tickers \cup {None})
  BY DEF TickersInv, TypeOK
<1>2. /\ Head(due) \in Tickers \cup {None} /\ Head(due) = due[1]
      /\ due' \in Seq(Tickers \cup {None})
      /\ Len(due') = Len(due) - 1 /\ Len(due) \in Nat \ {0}
      /\ \A i \in 1..Len(due') : due'[i] = due[i + 1]
  BY <1>1, HeadTailProperties, EmptySeq
<1>3. \A t \in Tickers : \A i, j \in 1..Len(due) : due[i] = t /\ due[j] = t => i = j
  BY DEF TickersInv, OneCallbackEach, FrameInv
<1>4. \A i \in 1..Len(due') : i + 1 \in 1..Len(due) /\ i + 1 # 1
  BY <1>2
<1>5. \A i \in 1..Len(due) : i # 1 => i - 1 \in 1..Len(due') /\ due'[i - 1] = due[i]
  BY <1>2
<1>6. 1 \in 1..Len(due)
  BY <1>2
<1>7. ASSUME NEW t \in Tickers
      PROVE  IsDue(t)' <=> (IsDue(t) /\ t # Head(due))
  <2>1. ASSUME IsDue(t)' PROVE IsDue(t) /\ t # Head(due)
    <3>1. PICK i \in 1..Len(due') : due'[i] = t
      BY <2>1 DEF IsDue
    <3>2. due[i + 1] = t /\ i + 1 \in 1..Len(due) /\ i + 1 # 1
      BY <1>2, <1>4, <3>1
    <3> QED BY <1>2, <1>3, <1>6, <3>2 DEF IsDue
  <2>2. ASSUME IsDue(t), t # Head(due) PROVE IsDue(t)'
    <3>1. PICK i \in 1..Len(due) : due[i] = t
      BY <2>2 DEF IsDue
    <3>2. i # 1
      BY <1>2, <2>2, <3>1
    <3> QED BY <1>5, <3>1, <3>2 DEF IsDue
  <2> QED BY <2>1, <2>2
<1>8. ASSUME NEW t \in Tickers, NEW i \in 1..Len(due'), NEW j \in 1..Len(due'),
             due'[i] = t, due'[j] = t
      PROVE  i = j
  <2>1. i + 1 = j + 1
    BY <1>2, <1>3, <1>4, <1>8
  <2> QED BY <2>1
<1>9. Head(due) \in Tickers => IsDue(Head(due))
  BY <1>2, <1>6 DEF IsDue
<1> QED BY <1>2, <1>7, <1>8, <1>9

LEMMA SkipCancelledIInv ==
  ASSUME TickersInv, SkipCancelled
  PROVE  TickersInv'
<1>1. /\ UNCHANGED <<active, muted, id, start, front, gen, phase, cur, requested, now, ticks>>
      /\ due # <<>> /\ due' = Tail(due) /\ Head(due) = None /\ phase = "running"
  BY DEF SkipCancelled, tickerVars
<1>2. None \notin Tickers
  BY FrameCallbacksAssumption DEF FrameCallbacksAssumption
<1>3. \A t \in Tickers :
        /\ IsDue(t)' <=> IsDue(t)
        /\ IsNext(t)' <=> IsNext(t)
        /\ Scheduled(t)' <=> Scheduled(t)
        /\ Ticking(t)' <=> Ticking(t)
  BY <1>1, <1>2, DueTail DEF IsNext, Scheduled, Ticking
<1>4. TypeOK'
  BY <1>1, DueTail DEF TickersInv, TypeOK
<1>5. OneCallbackEach'
  BY <1>1, <1>3, DueTail DEF TickersInv, OneCallbackEach
<1>6. TickingIsScheduled' /\ FrameInv'
  BY <1>1, <1>3 DEF TickersInv, TickingIsScheduled, FrameInv
<1> QED BY <1>4, <1>5, <1>6 DEF TickersInv

LEMMA TickIInv ==
  ASSUME TickersInv, BeginTick
  PROVE  TickersInv'
<1> DEFINE t == Head(due)
<1>1. due # <<>> /\ t # None /\ phase = "running"
  BY DEF BeginTick
<1>2. t \in Tickers /\ IsDue(t)
  <2>1. due \in Seq(Tickers \cup {None})
    BY DEF TickersInv, TypeOK
  <2>2. Head(due) \in Tickers \cup {None} /\ Head(due) = due[1] /\ Len(due) \in Nat \ {0}
    BY <1>1, <2>1, HeadTailProperties, EmptySeq
  <2> QED BY <1>1, <2>2 DEF IsDue
<1>3. Ticking(t) /\ Scheduled(t) /\ ticks[t] = 0
  BY <1>2 DEF TickersInv, OneCallbackEach, FrameInv
<1>4. /\ UNCHANGED <<active, muted, front, gen, requested, now>>
      /\ phase' = "tick" /\ cur' = t /\ due' = Tail(due)
      /\ id' = [id EXCEPT ![t] = NoId]
      /\ start' = [start EXCEPT ![t] = IF @ = 0 THEN now ELSE @]
      /\ ticks' = [ticks EXCEPT ![t] = @ + 1]
  BY <1>3 DEF BeginTick
<1>5. \A u \in Tickers :
        /\ IsDue(u)' <=> (IsDue(u) /\ u # t)
        /\ IsNext(u)' <=> IsNext(u)
        /\ Scheduled(u)' <=> (Scheduled(u) /\ u # t)
        /\ Ticking(u)' <=> Ticking(u)
  <2>1. \A u \in Tickers : IsDue(u)' <=> (IsDue(u) /\ u # t)
    BY <1>1, <1>4, DueTail
  <2>2. \A u \in Tickers : Scheduled(u)' <=> (Scheduled(u) /\ u # t)
    BY <1>2, <1>4 DEF TickersInv, TypeOK, Scheduled
  <2> QED BY <1>4, <2>1, <2>2 DEF IsNext, Ticking
<1> HIDE DEF t
<1>6. TypeOK'
  <2>1. due' \in Seq(Tickers \cup {None})
    BY <1>1, <1>4, DueTail
  <2>2. id' \in [Tickers -> Ids \cup {NoId}]
    BY <1>2, <1>4 DEF TickersInv, TypeOK
  <2>3. start' \in [Tickers -> 0..Times - 1] /\ ticks' \in [Tickers -> Nat]
    BY <1>2, <1>4 DEF TickersInv, TypeOK
  <2> QED BY <1>2, <1>4, <2>1, <2>2, <2>3 DEF TickersInv, TypeOK
<1>7. OneCallbackEach'
  <2>1. ~IsNext(t) /\ phase # "panicked"
    BY <1>1, <1>2 DEF TickersInv, OneCallbackEach
  <2>2. ASSUME NEW u \in Tickers, NEW i \in 1..Len(front'), front'[i] = u
        PROVE  id'[u] = [gen |-> gen', idx |-> i]
    <3>1. IsNext(u) /\ u # t /\ id[u] = [gen |-> gen, idx |-> i]
      BY <1>4, <2>1, <2>2 DEF TickersInv, OneCallbackEach, IsNext
    <3> QED BY <1>2, <1>4, <3>1 DEF TickersInv, TypeOK
  <2>3. \A u \in Tickers : \A i, j \in 1..Len(due') :
          due'[i] = u /\ due'[j] = u => i = j
    BY <1>1, <1>4, DueTail
  <2> QED BY <1>5, <2>1, <2>2, <2>3 DEF TickersInv, OneCallbackEach
<1>8. TickingIsScheduled'
  BY <1>1, <1>4, <1>5 DEF TickersInv, TickingIsScheduled
<1>9. FrameInv'
  <2>1. \A u \in Tickers : ticks'[u] <= 1 /\ (IsDue(u)' => ticks'[u] = 0)
    BY <1>2, <1>3, <1>4, <1>5 DEF TickersInv, TypeOK, FrameInv
  <2> QED BY <1>2, <1>4, <1>5, <2>1 DEF TickersInv, FrameInv
<1> QED BY <1>6, <1>7, <1>8, <1>9 DEF TickersInv

LEMMA EndTickIInv ==
  ASSUME TickersInv, EndTick
  PROVE  TickersInv'
<1>1. /\ UNCHANGED <<active, muted, start, gen, due, now, ticks>>
      /\ phase = "tick" /\ phase' = "running" /\ cur' = None
      /\ cur \in Tickers /\ ~IsDue(cur)
  BY DEF EndTick, TickersInv, FrameInv
<1>2. \A u \in Tickers : (Ticking(u)' <=> Ticking(u)) /\ (IsDue(u)' <=> IsDue(u))
  BY <1>1 DEF Ticking, IsDue
<1>3. CASE Ticking(cur) /\ ~Scheduled(cur)
  <2>1. ScheduleTick(cur) /\ requested' = TRUE
    BY <1>3 DEF EndTick, ScheduleTick
  <2>2. /\ front' \in Seq(Tickers \cup {None})
        /\ id' \in [Tickers -> Ids \cup {NoId}]
        /\ \A u \in Tickers : Scheduled(u)' <=> (Scheduled(u) \/ u = cur)
        /\ \A u \in Tickers : IsNext(u)' <=> (IsNext(u) \/ u = cur)
        /\ \A u \in Tickers : \A i \in 1..Len(front') :
             front'[i] = u => id'[u] = [gen |-> gen, idx |-> i]
    BY <1>1, <1>3, <2>1, ScheduleTickFacts DEF TickersInv
  <2>3. TypeOK'
    BY <1>1, <2>1, <2>2 DEF TickersInv, TypeOK
  <2>4. OneCallbackEach'
    BY <1>1, <1>2, <2>2 DEF TickersInv, OneCallbackEach
  <2>5. TickingIsScheduled'
    BY <1>1, <1>2, <1>3, <2>2 DEF TickersInv, TickingIsScheduled
  <2>6. FrameInv'
    BY <1>1, <1>2, <1>3, <2>2 DEF TickersInv, FrameInv
  <2> QED BY <2>3, <2>4, <2>5, <2>6 DEF TickersInv
<1>4. CASE ~(Ticking(cur) /\ ~Scheduled(cur))
  <2>1. UNCHANGED <<front, id, requested>>
    BY <1>4 DEF EndTick
  <2>2. \A u \in Tickers : (Scheduled(u)' <=> Scheduled(u)) /\ (IsNext(u)' <=> IsNext(u))
    BY <2>1 DEF Scheduled, IsNext
  <2>3. TypeOK'
    BY <1>1, <2>1 DEF TickersInv, TypeOK
  <2>4. OneCallbackEach'
    BY <1>1, <1>2, <2>1, <2>2 DEF TickersInv, OneCallbackEach
  <2>5. TickingIsScheduled'
    BY <1>1, <1>2, <1>4, <2>2 DEF TickersInv, TickingIsScheduled, FrameInv
  <2>6. FrameInv'
    BY <1>1, <1>2, <2>2 DEF TickersInv, FrameInv
  <2> QED BY <2>3, <2>4, <2>5, <2>6 DEF TickersInv
<1> QED BY <1>3, <1>4

LEMMA EndFrameIInv ==
  ASSUME TickersInv, EndFrame \/ UNCHANGED callbackVars
  PROVE  TickersInv'
<1>1. /\ UNCHANGED <<active, muted, id, start, front, gen, due, cur, requested, now, ticks>>
      /\ (phase' = phase \/ (phase = "running" /\ phase' = "idle" /\ due = <<>>))
  BY DEF EndFrame, callbackVars, tickerVars
<1>2. \A u \in Tickers :
        /\ IsDue(u)' <=> IsDue(u)
        /\ IsNext(u)' <=> IsNext(u)
        /\ Scheduled(u)' <=> Scheduled(u)
        /\ Ticking(u)' <=> Ticking(u)
  BY <1>1 DEF IsDue, IsNext, Scheduled, Ticking
<1>3. TypeOK' /\ OneCallbackEach'
  BY <1>1, <1>2 DEF TickersInv, TypeOK, OneCallbackEach, FrameInv
<1>4. TickingIsScheduled' /\ FrameInv'
  BY <1>1, <1>2 DEF TickersInv, TickingIsScheduled, FrameInv
<1> QED BY <1>3, <1>4 DEF TickersInv

\* The invariant of the discipline.
THEOREM TickersInvariance ==
  ASSUME CancelDue = FALSE
  PROVE  TickersSpec => []TickersInv
<1>1. TickersInv /\ [TickersNext]_callbackVars => TickersInv'
  <2> SUFFICES ASSUME TickersInv, [TickersNext]_callbackVars PROVE TickersInv'
    OBVIOUS
  <2>1. CASE Program
    BY <2>1, StartIInv, StopOrMuteIInv, UnmuteIInv DEF Program
  <2>2. CASE Frame
    BY <2>2, RunFrameCallbacksIInv, SkipCancelledIInv, TickIInv, EndTickIInv,
       EndFrameIInv DEF Frame
  <2>3. CASE UNCHANGED callbackVars
    BY <2>3, EndFrameIInv
  <2> QED BY <2>1, <2>2, <2>3 DEF TickersNext
<1> QED BY <1>1, TickersInitInv, PTL DEF TickersSpec

\* No callback ever runs for a ticker that is stopped, muted or unscheduled:
\* the assertions of PlainTicker.tick cannot fail.
THEOREM AssertionsNeverFail ==
  ASSUME CancelDue = FALSE
  PROVE  TickersSpec => []AssertionsHold
<1>1. TickersInv => AssertionsHold
  BY DEF TickersInv, FrameInv, AssertionsHold
<1> QED BY <1>1, TickersInvariance, PTL

\* However often tickers are stopped, started, muted and unmuted, none ticks
\* twice in a frame.
THEOREM AtMostOncePerFrame ==
  ASSUME CancelDue = FALSE
  PROVE  TickersSpec => []OncePerFrame
<1>1. TickersInv => OncePerFrame
  BY DEF TickersInv, FrameInv, OncePerFrame
<1> QED BY <1>1, TickersInvariance, PTL

\* A ticker is registered for the next tick exactly while it is ticking.
THEOREM RegisteredWhileTicking ==
  ASSUME CancelDue = FALSE
  PROVE  TickersSpec => [](TypeOK /\ OneCallbackEach /\ TickingIsScheduled)
<1>1. TickersInv => TypeOK /\ OneCallbackEach /\ TickingIsScheduled
  BY DEF TickersInv
<1> QED BY <1>1, TickersInvariance, PTL

\* A ticker has one callback while it believes so, and its identifier cancels it.
THEOREM OneRegistration ==
  ASSUME CancelDue = FALSE
  PROVE  TickersSpec => []OneCallbackEach
<1>1. TickersInv => OneCallbackEach
  BY DEF TickersInv
<1> QED BY <1>1, TickersInvariance, PTL

\* Every registered callback has a frame requested for it, whoever schedules,
\* cancels or runs callbacks in whatever order.
THEOREM FrameAlwaysRequested ==
  ASSUME CancelDue = FALSE
  PROVE  TickersSpec => []FrameIsRequested
<1>1. TickersInit => FrameIsRequested
  <2> SUFFICES ASSUME TickersInit PROVE 1..Len(front) = {}
    BY DEF FrameIsRequested, IsNext
  <2>1. Len(front) = 0
    BY EmptySeq DEF TickersInit
  <2> QED BY <2>1
<1>2. TickersInv /\ FrameIsRequested /\ [TickersNext]_callbackVars => FrameIsRequested'
  <2> SUFFICES ASSUME TickersInv, FrameIsRequested, [TickersNext]_callbackVars PROVE FrameIsRequested'
    OBVIOUS
  <2>1. CASE UNCHANGED <<front, requested>>
    BY <2>1 DEF FrameIsRequested, IsNext
  <2>2. ASSUME NEW t \in Tickers, ScheduleTick(t)
        PROVE  FrameIsRequested'
    BY <2>2 DEF ScheduleTick, FrameIsRequested
  <2>3. ASSUME NEW t \in Tickers, StopTicker(t) \/ Mute(t)
        PROVE  FrameIsRequested'
    <3>1. /\ UnscheduleTick(t) /\ ~IsDue(t)
          /\ gen' = gen /\ due' = due /\ requested' = requested
      BY <2>3 DEF StopTicker, Mute, MayCancel, UnscheduleTick, frameVars
    <3>2. \A u \in Tickers : IsNext(u)' => IsNext(u)
      BY <3>1, UnscheduleTickFacts DEF TickersInv, FrameInv
    <3> QED BY <3>1, <3>2 DEF FrameIsRequested
  <2>4. CASE RunFrameCallbacks
    <3>1. Len(front') = 0
      BY <2>4, EmptySeq DEF RunFrameCallbacks
    <3>2. 1..Len(front') = {}
      BY <3>1
    <3> QED BY <3>2 DEF FrameIsRequested, IsNext
  <2>5. ASSUME NEW t \in Tickers, StartTicker(t) \/ Unmute(t)
        PROVE  FrameIsRequested'
    BY <2>1, <2>2, <2>5 DEF StartTicker, Unmute
  <2>6. CASE EndTick
    <3>1. cur \in Tickers
      BY <2>6 DEF EndTick, TickersInv, FrameInv
    <3> QED BY <2>1, <2>2, <2>6, <3>1 DEF EndTick
  <2>7. CASE SkipCancelled \/ BeginTick \/ EndFrame \/ UNCHANGED callbackVars
    BY <2>1, <2>7 DEF SkipCancelled, BeginTick, EndFrame, callbackVars
  <2> QED BY <2>3, <2>4, <2>5, <2>6, <2>7 DEF TickersNext, Program, Frame
<1> QED BY <1>1, <1>2, TickersInvariance, PTL DEF TickersSpec

-----------------------------------------------------------------------------
(* The controller *)

\* The program's listener makes calls only once an animation has ended.
ActsAtTheEnd == ActOn \cap Directions = {}

\* The weaker condition under which nothing fails: an animation that is not
\* repeated tells nobody of its direction while its first value is computed.
ActsSafely == ActsAtTheEnd \/ Counts = {}

-----------------------------------------------------------------------------
(* Types *)

Simulations ==
  {NoSimulation}
    \cup [kind : {"interpolation"}, begin : Int, end : Int, period : Nat \ {0}]
    \cup [kind : {"repeating"}, reverse : BOOLEAN, period : Nat \ {0}, count : Counts,
          initialTime : Int]

Controllers ==
  [value : 0..Upper, direction : Directions, status : Statuses, reported : Statuses,
   simulation : Simulations, duration : Nat, active : BOOLEAN, elapsed : Int,
   listening : BOOLEAN]

Steps ==
  {Check, <<"turn">>}
    \cup {<<"tell", s>> : s \in Statuses} \cup {<<"curve", s>> : s \in Statuses}
    \cup {<<"begin", v>> : v \in Int} \cup {<<"ticked", v, d>> : v \in Int, d \in Int}

TypeInv == c \in Controllers /\ todo \in Seq(Steps)

-----------------------------------------------------------------------------
(* The invariant *)

\* A step that has been put off and needs the simulation.
Pending(step) == step[1] \in {"begin", "ticked"}

\* A step that makes no calls if the program acts only at the end.
Quiet(step) ==
  \/ step[1] = "check"
  \/ step[1] \in {"tell", "curve"} /\ step[2] \in Directions

\* Before a simulation begins or a tick returns, the listeners may only be told
\* of a direction, so that the simulation is still the one that was set.
PendingInv ==
  \A i \in 1..Len(todo) :
    Pending(todo[i]) =>
      /\ \A j \in 1..i-1 : Quiet(todo[j])
      /\ i > 1 => c.status \in Directions /\ Counts # {}
      /\ c.simulation # NoSimulation /\ c.listening
      /\ c.active <=> todo[i][1] = "ticked"

\* The ticker runs while there is a simulation.
RunningInv ==
  /\ c.active => c.simulation # NoSimulation /\ c.listening /\ c.status = c.direction
  /\ c.simulation # NoSimulation /\ c.listening =>
       c.active \/ \E i \in 1..Len(todo) : todo[i][1] = "begin"

\* A change of the status is reported before anything else happens.
ReportInv == c.reported = c.status \/ (todo # <<>> /\ Head(todo) = Check)

IInv == TypeInv /\ PendingInv /\ RunningInv /\ ReportInv /\ failed = FALSE

\* The curve follows the reported status at once when that is a direction; it is
\* told late only that an animation has ended.
CurveInv ==
  /\ \A i \in 1..Len(todo) :
       todo[i][1] = "curve" /\ todo[i][2] \in Directions =>
         /\ todo[i][2] = c.reported
         /\ i = 1 \/ (i = 2 /\ todo[1] = <<"tell", c.reported>>)
  /\ c.listening /\ c.reported \in Directions =>
       \/ curve \in {"none", c.reported}
       \/ \E i \in 1..Len(todo) : todo[i] = <<"curve", c.reported>>

-----------------------------------------------------------------------------
(* Lemmas *)

LEMMA XType ==
  ASSUME NEW s \in Simulations, s # NoSimulation, NEW d \in Int
  PROVE  X(s, d) \in Int
<1> USE ControllerAssumption
<1>1. CASE s.kind = "interpolation"
  <2>1. s.begin \in Int /\ s.end \in Int /\ s.period \in Nat \ {0}
    BY <1>1 DEF Simulations, NoSimulation
  <2>2. ((s.end - s.begin) * d) \div s.period \in Int
    BY <2>1
  <2> QED BY <1>1, <2>1, <2>2 DEF X
<1>2. CASE s.kind = "repeating"
  <2>1. s.initialTime \in Int /\ s.period \in Nat \ {0}
    BY <1>2 DEF Simulations, NoSimulation
  <2>2. (((d + s.initialTime) % s.period) * Upper) \div s.period \in Int
    BY <2>1
  <2> QED BY <1>2, <2>2 DEF X
<1> QED BY <1>1, <1>2 DEF Simulations

LEMMA LaterType ==
  ASSUME NEW s \in Simulations, s # NoSimulation, NEW d \in Int
  PROVE  Later(s, d) \in Int
<1>1. CASE s.kind = "interpolation"
  BY <1>1 DEF Simulations, NoSimulation, Later, Endless
<1>2. CASE s.kind = "repeating"
  <2>1. s.initialTime \in Int /\ s.period \in Nat \ {0} /\ s.count \in Nat
    BY <1>2, ControllerAssumption DEF Simulations, NoSimulation
  <2>2. ExitTime(s) \in Int /\ d % (2 * s.period) \in Int
    BY <2>1 DEF ExitTime
  <2> QED BY <1>2, <2>2 DEF Later, Endless
<1> QED BY <1>1, <1>2 DEF Simulations

LEMMA ClampedType ==
  ASSUME NEW v \in Int PROVE Clamped(v) \in 0..Upper
  BY ControllerAssumption DEF Clamped

\* Putting one or two steps before others.
LEMMA Prefixed ==
  ASSUME NEW s \in Seq(Steps), NEW a \in Steps
  PROVE  LET t == <<a>> \o s IN
         /\ t \in Seq(Steps) /\ Len(t) = Len(s) + 1 /\ t # <<>> /\ Head(t) = a
         /\ t[1] = a /\ \A i \in 1..Len(s) : t[i + 1] = s[i]
         /\ \A i \in 2..Len(t) : t[i] = s[i - 1]
<1> DEFINE t == <<a>> \o s
<1>1. <<a>> \in Seq(Steps) /\ Len(<<a>>) = 1 /\ Len(s) \in Nat
  OBVIOUS
<1>2. /\ t \in Seq(Steps) /\ Len(t) = Len(<<a>>) + Len(s)
      /\ \A i \in 1..Len(<<a>>) + Len(s) :
           t[i] = IF i <= Len(<<a>>) THEN <<a>>[i] ELSE s[i - Len(<<a>>)]
  BY <1>1, ConcatProperties
<1>3. t # <<>> /\ Head(t) = t[1]
  BY <1>1, <1>2
<1> HIDE DEF t
<1> QED BY <1>1, <1>2, <1>3 DEF t

LEMMA TwicePrefixed ==
  ASSUME NEW s \in Seq(Steps), NEW a \in Steps, NEW b \in Steps
  PROVE  LET t == <<a, b>> \o s IN
         /\ t \in Seq(Steps) /\ Len(t) = Len(s) + 2 /\ t # <<>> /\ Head(t) = a
         /\ t[1] = a /\ t[2] = b /\ \A i \in 1..Len(s) : t[i + 2] = s[i]
         /\ \A i \in 3..Len(t) : t[i] = s[i - 2]
<1> DEFINE t == <<a, b>> \o s
<1>1. <<a, b>> \in Seq(Steps) /\ Len(<<a, b>>) = 2 /\ Len(s) \in Nat
  OBVIOUS
<1>2. /\ t \in Seq(Steps) /\ Len(t) = Len(<<a, b>>) + Len(s)
      /\ \A i \in 1..Len(<<a, b>>) + Len(s) :
           t[i] = IF i <= Len(<<a, b>>) THEN <<a, b>>[i] ELSE s[i - Len(<<a, b>>)]
  BY <1>1, ConcatProperties
<1>3. t # <<>> /\ Head(t) = t[1]
  BY <1>1, <1>2
<1> HIDE DEF t
<1> QED BY <1>1, <1>2, <1>3 DEF t

\* Taking the first step off.
LEMMA Rest ==
  ASSUME todo \in Seq(Steps), todo # <<>>
  PROVE  /\ Head(todo) = todo[1] /\ Head(todo) \in Steps /\ Len(todo) \in Nat \ {0}
         /\ Tail(todo) \in Seq(Steps) /\ Len(Tail(todo)) = Len(todo) - 1
         /\ \A i \in 1..Len(todo) - 1 : Tail(todo)[i] = todo[i + 1]
  BY HeadTailProperties, EmptySeq


-----------------------------------------------------------------------------
(* What a call does to the controller and to what remains to be done.  The *)
(* status and what was reported before the call are c's.                   *)

\* The animation is over and a change of the status is to be reported.
Settles(rest) ==
  /\ c' \in Controllers /\ ~c'.active /\ c'.simulation = NoSimulation
  /\ c'.listening = c.listening /\ c'.reported = c.reported
  /\ todo' = <<Check>> \o rest

\* The animation is over, or the controller is disposed of; or nothing changes
\* but the duration.
Halts(rest) ==
  /\ c' \in Controllers /\ ~c'.active
  /\ c'.simulation = NoSimulation \/ ~c'.listening
  /\ c'.listening => c.listening
  /\ c'.reported = c.reported /\ c'.status = c.status
  /\ todo' = rest

Resets(rest) ==
  /\ \E d \in Nat : c' = [c EXCEPT !.duration = d]
  /\ todo' = rest

\* A simulation has been set and is about to begin.
Starts(rest) ==
  /\ c' \in Controllers /\ ~c'.active /\ c'.simulation # NoSimulation
  /\ c'.listening = c.listening /\ c'.reported = c.reported
  /\ \E v \in Int :
       \/ /\ todo' = <<Check, <<"begin", v>>>> \o rest
          /\ c'.status \in Directions /\ Counts # {}
       \/ /\ todo' = <<<<"begin", v>>>> \o rest
          /\ c'.status = c.status

Outcome(rest) ==
  /\ Settles(rest) \/ Halts(rest) \/ Resets(rest) \/ Starts(rest)
  /\ UNCHANGED <<curve, failed>>

LEMMA Pair ==
  ASSUME NEW a \in Steps, NEW b \in Steps
  PROVE  <<a>> \o <<b>> = <<a, b>>
<1>1. <<b>> \in Seq(Steps) /\ <<a, b>> \in Seq(Steps) /\ Len(<<b>>) = 1 /\ Len(<<a, b>>) = 2
  OBVIOUS
<1>2. <<a>> \o <<b>> \in Seq(Steps) /\ Len(<<a>> \o <<b>>) = 2
      /\ (<<a>> \o <<b>>)[1] = a /\ (<<a>> \o <<b>>)[2] = b
  <2>1. (<<a>> \o <<b>>)[1 + 1] = <<b>>[1]
    BY <1>1, Prefixed
  <2> QED BY <1>1, <2>1, Prefixed
<1>3. \A i \in 1..2 : (<<a>> \o <<b>>)[i] = <<a, b>>[i]
  BY <1>2
<1> QED BY <1>1, <1>2, <1>3, SeqEqual

LEMMA StartOutcome ==
  ASSUME NEW rest \in Seq(Steps), NEW k \in Controllers, ~k.active,
         k.listening = c.listening, k.reported = c.reported, k.status = c.status,
         NEW s \in Simulations, s # NoSimulation,
         s.kind = "repeating" => Counts # {},
         failed = FALSE, UNCHANGED curve, Start(k, s, rest)
  PROVE  Outcome(rest)
<1> DEFINE k1 == [k EXCEPT !.simulation = s]
<1>1. k1 \in Controllers /\ ~k1.active /\ k1.simulation = s /\ k1.listening = c.listening
      /\ k1.reported = c.reported /\ k1.status = c.status
  BY DEF Controllers
<1>2. /\ c' = Directed(k1, s, 0) /\ todo' = ChecksOfX(s) \o <<Begin(s)>> \o rest
      /\ UNCHANGED <<curve, failed>>
  BY DEF Start
<1>3. X(s, 0) \in Int /\ Begin(s) = <<"begin", X(s, 0)>>
  BY XType DEF Begin
<1>4. CASE s.kind = "interpolation"
  <2>1. c' = k1 /\ todo' = <<>> \o <<Begin(s)>> \o rest
    BY <1>2, <1>4 DEF Directed, ChecksOfX
  <2>2. todo' = <<Begin(s)>> \o rest
    BY <1>3, <2>1
  <2>3. Starts(rest)
    <3> HIDE DEF k1
    <3> QED BY <1>1, <1>3, <2>1, <2>2 DEF Starts
  <2> QED BY <1>2, <2>3 DEF Outcome
<1>5. CASE s.kind = "repeating"
  <2>1. PICK d \in Directions : c' = [k1 EXCEPT !.direction = d, !.status = d]
    BY <1>2, <1>5 DEF Directed, Running, Directions
  <2>2. c' \in Controllers /\ ~c'.active /\ c'.simulation = s /\ c'.status \in Directions
        /\ c'.listening = c.listening /\ c'.reported = c.reported
    <3> HIDE DEF k1
    <3> QED BY <1>1, <2>1 DEF Controllers, Statuses, Directions
  <2>3. todo' = <<Check, Begin(s)>> \o rest
    <3>1. ChecksOfX(s) = <<Check>>
      BY <1>5 DEF ChecksOfX
    <3>2. <<Check>> \in Seq(Steps) /\ Begin(s) \in Steps
      BY <1>3 DEF Steps
    <3>3. Check \in Steps
      BY DEF Steps
    <3> QED BY <1>2, <3>1, <3>2, <3>3, Pair
  <2>4. Starts(rest)
    <3> HIDE DEF k1
    <3> QED BY <1>3, <1>5, <2>2, <2>3 DEF Starts
  <2> QED BY <1>2, <2>4 DEF Outcome
<1> QED BY <1>4, <1>5 DEF Simulations

LEMMA StoppedType ==
  ASSUME NEW k \in Controllers
  PROVE  /\ Stopped(k) \in Controllers /\ ~Stopped(k).active
         /\ Stopped(k).simulation = NoSimulation
         /\ Stopped(k).value = k.value /\ Stopped(k).direction = k.direction
         /\ Stopped(k).status = k.status /\ Stopped(k).reported = k.reported
         /\ Stopped(k).duration = k.duration /\ Stopped(k).listening = k.listening
<1>1. NoSimulation \in Simulations /\ Unset \in Int
  BY DEF Simulations, Unset
<1> QED BY <1>1 DEF Stopped, Controllers

LEMMA AnimateToOutcome ==
  ASSUME NEW rest \in Seq(Steps), NEW k \in Controllers, NEW v \in 0..Upper,
         k.listening = c.listening, k.reported = c.reported, k.status = c.status,
         failed = FALSE, UNCHANGED curve, AnimateTo(k, v, rest)
  PROVE  Outcome(rest)
<1> DEFINE period == IF v = k.value THEN 0 ELSE k.duration
           k1 == Stopped(k)
<1>1. k1 \in Controllers /\ ~k1.active /\ k1.simulation = NoSimulation
      /\ k1.listening = c.listening /\ k1.reported = c.reported /\ k1.status = c.status
      /\ k1.value \in 0..Upper
  <2>1. Stopped(k).value \in 0..Upper
    BY StoppedType DEF Controllers
  <2> QED BY <2>1, StoppedType
<1>2. CASE period = 0
  <2>1. c' = [k1 EXCEPT !.value = Clamped(v), !.status = Ended(k.direction)]
        /\ todo' = <<Check>> \o rest /\ UNCHANGED failed
    BY <1>2 DEF AnimateTo
  <2>2. Ended(k.direction) \in Statuses /\ Clamped(v) \in 0..Upper
    BY ClampedType, ControllerAssumption DEF Ended, Statuses
  <2>3. Settles(rest)
    <3> HIDE DEF k1
    <3> QED BY <1>1, <2>1, <2>2 DEF Settles, Controllers
  <2> QED BY <2>1, <2>3 DEF Outcome
<1>3. CASE period # 0
  <2> DEFINE s == Interpolation(k1.value, v, period)
  <2>1. period \in Nat \ {0} /\ v \in Int /\ k1.value \in Int
    BY <1>1, <1>3, ControllerAssumption DEF Controllers
  <2>2. s \in Simulations /\ s.kind = "interpolation" /\ s # NoSimulation
    BY <2>1 DEF Interpolation, Simulations, NoSimulation
  <2>3. Start(k1, s, rest)
    BY <1>3 DEF AnimateTo
  <2> HIDE DEF k1, s
  <2> QED BY <1>1, <2>2, <2>3, StartOutcome
<1> QED BY <1>2, <1>3

LEMMA CallOutcome ==
  ASSUME TypeInv, NEW rest \in Seq(Steps), failed = FALSE, Call(rest)
  PROVE  Outcome(rest) /\ c.listening
<1> USE ControllerAssumption DEF TypeInv
<1>1. UNCHANGED curve /\ c.listening
  BY DEF Call
<1>2. ASSUME NEW v \in 0..Upper, SetValue(v, rest)
      PROVE  Outcome(rest)
  <2> DEFINE k1 == Stopped(c)
  <2>1. k1 \in Controllers /\ ~k1.active /\ k1.simulation = NoSimulation
        /\ k1.listening = c.listening /\ k1.reported = c.reported /\ k1.direction \in Directions
    BY StoppedType DEF Controllers
  <2>2. Clamped(v) \in 0..Upper
    <3>1. v \in Int
      OBVIOUS
    <3> QED BY <3>1, ClampedType, Zenon
  <2>3. PICK t \in Statuses : c' = [k1 EXCEPT !.value = Clamped(v), !.status = t]
    <3> HIDE DEF k1
    <3> QED BY <1>2, <2>1 DEF SetValue, Placed, Running, Statuses, Directions, k1
  <2>4. Settles(rest)
    <3> HIDE DEF k1
    <3> QED BY <1>2, <2>1, <2>2, <2>3 DEF Settles, Controllers, SetValue
  <2> QED BY <1>1, <1>2, <2>4 DEF Outcome, SetValue
<1>3. ASSUME NEW v \in 0..Upper, NEW d \in Directions, AnimateTowards(v, d, rest)
      PROVE  Outcome(rest)
  <2> DEFINE k == [c EXCEPT !.direction = d]
  <2>1. k \in Controllers /\ k.listening = c.listening /\ k.reported = c.reported
        /\ k.status = c.status
    BY DEF Controllers
  <2>2. AnimateTo(k, v, rest)
    BY <1>3 DEF AnimateTowards
  <2> HIDE DEF k
  <2> QED BY <1>1, <2>1, <2>2, AnimateToOutcome
<1>4. ASSUME Forward(rest) \/ Reverse(rest) \/ ToggleDirection(rest)
      PROVE  Outcome(rest)
  <2>1. AnimateTowards(Upper, "Forward", rest) \/ AnimateTowards(0, "Reverse", rest)
    BY <1>4 DEF Forward, Reverse, ToggleDirection, AnimateTowards
  <2>2. Upper \in 0..Upper /\ 0 \in 0..Upper
    OBVIOUS
  <2> QED BY <1>3, <2>1, <2>2 DEF Directions
<1>5. ASSUME c.duration > 0, NEW r \in BOOLEAN, NEW n \in Counts, Repeat(r, n, rest)
      PROVE  Outcome(rest)
  <2> DEFINE k1 == Stopped(c)
             s == Repeating(k1.value, r, k1.duration, n)
  <2>1. k1 \in Controllers /\ ~k1.active /\ k1.listening = c.listening
        /\ k1.reported = c.reported /\ k1.status = c.status /\ k1.duration = c.duration
        /\ k1.value \in Int
    <3>1. Stopped(c).value \in Int
      BY StoppedType DEF Controllers
    <3> QED BY <3>1, StoppedType
  <2>2. c.duration \in Nat \ {0} /\ n \in Nat
    BY <1>5 DEF Controllers
  <2>3. (k1.value * c.duration) \div Upper \in Int
    <3> HIDE DEF k1
    <3> QED BY <2>1, <2>2
  <2>4. s \in Simulations /\ s.kind = "repeating" /\ s # NoSimulation
    <3> HIDE DEF k1
    <3> QED BY <2>1, <2>2, <2>3 DEF Repeating, Simulations, NoSimulation
  <2>5. Start(k1, s, rest)
    BY <1>5 DEF Repeat
  <2> HIDE DEF k1, s
  <2> QED BY <1>1, <2>1, <2>4, <2>5, StartOutcome
<1>6. ASSUME Stop(rest)
      PROVE  Outcome(rest)
  BY <1>1, <1>6, StoppedType DEF Outcome, Halts, Stop
<1>7. ASSUME NEW d \in Durations, SetDuration(d, rest)
      PROVE  Outcome(rest)
  BY <1>1, <1>7 DEF SetDuration, Outcome, Resets
<1>8. ASSUME Dispose(rest)
      PROVE  Outcome(rest)
  <2>1. Unset \in Int
    BY DEF Unset
  <2>2. Halts(rest)
    BY <1>1, <1>8, <2>1 DEF Dispose, Halts, Controllers
  <2> QED BY <1>1, <1>8, <2>2 DEF Outcome, Dispose
<1> QED BY <1>1, <1>2, <1>3, <1>4, <1>5, <1>6, <1>7, <1>8 DEF Call

-----------------------------------------------------------------------------
(* The invariant is preserved *)

\* Nothing is pending behind a step that is not quiet.
LEMMA NothingBehind ==
  ASSUME TypeInv, PendingInv, todo # <<>>, ~Quiet(todo[1])
  PROVE  \A i \in 2..Len(todo) : ~Pending(todo[i])
  BY Rest DEF PendingInv, TypeInv

LEMMA ThenRest ==
  ASSUME TypeInv, todo # <<>>, Then(<<>>)
  PROVE  /\ todo' \in Seq(Steps) /\ Len(todo') = Len(todo) - 1
         /\ \A i \in 1..Len(todo') : todo'[i] = todo[i + 1]
         /\ \A i \in 2..Len(todo) : i - 1 \in 1..Len(todo') /\ todo'[i - 1] = todo[i]
<1>1. Tail(todo) \in Seq(Steps)
  BY Rest DEF TypeInv
<1>2. todo' = Tail(todo)
  BY <1>1, ConcatEmptySeq DEF Then
<1> QED BY <1>2, Rest DEF TypeInv

LEMMA ThenOne ==
  ASSUME TypeInv, todo # <<>>, NEW a \in Steps, Then(<<a>>)
  PROVE  /\ todo' \in Seq(Steps) /\ Len(todo') = Len(todo) /\ Head(todo') = a
         /\ todo' # <<>> /\ todo'[1] = a /\ \A i \in 2..Len(todo) : todo'[i] = todo[i]
<1>1. Tail(todo) \in Seq(Steps)
  BY Rest DEF TypeInv
<1> QED BY <1>1, Prefixed, Rest DEF TypeInv, Then

LEMMA ThenTwo ==
  ASSUME TypeInv, todo # <<>>, NEW a \in Steps, NEW b \in Steps, Then(<<a, b>>)
  PROVE  /\ todo' \in Seq(Steps) /\ Len(todo') = Len(todo) + 1
         /\ todo' # <<>> /\ todo'[1] = a /\ todo'[2] = b
         /\ \A i \in 3..Len(todo') : todo'[i] = todo[i - 1]
         /\ \A i \in 2..Len(todo) : i + 1 \in 3..Len(todo') /\ todo'[i + 1] = todo[i]
<1>1. Tail(todo) \in Seq(Steps)
  BY Rest DEF TypeInv
<1> QED BY <1>1, TwicePrefixed, Rest DEF TypeInv, Then

\* A step that tells nobody anything, or is told something that is not acted on.
LEMMA QuietStep ==
  ASSUME IInv, todo # <<>>, ~Pending(todo[1]), Then(<<>>),
         \E t \in Statuses : c' = [c EXCEPT !.reported = t], c'.reported = c'.status,
         failed' = failed
  PROVE  IInv'
<1> USE DEF IInv
<1>1. c' \in Controllers /\ c'.simulation = c.simulation /\ c'.active = c.active
      /\ c'.status = c.status /\ c'.direction = c.direction /\ c'.listening = c.listening
  BY DEF TypeInv, Controllers
<1>2. TypeInv'
  BY <1>1, ThenRest DEF TypeInv
<1>3. PendingInv'
  <2> SUFFICES ASSUME NEW i \in 1..Len(todo'), Pending(todo'[i])
               PROVE  /\ \A j \in 1..i-1 : Quiet(todo'[j])
                      /\ i > 1 => c'.status \in Directions /\ Counts # {}
                      /\ c'.simulation # NoSimulation /\ c'.listening
                      /\ c'.active <=> todo'[i][1] = "ticked"
    BY DEF PendingInv, Pending, Quiet
  <2>1. Len(todo) \in Nat /\ Len(todo') = Len(todo) - 1
    BY ThenRest, Rest DEF TypeInv
  <2>2. i + 1 \in 1..Len(todo) /\ todo'[i] = todo[i + 1]
    BY <2>1, ThenRest
  <2>3. \A j \in 1..i : Quiet(todo[j])
    BY <2>2 DEF PendingInv
  <2>4. ASSUME NEW j \in 1..i-1
        PROVE  Quiet(todo'[j])
    <3>1. j + 1 \in 1..i /\ j \in 1..Len(todo')
      BY <2>1
    <3>2. todo'[j] = todo[j + 1] /\ Quiet(todo[j + 1])
      BY <2>3, <3>1, ThenRest
    <3> QED BY <3>2
  <2> QED BY <1>1, <2>2, <2>4 DEF PendingInv
<1>4. RunningInv'
  <2>1. \A i \in 1..Len(todo) : todo[i][1] = "begin" =>
          \E j \in 1..Len(todo') : todo'[j][1] = "begin"
    BY ThenRest DEF Pending, TypeInv
  <2> QED BY <1>1, <2>1 DEF RunningInv
<1> QED BY <1>2, <1>3, <1>4 DEF ReportInv

LEMMA CallKeeps ==
  ASSUME IInv, todo = <<>> \/ todo[1] = <<"turn">>, Call(todo)
  PROVE  IInv'
<1> USE DEF IInv
<1>1. todo \in Seq(Steps) /\ c \in Controllers /\ Len(todo) \in Nat
  BY DEF TypeInv
<1>2. \A i \in 1..Len(todo) : ~Pending(todo[i])
  <2>1. CASE todo = <<>>
    BY <2>1
  <2>2. CASE todo # <<>>
    BY <1>1, <2>2, NothingBehind DEF Pending, Quiet
  <2> QED BY <2>1, <2>2
<1>3. c.reported = c.status
  BY Rest DEF ReportInv, TypeInv, Check
<1>4. c.simulation # NoSimulation /\ c.listening => c.active
  BY <1>2 DEF RunningInv, Pending
<1>5. Outcome(todo) /\ c.listening
  BY <1>1, CallOutcome
<1>6. CASE Settles(todo)
  <2>1. Check \in Steps
    BY DEF Steps
  <2>2. todo' \in Seq(Steps) /\ Len(todo') = Len(todo) + 1 /\ Head(todo') = Check
        /\ todo'[1] = Check /\ todo' # <<>>
        /\ \A i \in 2..Len(todo') : todo'[i] = todo[i - 1]
    BY <1>1, <1>6, <2>1, Prefixed DEF Settles
  <2>3. ASSUME NEW i \in 1..Len(todo')
        PROVE  ~Pending(todo'[i])
    <3>1. CASE i = 1
      BY <2>2, <3>1 DEF Pending, Check
    <3>2. CASE i > 1
      <4>1. i \in 2..Len(todo') /\ i - 1 \in 1..Len(todo)
        BY <1>1, <2>2, <3>2
      <4> QED BY <1>2, <2>2, <4>1
    <3> QED BY <3>1, <3>2
  <2> QED BY <1>5, <1>6, <2>2, <2>3
       DEF Settles, Outcome, TypeInv, PendingInv, RunningInv, ReportInv, Pending
<1>7. CASE Halts(todo)
  BY <1>1, <1>2, <1>3, <1>5, <1>7
     DEF Halts, Outcome, TypeInv, PendingInv, RunningInv, ReportInv, Pending
<1>8. CASE Resets(todo)
  BY <1>1, <1>2, <1>3, <1>4, <1>5, <1>8
     DEF Resets, Outcome, TypeInv, PendingInv, RunningInv, ReportInv, Pending, Controllers
<1>9. CASE Starts(todo)
  <2> PICK v \in Int :
       \/ /\ todo' = <<Check, <<"begin", v>>>> \o todo
          /\ c'.status \in Directions /\ Counts # {}
       \/ /\ todo' = <<<<"begin", v>>>> \o todo
          /\ c'.status = c.status
    BY <1>9 DEF Starts
  <2> DEFINE b == <<"begin", v>>
  <2>1. Check \in Steps /\ b \in Steps /\ b[1] = "begin"
    BY DEF Steps
  <2>2. c' \in Controllers /\ ~c'.active /\ c'.simulation # NoSimulation /\ c'.listening
        /\ c'.reported = c.reported /\ failed' = failed
    BY <1>5, <1>9 DEF Starts, Outcome
  <2>3. CASE todo' = <<Check, b>> \o todo /\ c'.status \in Directions /\ Counts # {}
    <3>1. todo' \in Seq(Steps) /\ Len(todo') = Len(todo) + 2 /\ Head(todo') = Check
          /\ todo'[1] = Check /\ todo'[2] = b /\ todo' # <<>>
          /\ \A i \in 3..Len(todo') : todo'[i] = todo[i - 2]
      BY <1>1, <2>1, <2>3, TwicePrefixed
    <3>2. ASSUME NEW i \in 1..Len(todo'), i # 2
          PROVE  ~Pending(todo'[i])
      <4>1. CASE i = 1
        BY <3>1, <4>1 DEF Pending, Check
      <4>2. CASE i > 2
        <5>1. i \in 3..Len(todo') /\ i - 2 \in 1..Len(todo)
          BY <1>1, <3>1, <4>2
        <5> QED BY <1>2, <3>1, <5>1
      <4> QED BY <3>2, <4>1, <4>2
    <3>3. PendingInv'
      BY <1>1, <2>1, <2>2, <2>3, <3>1, <3>2 DEF PendingInv, Quiet, Check, Pending
    <3>4. RunningInv'
      BY <1>1, <2>1, <2>2, <3>1 DEF RunningInv
    <3> QED BY <2>2, <3>1, <3>3, <3>4 DEF TypeInv, ReportInv
  <2>4. CASE todo' = <<b>> \o todo /\ c'.status = c.status
    <3>1. todo' \in Seq(Steps) /\ Len(todo') = Len(todo) + 1 /\ todo'[1] = b
          /\ \A i \in 2..Len(todo') : todo'[i] = todo[i - 1]
      BY <1>1, <2>1, <2>4, Prefixed
    <3>2. ASSUME NEW i \in 1..Len(todo'), i # 1
          PROVE  ~Pending(todo'[i])
      <4>1. i \in 2..Len(todo') /\ i - 1 \in 1..Len(todo)
        BY <1>1, <3>1, <3>2
      <4> QED BY <1>2, <3>1, <4>1
    <3>3. PendingInv'
      BY <1>1, <2>1, <2>2, <3>1, <3>2 DEF PendingInv, Pending
    <3>4. RunningInv'
      BY <1>1, <2>1, <2>2, <3>1 DEF RunningInv
    <3> QED BY <1>3, <2>2, <2>4, <3>1, <3>3, <3>4 DEF TypeInv, ReportInv
  <2> QED BY <2>3, <2>4
<1> QED BY <1>5, <1>6, <1>7, <1>8, <1>9 DEF Outcome

LEMMA TickKeeps ==
  ASSUME IInv, Tick
  PROVE  IInv'
<1> USE DEF IInv
<1>1. c \in Controllers /\ todo = <<>> /\ c.active /\ c.simulation # NoSimulation
      /\ c.listening /\ c.simulation \in Simulations /\ c.elapsed \in Int
  BY DEF TypeInv, RunningInv, Tick, Idle, Controllers
<1> DEFINE s == c.simulation
<1>2. PICK later \in {1, 2} :
        LET d == IF c.elapsed = Unset THEN 0 ELSE Later(s, c.elapsed + later)
        IN  /\ c' = Directed([c EXCEPT !.elapsed = d], s, d)
            /\ todo' = ChecksOfX(s) \o <<Ticked(s, d)>>
            /\ UNCHANGED failed
  BY <1>1 DEF Tick
<1> DEFINE d == IF c.elapsed = Unset THEN 0 ELSE Later(s, c.elapsed + later)
           k == [c EXCEPT !.elapsed = d]
           b == <<"ticked", X(s, d), d>>
<1>3. d \in Int
  BY <1>1, LaterType
<1>4. X(s, d) \in Int
  BY <1>1, <1>3, XType
<1>5. k \in Controllers /\ k.active /\ k.simulation = s /\ k.listening = c.listening
      /\ k.status = c.status /\ k.direction = c.direction /\ k.reported = c.reported
  BY <1>1, <1>3 DEF Controllers
<1>6. c' = Directed(k, s, d) /\ todo' = ChecksOfX(s) \o <<b>> /\ UNCHANGED failed
  BY <1>2 DEF Ticked
<1>7. b \in Steps /\ b[1] = "ticked" /\ Check \in Steps /\ Check[1] = "check"
  BY <1>3, <1>4 DEF Steps, Check
<1>8. s \in Simulations /\ s # NoSimulation /\ c.listening /\ c.reported = c.status
      /\ c.status = c.direction
  BY <1>1 DEF RunningInv, ReportInv
<1> HIDE DEF s, d, k, b
<1>9. CASE s.kind = "interpolation"
  <2>1. c' = k /\ todo' = <<>> \o <<b>>
    BY <1>6, <1>9 DEF Directed, ChecksOfX
  <2>2. todo' = <<b>>
    BY <1>7, <2>1
  <2>3. todo' \in Seq(Steps) /\ Len(todo') = 1 /\ todo'[1] = b
    BY <1>7, <2>2
  <2>4. TypeInv'
    BY <1>5, <2>1, <2>3 DEF TypeInv
  <2>5. PendingInv'
    <3>1. \A i \in 1..Len(todo') : i = 1 /\ todo'[i][1] = "ticked"
      BY <1>7, <2>3
    <3>2. c'.active = TRUE /\ c'.simulation # NoSimulation /\ c'.listening
      BY <1>1, <1>5, <1>8, <2>1
    <3> QED BY <3>1, <3>2 DEF PendingInv, Pending
  <2>6. RunningInv'
    BY <1>5, <1>8, <2>1 DEF RunningInv
  <2>7. ReportInv'
    BY <1>5, <1>8, <2>1 DEF ReportInv
  <2> QED BY <1>6, <2>4, <2>5, <2>6, <2>7
<1>10. CASE s.kind = "repeating"
  <2>1. PICK e \in Directions : c' = [k EXCEPT !.direction = e, !.status = e]
    BY <1>6, <1>10 DEF Directed, Running, Directions
  <2>2. c' \in Controllers /\ c'.active /\ c'.simulation = s /\ c'.listening
        /\ c'.status \in Directions /\ c'.status = c'.direction
    BY <1>5, <1>8, <2>1 DEF Controllers, Statuses, Directions
  <2>3. todo' = <<Check, b>>
    BY <1>6, <1>7, <1>10, Pair DEF ChecksOfX
  <2>4. todo' \in Seq(Steps) /\ Len(todo') = 2 /\ todo'[1] = Check /\ todo'[2] = b
        /\ Head(todo') = Check /\ todo' # <<>>
    BY <1>7, <2>3
  <2>5. Counts # {}
    BY <1>8, <1>10 DEF Simulations, NoSimulation
  <2>6. PendingInv'
    BY <1>7, <1>8, <2>2, <2>4, <2>5 DEF PendingInv, Pending, Quiet
  <2> QED BY <1>6, <1>8, <2>2, <2>4, <2>6 DEF TypeInv, RunningInv, ReportInv
<1> QED BY <1>8, <1>9, <1>10 DEF Simulations

\* While listeners are told of a direction that a repetition has chosen, there
\* is a step behind them that sets the value.
LEMMA CheckKeeps ==
  ASSUME IInv, CheckStatusChanged
  PROVE  IInv'
<1> USE DEF IInv
<1>1. c \in Controllers /\ todo \in Seq(Steps) /\ todo # <<>> /\ todo[1] = Check
      /\ Len(todo) \in Nat \ {0}
  <2>1. todo \in Seq(Steps) /\ todo # <<>> /\ Head(todo)[1] = "check"
    BY DEF CheckStatusChanged, At, Idle, TypeInv
  <2>2. todo[1] \in Steps /\ todo[1][1] = "check"
    BY <2>1, Rest
  <2> QED BY <2>1, <2>2, Rest DEF Steps, TypeInv
<1>2. c' = [c EXCEPT !.reported = c.status] /\ UNCHANGED <<curve, calls, failed>>
  BY DEF CheckStatusChanged
<1>3. c' \in Controllers /\ c'.simulation = c.simulation /\ c'.active = c.active
      /\ c'.status = c.status /\ c'.direction = c.direction /\ c'.listening = c.listening
      /\ c'.reported = c.status /\ c.status \in Statuses
  BY <1>1, <1>2 DEF Controllers
<1>4. CASE Then(<<>>)
  <2>1. \E t \in Statuses : c' = [c EXCEPT !.reported = t]
    BY <1>2, <1>3
  <2>2. ~Pending(todo[1])
    BY <1>1 DEF Pending, Check
  <2>3. c'.reported = c'.status /\ failed' = failed
    BY <1>2, <1>3
  <2> QED BY <1>1, <1>4, <2>1, <2>2, <2>3, QuietStep
<1>5. ASSUME NEW a \in Steps, NEW b \in Steps, Then(<<a, b>>),
             {a[1], b[1]} \subseteq {"tell", "curve"}, a[2] = c.status, b[2] = c.status
      PROVE  IInv'
  <2>1. /\ todo' \in Seq(Steps) /\ Len(todo') = Len(todo) + 1
        /\ todo' # <<>> /\ todo'[1] = a /\ todo'[2] = b
        /\ \A i \in 3..Len(todo') : todo'[i] = todo[i - 1]
        /\ \A i \in 2..Len(todo) : i + 1 \in 3..Len(todo') /\ todo'[i + 1] = todo[i]
    BY <1>1, <1>5, ThenTwo
  <2>2. TypeInv'
    BY <1>3, <2>1 DEF TypeInv
  <2>3. ~Pending(a) /\ ~Pending(b)
    BY <1>5 DEF Pending
  <2>4. c.status \in Directions => Quiet(a) /\ Quiet(b)
    BY <1>5 DEF Quiet
  <2>5. ASSUME NEW i \in 1..Len(todo'), Pending(todo'[i])
        PROVE  /\ \A j \in 1..i-1 : Quiet(todo'[j])
               /\ i > 1 => c'.status \in Directions /\ Counts # {}
               /\ c'.simulation # NoSimulation /\ c'.listening
               /\ c'.active <=> todo'[i][1] = "ticked"
    <3>1. i \in 3..Len(todo')
      BY <2>1, <2>3, <2>5
    <3>2. i - 1 \in 2..Len(todo) /\ todo'[i] = todo[i - 1]
      BY <1>1, <2>1, <3>1
    <3>3. /\ \A j \in 1..(i - 1)-1 : Quiet(todo[j])
          /\ c.status \in Directions /\ Counts # {}
          /\ c.simulation # NoSimulation /\ c.listening
          /\ c.active <=> todo[i - 1][1] = "ticked"
      <4>1. i - 1 \in 1..Len(todo) /\ i - 1 > 1 /\ Pending(todo[i - 1])
        BY <2>5, <3>2
      <4> QED BY <4>1 DEF PendingInv
    <3>4. ASSUME NEW j \in 1..i-1
          PROVE  Quiet(todo'[j])
      <4>1. CASE j = 1 \/ j = 2
        BY <2>1, <2>4, <3>3, <4>1
      <4>2. CASE j > 2
        <5>1. j \in 3..Len(todo') /\ j - 1 \in 1..(i - 1)-1
          BY <1>1, <2>1, <3>2, <4>2
        <5> QED BY <2>1, <3>3, <5>1
      <4> QED BY <4>1, <4>2
    <3> QED BY <1>3, <3>2, <3>3, <3>4
  <2>6. PendingInv'
    BY <2>5 DEF PendingInv, Pending, Quiet
  <2>7. RunningInv'
    <3>1. \A i \in 1..Len(todo) : todo[i][1] = "begin" => i \in 2..Len(todo)
      BY <1>1 DEF Check
    <3>2. \A i \in 1..Len(todo) : todo[i][1] = "begin" =>
            \E j \in 1..Len(todo') : todo'[j][1] = "begin"
      <4>1. ASSUME NEW i \in 2..Len(todo), todo[i][1] = "begin"
            PROVE  i + 1 \in 1..Len(todo') /\ todo'[i + 1][1] = "begin"
        BY <1>1, <2>1, <4>1
      <4> QED BY <3>1, <4>1
    <3> QED BY <1>3, <3>2 DEF RunningInv
  <2> QED BY <1>2, <1>3, <2>2, <2>6, <2>7 DEF ReportInv
<1>6. CASE ~Then(<<>>)
  <2> DEFINE a == <<"tell", c.status>>
             b == <<"curve", c.status>>
  <2>1. a \in Steps /\ b \in Steps /\ a[1] = "tell" /\ b[1] = "curve"
        /\ a[2] = c.status /\ b[2] = c.status
    BY <1>3 DEF Steps
  <2>2. Then(<<a, b>>) \/ Then(<<b, a>>)
    BY <1>6 DEF CheckStatusChanged
  <2> HIDE DEF a, b
  <2> QED BY <1>5, <2>1, <2>2
<1> QED BY <1>4, <1>6

LEMMA TellKeeps ==
  ASSUME IInv, TellProgram, ActsSafely
  PROVE  IInv'
<1> USE DEF IInv
<1>1. todo \in Seq(Steps) /\ todo # <<>> /\ todo[1][1] = "tell" /\ Head(todo) = todo[1]
      /\ Len(todo) \in Nat \ {0}
  BY Rest DEF TellProgram, At, Idle, TypeInv
<1>2. UNCHANGED <<c, curve, calls, failed>> /\ c.reported = c.status
      /\ c \in Controllers
  BY <1>1 DEF TellProgram, ReportInv, Check, TypeInv
<1>3. CASE Then(<<>>)
  <2>1. \E t \in Statuses : c' = [c EXCEPT !.reported = t]
    BY <1>2 DEF Controllers
  <2> QED BY <1>1, <1>2, <1>3, <2>1, QuietStep DEF Pending
<1>4. CASE ~Then(<<>>)
  <2>1. Then(<<<<"turn">>>>) /\ todo[1][2] \in ActOn
    BY <1>1, <1>4 DEF TellProgram
  <2>2. <<"turn">> \in Steps
    BY DEF Steps
  <2>3. /\ todo' \in Seq(Steps) /\ Len(todo') = Len(todo)
        /\ todo'[1] = <<"turn">> /\ \A i \in 2..Len(todo) : todo'[i] = todo[i]
    BY <1>1, <2>1, <2>2, ThenOne
  <2>4. \A i \in 2..Len(todo) : ~Pending(todo[i])
    <3>1. ASSUME NEW i \in 2..Len(todo), Pending(todo[i])
          PROVE  FALSE
      <4>1. Quiet(todo[1]) /\ Counts # {}
        <5>1. i \in 1..Len(todo) /\ i > 1 /\ 1 \in 1..i-1
          BY <1>1
        <5> QED BY <3>1, <5>1 DEF PendingInv
      <4>2. todo[1][2] \in Directions
        BY <1>1, <4>1 DEF Quiet
      <4> QED BY <2>1, <4>1, <4>2 DEF ActsSafely, ActsAtTheEnd
    <3> QED BY <3>1
  <2>5. \A i \in 1..Len(todo') : ~Pending(todo'[i])
    <3>1. ~Pending(<<"turn">>)
      BY DEF Pending
    <3> QED BY <1>1, <2>3, <2>4, <3>1
  <2>6. \A i \in 1..Len(todo) : ~Pending(todo[i])
    BY <1>1, <2>4 DEF Pending
  <2>7. PendingInv'
    BY <2>5 DEF PendingInv, Pending
  <2>8. RunningInv'
    BY <1>2, <2>6 DEF RunningInv, Pending
  <2> QED BY <1>2, <2>3, <2>7, <2>8 DEF TypeInv, ReportInv
<1> QED BY <1>3, <1>4

LEMMA CurveKeeps ==
  ASSUME IInv, UpdateCurveDirection \/ ListenerReturns
  PROVE  IInv'
<1> USE DEF IInv
<1>1. todo \in Seq(Steps) /\ todo # <<>> /\ todo[1][1] \in {"curve", "turn"}
      /\ Head(todo) = todo[1] /\ Then(<<>>)
  BY Rest DEF UpdateCurveDirection, ListenerReturns, At, Idle, TypeInv
<1>2. UNCHANGED <<c, failed>> /\ c.reported = c.status /\ c \in Controllers
  BY <1>1 DEF UpdateCurveDirection, ListenerReturns, ReportInv, Check, TypeInv
<1>3. \E t \in Statuses : c' = [c EXCEPT !.reported = t]
  BY <1>2 DEF Controllers
<1> QED BY <1>1, <1>2, <1>3, QuietStep DEF Pending

LEMMA BeginKeeps ==
  ASSUME IInv, BeginSimulation
  PROVE  IInv'
<1> USE DEF IInv
<1>1. todo \in Seq(Steps) /\ todo # <<>> /\ todo[1] \in Steps /\ todo[1][1] = "begin"
      /\ Head(todo) = todo[1] /\ Len(todo) \in Nat \ {0} /\ c \in Controllers
  BY Rest DEF BeginSimulation, At, Idle, TypeInv
<1>2. PICK v \in Int : todo[1] = <<"begin", v>>
  BY <1>1 DEF Steps, Check
<1>3. c.simulation # NoSimulation /\ c.listening /\ c.active = FALSE
  <2>1. 1 \in 1..Len(todo) /\ Pending(todo[1])
    BY <1>1 DEF Pending
  <2> QED BY <1>1, <2>1 DEF PendingInv, Controllers
<1>4. \A i \in 2..Len(todo) : ~Pending(todo[i])
  BY <1>1, NothingBehind DEF Quiet
<1>5. Check \in Steps /\ Then(<<Check>>)
  BY DEF BeginSimulation, AfterStart, Steps
<1>6. /\ todo' \in Seq(Steps) /\ Len(todo') = Len(todo) /\ Head(todo') = Check
      /\ todo' # <<>> /\ todo'[1] = Check /\ \A i \in 2..Len(todo) : todo'[i] = todo[i]
  BY <1>1, <1>5, ThenOne
<1>7. failed' = FALSE
  BY <1>3 DEF BeginSimulation
<1>8. c' \in Controllers /\ c'.active /\ c'.simulation = c.simulation
      /\ c'.listening = c.listening /\ c'.status = c'.direction
  <2>1. Clamped(v) \in 0..Upper /\ Unset \in Int /\ Running(c.direction) \in Statuses
    BY <1>1, <1>2, ClampedType DEF Unset, Running, Controllers, Directions, Statuses
  <2>2. c' = [c EXCEPT !.value = Clamped(v), !.active = TRUE, !.elapsed = Unset,
                       !.status = Running(c.direction)]
    <3>1. Head(todo)[2] = v
      BY <1>1, <1>2
    <3> QED BY <3>1 DEF BeginSimulation
  <2>3. c'.status = c'.direction
    BY <1>1, <2>2 DEF Running, Controllers
  <2> QED BY <1>1, <2>1, <2>2, <2>3 DEF Controllers
<1>9. \A i \in 1..Len(todo') : ~Pending(todo'[i])
  <2>1. ~Pending(Check)
    BY DEF Pending, Check
  <2> QED BY <1>1, <1>4, <1>6, <2>1
<1>10. PendingInv'
  BY <1>9 DEF PendingInv, Pending
<1> QED BY <1>3, <1>6, <1>7, <1>8, <1>10 DEF TypeInv, RunningInv, ReportInv

LEMMA TickReturnsKeeps ==
  ASSUME IInv, TickReturns
  PROVE  IInv'
<1> USE DEF IInv
<1>1. todo \in Seq(Steps) /\ todo # <<>> /\ todo[1] \in Steps /\ todo[1][1] = "ticked"
      /\ Head(todo) = todo[1] /\ Len(todo) \in Nat \ {0} /\ c \in Controllers
  BY Rest DEF TickReturns, At, Idle, TypeInv
<1>2. PICK v \in Int, d \in Int : todo[1] = <<"ticked", v, d>>
  BY <1>1 DEF Steps, Check
<1>3. c.simulation # NoSimulation /\ c.listening /\ c.active
  <2>1. 1 \in 1..Len(todo) /\ Pending(todo[1])
    BY <1>1 DEF Pending
  <2> QED BY <1>1, <2>1 DEF PendingInv
<1>4. \A i \in 2..Len(todo) : ~Pending(todo[i])
  BY <1>1, NothingBehind DEF Quiet
<1> DEFINE k == [c EXCEPT !.value = Clamped(v)]
<1>5. /\ c' = IF Done(c.simulation, d) THEN Finished(k) ELSE k
      /\ Then(<<Check>>) /\ failed' = FALSE
  BY <1>1, <1>2, <1>3 DEF TickReturns
<1>6. Check \in Steps
  BY DEF Steps
<1>7. /\ todo' \in Seq(Steps) /\ Len(todo') = Len(todo) /\ Head(todo') = Check
      /\ todo' # <<>> /\ todo'[1] = Check /\ \A i \in 2..Len(todo) : todo'[i] = todo[i]
  BY <1>1, <1>5, <1>6, ThenOne
<1>8. \A i \in 1..Len(todo') : ~Pending(todo'[i])
  <2>1. ~Pending(Check)
    BY DEF Pending, Check
  <2> QED BY <1>1, <1>4, <1>7, <2>1
<1>9. k \in Controllers /\ k.active /\ k.simulation = c.simulation
      /\ k.listening = c.listening /\ k.status = c.status /\ k.direction = c.direction
  <2>1. Clamped(v) \in 0..Upper
    BY <1>2, ClampedType
  <2> QED BY <1>1, <1>3, <2>1 DEF Controllers
<1>10. c' \in Controllers /\ c'.listening
       /\ (c'.active => c'.simulation # NoSimulation /\ c'.status = c'.direction)
       /\ (c'.simulation # NoSimulation => c'.active)
  <2>1. CASE Done(c.simulation, d)
    <3> DEFINE k1 == [k EXCEPT !.status = Ended(k.direction)]
    <3>1. Ended(k.direction) \in Statuses
      BY DEF Ended, Statuses
    <3>2. k1 \in Controllers /\ k1.listening = c.listening
      <4> HIDE DEF k
      <4> QED BY <1>9, <3>1 DEF Controllers
    <3>3. c' = Stopped(k1)
      BY <1>5, <2>1 DEF Finished
    <3> HIDE DEF k1
    <3> QED BY <1>3, <3>2, <3>3, StoppedType
  <2>2. CASE ~Done(c.simulation, d)
    <3>1. c' = k
      BY <1>5, <2>2
    <3>2. c.status = c.direction
      BY <1>3 DEF RunningInv
    <3> HIDE DEF k
    <3> QED BY <1>3, <1>9, <3>1, <3>2
  <2> QED BY <2>1, <2>2
<1>11. PendingInv'
  BY <1>8 DEF PendingInv, Pending
<1> QED BY <1>5, <1>7, <1>10, <1>11 DEF TypeInv, RunningInv, ReportInv

LEMMA StepKeeps ==
  ASSUME IInv, ActsSafely, [Next]_vars
  PROVE  IInv'
<1>1. CASE ProgramCalls
  <2>1. todo = <<>> /\ Call(todo)
    BY <1>1 DEF ProgramCalls, Idle
  <2> QED BY <2>1, CallKeeps
<1>2. CASE ListenerCalls
  <2>1. todo # <<>> /\ todo[1] \in Steps /\ todo[1][1] = "turn" /\ Call(todo)
    BY <1>2, Rest DEF ListenerCalls, At, Idle, IInv, TypeInv
  <2>2. todo[1] = <<"turn">>
    BY <2>1 DEF Steps, Check
  <2> QED BY <2>1, <2>2, CallKeeps
<1>3. CASE Tick
  BY <1>3, TickKeeps
<1>4. CASE Step
  BY <1>4, CheckKeeps, TellKeeps, CurveKeeps, BeginKeeps, TickReturnsKeeps DEF Step
<1>5. CASE UNCHANGED vars
  BY <1>5 DEF vars, IInv, TypeInv, PendingInv, RunningInv, ReportInv, Pending, Quiet
<1> QED BY <1>1, <1>2, <1>3, <1>4, <1>5 DEF Next

-----------------------------------------------------------------------------
(* The curve *)

\* The CurvedAnimation is to be told of a direction.
IsTurned(step) == step[1] = "curve" /\ step[2] \in Directions

\* It is told of a direction before anything else happens.
LEMMA NoneTurned ==
  ASSUME TypeInv, CurveInv, todo = <<>> \/ todo[1][1] \notin {"curve", "tell"}
  PROVE  \A i \in 1..Len(todo) : ~IsTurned(todo[i])
<1> SUFFICES ASSUME NEW i \in 1..Len(todo), IsTurned(todo[i])
             PROVE  FALSE
  OBVIOUS
<1>1. i = 1 \/ (i = 2 /\ todo[1] = <<"tell", c.reported>>)
  BY DEF CurveInv, IsTurned
<1>2. todo # <<>>
  BY Rest DEF TypeInv
<1> QED BY <1>1, <1>2 DEF IsTurned

\* When nothing is to be told, the curve keeps being right until something is.
LEMMA CurveStays ==
  ASSUME TypeInv, CurveInv, \A i \in 1..Len(todo) : ~IsTurned(todo[i]),
         \A i \in 1..Len(todo') : ~IsTurned(todo'[i]),
         c'.reported = c.reported, c'.listening => c.listening, curve' = curve
  PROVE  CurveInv'
<1>1. \A i \in 1..Len(todo') : ~(todo'[i][1] = "curve" /\ todo'[i][2] \in Directions)
  BY DEF IsTurned
<1>2. ASSUME c.listening, c.reported \in Directions
      PROVE  curve \in {"none", c.reported}
  <2>1. \A i \in 1..Len(todo) : todo[i] # <<"curve", c.reported>>
    BY <1>2 DEF IsTurned
  <2> QED BY <1>2, <2>1 DEF CurveInv
<1> QED BY <1>1, <1>2 DEF CurveInv

LEMMA CallTurns ==
  ASSUME TypeInv, CurveInv, failed = FALSE, todo = <<>> \/ todo[1] = <<"turn">>, Call(todo)
  PROVE  CurveInv'
<1>1. todo \in Seq(Steps) /\ Len(todo) \in Nat
  BY DEF TypeInv
<1>2. \A i \in 1..Len(todo) : ~IsTurned(todo[i])
  BY NoneTurned
<1>3. Outcome(todo) /\ c.listening
  BY <1>1, CallOutcome
<1>4. c'.reported = c.reported /\ curve' = curve
  BY <1>3 DEF Outcome, Settles, Halts, Resets, Starts, TypeInv, Controllers
<1>5. Check \in Steps /\ ~IsTurned(Check)
  BY DEF Steps, IsTurned, Check
<1>6. ASSUME NEW a \in Steps, ~IsTurned(a), todo' = <<a>> \o todo
      PROVE  \A i \in 1..Len(todo') : ~IsTurned(todo'[i])
  <2>1. /\ Len(todo') = Len(todo) + 1 /\ todo'[1] = a
        /\ \A i \in 2..Len(todo') : todo'[i] = todo[i - 1]
    BY <1>1, <1>6, Prefixed
  <2>2. ASSUME NEW i \in 2..Len(todo')
        PROVE  ~IsTurned(todo'[i])
    <3>1. i - 1 \in 1..Len(todo)
      BY <1>1, <2>1
    <3> QED BY <1>2, <2>1, <3>1
  <2> QED BY <1>1, <1>6, <2>1, <2>2
<1>7. ASSUME NEW a \in Steps, NEW b \in Steps, ~IsTurned(a), ~IsTurned(b),
             todo' = <<a, b>> \o todo
      PROVE  \A i \in 1..Len(todo') : ~IsTurned(todo'[i])
  <2>1. /\ Len(todo') = Len(todo) + 2 /\ todo'[1] = a /\ todo'[2] = b
        /\ \A i \in 3..Len(todo') : todo'[i] = todo[i - 2]
    BY <1>1, <1>7, TwicePrefixed
  <2>2. ASSUME NEW i \in 3..Len(todo')
        PROVE  ~IsTurned(todo'[i])
    <3>1. i - 2 \in 1..Len(todo)
      BY <1>1, <2>1
    <3> QED BY <1>2, <2>1, <3>1
  <2> QED BY <1>1, <1>7, <2>1, <2>2
<1>8. \A i \in 1..Len(todo') : ~IsTurned(todo'[i])
  <2>1. CASE Settles(todo)
    BY <1>5, <1>6, <2>1 DEF Settles
  <2>2. CASE Halts(todo) \/ Resets(todo)
    BY <1>2, <2>2 DEF Halts, Resets
  <2>3. CASE Starts(todo)
    <3>1. PICK v \in Int : \/ todo' = <<Check, <<"begin", v>>>> \o todo
                           \/ todo' = <<<<"begin", v>>>> \o todo
      BY <2>3 DEF Starts
    <3>2. <<"begin", v>> \in Steps /\ ~IsTurned(<<"begin", v>>)
      BY <3>1 DEF Steps, IsTurned
    <3> QED BY <1>5, <1>6, <1>7, <3>1, <3>2
  <2> QED BY <1>3, <2>1, <2>2, <2>3 DEF Outcome
<1> QED BY <1>2, <1>3, <1>4, <1>8, CurveStays

LEMMA CheckTurns ==
  ASSUME TypeInv, CurveInv, CheckStatusChanged
  PROVE  CurveInv'
<1>1. todo \in Seq(Steps) /\ todo # <<>> /\ todo[1][1] = "check" /\ Len(todo) \in Nat \ {0}
  BY Rest DEF CheckStatusChanged, At, Idle, TypeInv
<1>2. \A i \in 1..Len(todo) : ~IsTurned(todo[i])
  BY <1>1, NoneTurned
<1>3. c'.reported = c.status /\ c'.listening = c.listening /\ curve' = curve
      /\ c.status \in Statuses
  BY DEF CheckStatusChanged, TypeInv, Controllers
<1>4. CASE c.reported # c.status /\ c.listening
  <2> DEFINE s == c.status
  <2>1. ASSUME NEW a \in Steps, NEW b \in Steps, Then(<<a, b>>),
               \/ a = <<"tell", s>> /\ b = <<"curve", s>>
               \/ b = <<"tell", s>> /\ a = <<"curve", s>>
        PROVE  CurveInv'
    <3>1. /\ Len(todo') = Len(todo) + 1 /\ todo'[1] = a /\ todo'[2] = b
          /\ \A i \in 3..Len(todo') : todo'[i] = todo[i - 1]
      BY <1>1, <2>1, ThenTwo
    <3>2. ASSUME NEW i \in 3..Len(todo')
          PROVE  ~IsTurned(todo'[i])
      <4>1. i - 1 \in 1..Len(todo)
        BY <1>1, <3>1
      <4> QED BY <1>2, <3>1, <4>1
    <3>3. 1 \in 1..Len(todo') /\ 2 \in 1..Len(todo')
          /\ \A i \in 1..Len(todo') : i = 1 \/ i = 2 \/ i \in 3..Len(todo')
      BY <1>1, <3>1
    <3>4. ASSUME NEW i \in 1..Len(todo'),
                 todo'[i][1] = "curve", todo'[i][2] \in Directions
          PROVE  /\ todo'[i][2] = c'.reported
                 /\ i = 1 \/ (i = 2 /\ todo'[1] = <<"tell", c'.reported>>)
      <4>1. i = 1 \/ i = 2
        BY <3>2, <3>3, <3>4 DEF IsTurned
      <4> QED BY <1>3, <2>1, <3>1, <3>4, <4>1
    <3>5. \E i \in 1..Len(todo') : todo'[i] = <<"curve", c'.reported>>
      BY <1>3, <2>1, <3>1, <3>3
    <3> QED BY <3>4, <3>5 DEF CurveInv
  <2>2. <<"tell", s>> \in Steps /\ <<"curve", s>> \in Steps
    BY <1>3 DEF Steps
  <2>3. Then(<<<<"tell", s>>, <<"curve", s>>>>) \/ Then(<<<<"curve", s>>, <<"tell", s>>>>)
    BY <1>4 DEF CheckStatusChanged
  <2> QED BY <2>1, <2>2, <2>3
<1>5. CASE ~(c.reported # c.status /\ c.listening)
  <2>1. Then(<<>>)
    BY <1>5 DEF CheckStatusChanged
  <2>2. ASSUME NEW i \in 1..Len(todo')
        PROVE  ~IsTurned(todo'[i])
    <3>1. todo'[i] = todo[i + 1] /\ i + 1 \in 1..Len(todo)
      BY <1>1, <2>1, ThenRest
    <3> QED BY <1>2, <3>1
  <2>3. CASE c.reported = c.status
    BY <1>2, <1>3, <2>2, <2>3, CurveStays
  <2>4. CASE ~c.listening
    BY <1>3, <2>2, <2>4 DEF CurveInv, IsTurned
  <2> QED BY <1>5, <2>3, <2>4
<1> QED BY <1>4, <1>5

LEMMA TellTurns ==
  ASSUME TypeInv, CurveInv, ActsAtTheEnd, TellProgram
  PROVE  CurveInv'
<1>1. todo \in Seq(Steps) /\ todo # <<>> /\ todo[1][1] = "tell" /\ Head(todo) = todo[1]
      /\ Len(todo) \in Nat \ {0}
  BY Rest DEF TellProgram, At, Idle, TypeInv
<1>2. UNCHANGED <<c, curve>>
  BY DEF TellProgram
<1>3. CASE Then(<<>>)
  <2>1. /\ Len(todo') = Len(todo) - 1
        /\ \A i \in 1..Len(todo') : todo'[i] = todo[i + 1]
        /\ \A i \in 2..Len(todo) : i - 1 \in 1..Len(todo') /\ todo'[i - 1] = todo[i]
    BY <1>1, <1>3, ThenRest
  <2>2. ASSUME NEW i \in 1..Len(todo'),
               todo'[i][1] = "curve", todo'[i][2] \in Directions
        PROVE  todo'[i][2] = c.reported /\ i = 1
    <3>1. i + 1 \in 1..Len(todo) /\ todo'[i] = todo[i + 1] /\ i \in Nat \ {0}
      BY <1>1, <2>1
    <3>2. todo[i + 1][2] = c.reported /\ (i + 1 = 1 \/ i + 1 = 2)
      BY <2>2, <3>1 DEF CurveInv
    <3> QED BY <3>1, <3>2
  <2>3. ASSUME NEW i \in 1..Len(todo), todo[i] = <<"curve", c.reported>>
        PROVE  \E j \in 1..Len(todo') : todo'[j] = <<"curve", c.reported>>
    <3>1. i \in 2..Len(todo)
      BY <1>1, <2>3
    <3> QED BY <2>1, <2>3, <3>1
  <2> QED BY <1>2, <2>2, <2>3 DEF CurveInv
<1>4. CASE ~Then(<<>>)
  <2>1. Then(<<<<"turn">>>>) /\ todo[1][2] \in ActOn
    BY <1>1, <1>4 DEF TellProgram
  <2>2. <<"turn">> \in Steps /\ ~IsTurned(<<"turn">>)
    BY DEF Steps, IsTurned
  <2>3. Len(todo') = Len(todo) /\ todo'[1] = <<"turn">>
        /\ \A i \in 2..Len(todo) : todo'[i] = todo[i]
    BY <1>1, <2>1, <2>2, ThenOne
  <2>4. ASSUME NEW i \in 1..Len(todo), IsTurned(todo[i])
        PROVE  FALSE
    <3>1. c.reported \in Directions /\ (i = 1 \/ todo[1] = <<"tell", c.reported>>)
      BY <2>4 DEF CurveInv, IsTurned
    <3>2. todo[1][2] \in Directions
      BY <1>1, <2>4, <3>1 DEF IsTurned
    <3> QED BY <2>1, <3>2 DEF ActsAtTheEnd
  <2>5. \A i \in 1..Len(todo') : ~IsTurned(todo'[i])
    BY <1>1, <2>2, <2>3, <2>4
  <2> QED BY <1>2, <2>4, <2>5, CurveStays
<1> QED BY <1>3, <1>4

LEMMA CurveTurns ==
  ASSUME TypeInv, CurveInv, UpdateCurveDirection
  PROVE  CurveInv'
<1>1. todo \in Seq(Steps) /\ todo # <<>> /\ todo[1][1] = "curve" /\ Head(todo) = todo[1]
      /\ Len(todo) \in Nat \ {0} /\ Then(<<>>)
  BY Rest DEF UpdateCurveDirection, At, Idle, TypeInv
<1>2. c' = c
  BY DEF UpdateCurveDirection
<1>3. \A i \in 1..Len(todo) : IsTurned(todo[i]) => i = 1 /\ todo[i][2] = c.reported
  BY <1>1 DEF CurveInv, IsTurned
<1>4. ASSUME NEW i \in 1..Len(todo')
      PROVE  ~IsTurned(todo'[i])
  <2>1. todo'[i] = todo[i + 1] /\ i + 1 \in 1..Len(todo) /\ i + 1 # 1
    BY <1>1, ThenRest
  <2> QED BY <1>3, <2>1
<1>5. ASSUME c.listening, c.reported \in Directions
      PROVE  curve' \in {"none", c.reported}
  <2>1. curve' = CurveFor(todo[1][2])
    BY <1>1, <1>5 DEF UpdateCurveDirection
  <2>2. CASE IsTurned(todo[1])
    <3>1. todo[1][2] = c.reported
      BY <1>1, <1>3, <2>2
    <3> QED BY <1>5, <2>1, <3>1 DEF CurveFor, Directions
  <2>3. CASE ~IsTurned(todo[1])
    <3>1. todo[1][2] \in {"Completed", "Dismissed"}
      <4>1. todo[1] \in Steps
        BY <1>1
      <4> QED BY <1>1, <2>3, <4>1 DEF Steps, IsTurned, Check, Statuses, Directions
    <3>2. \A i \in 1..Len(todo) : todo[i] # <<"curve", c.reported>>
      BY <1>3, <1>5, <2>3 DEF IsTurned
    <3>3. curve \in {"none", c.reported}
      BY <1>5, <3>2 DEF CurveInv
    <3> QED BY <2>1, <3>1, <3>3 DEF CurveFor
  <2> QED BY <2>2, <2>3
<1> QED BY <1>2, <1>4, <1>5 DEF CurveInv, IsTurned

LEMMA StepTurns ==
  ASSUME IInv, CurveInv, ActsAtTheEnd, [Next]_vars
  PROVE  CurveInv'
<1> USE DEF IInv
<1>1. CASE ProgramCalls
  BY <1>1, CallTurns DEF ProgramCalls, Idle
<1>2. CASE ListenerCalls
  <2>1. todo # <<>> /\ todo[1] \in Steps /\ todo[1][1] = "turn" /\ Call(todo)
    BY <1>2, Rest DEF ListenerCalls, At, Idle, TypeInv
  <2>2. todo[1] = <<"turn">>
    BY <2>1 DEF Steps, Check
  <2> QED BY <2>1, <2>2, CallTurns
<1>3. CASE Tick
  <2>1. todo = <<>> /\ c.active /\ c \in Controllers /\ c.simulation # NoSimulation
    BY <1>3 DEF Tick, Idle, TypeInv, RunningInv
  <2> DEFINE s == c.simulation
  <2>2. PICK later \in {1, 2} :
          LET d == IF c.elapsed = Unset THEN 0 ELSE Later(s, c.elapsed + later)
          IN  /\ c' = Directed([c EXCEPT !.elapsed = d], s, d)
              /\ todo' = ChecksOfX(s) \o <<Ticked(s, d)>>
    BY <1>3, <2>1 DEF Tick
  <2> DEFINE d == IF c.elapsed = Unset THEN 0 ELSE Later(s, c.elapsed + later)
  <2>3. c'.reported = c.reported /\ c'.listening = c.listening /\ curve' = curve
    BY <1>3, <2>1, <2>2 DEF Directed, Controllers, Tick
  <2>4. \A i \in 1..Len(todo) : ~IsTurned(todo[i])
    BY <2>1
  <2>5. TypeInv'
    BY <1>3, TickKeeps
  <2>6. todo' = <<Ticked(s, d)>> \/ todo' = <<Check, Ticked(s, d)>>
    <3>1. d \in Int /\ X(s, d) \in Int
      <4>1. s \in Simulations /\ s # NoSimulation /\ c.elapsed \in Int
        BY <2>1 DEF Controllers
      <4>2. d \in Int
        BY <4>1, LaterType
      <4> HIDE DEF d, s
      <4> QED BY <4>1, <4>2, XType
    <3>2. Ticked(s, d) \in Steps /\ Check \in Steps
      BY <3>1 DEF Steps, Ticked
    <3>3. todo' = ChecksOfX(s) \o <<Ticked(s, d)>>
      BY <2>2
    <3> HIDE DEF d, s
    <3>4. <<Check>> \o <<Ticked(s, d)>> = <<Check, Ticked(s, d)>>
      BY <3>2, Pair
    <3>5. <<>> \o <<Ticked(s, d)>> = <<Ticked(s, d)>>
      BY <3>2, ConcatEmptySeq
    <3>6. ChecksOfX(s) = <<>> \/ ChecksOfX(s) = <<Check>>
      BY DEF ChecksOfX
    <3> QED BY <3>3, <3>4, <3>5, <3>6
  <2>7. \A i \in 1..Len(todo') : todo'[i] \in {Check, Ticked(s, d)}
    <3> HIDE DEF d, s
    <3> QED BY <2>6
  <2>8. \A i \in 1..Len(todo') : ~IsTurned(todo'[i])
    BY <2>7 DEF IsTurned, Ticked, Check
  <2> QED BY <2>3, <2>4, <2>8, CurveStays
<1>4. CASE CheckStatusChanged
  BY <1>4, CheckTurns
<1>5. CASE TellProgram
  BY <1>5, TellTurns
<1>6. CASE UpdateCurveDirection
  BY <1>6, CurveTurns
<1>7. CASE ListenerReturns \/ BeginSimulation \/ TickReturns
  <2>1. todo \in Seq(Steps) /\ todo # <<>> /\ Len(todo) \in Nat \ {0}
        /\ todo[1][1] \in {"turn", "begin", "ticked"} /\ c \in Controllers
    BY <1>7, Rest DEF ListenerReturns, BeginSimulation, TickReturns, At, Idle, TypeInv
  <2>2. \A i \in 1..Len(todo) : ~IsTurned(todo[i])
    BY <2>1, NoneTurned
  <2>3. c'.reported = c.reported /\ c'.listening = c.listening /\ curve' = curve
    BY <1>7, <2>1
       DEF ListenerReturns, BeginSimulation, TickReturns, Controllers, Finished, Stopped
  <2>4. Check \in Steps /\ ~IsTurned(Check)
    BY DEF Check, Steps, IsTurned
  <2>5. Then(<<>>) \/ Then(<<Check>>)
    BY <1>7 DEF ListenerReturns, BeginSimulation, AfterStart, TickReturns
  <2>6. \A i \in 1..Len(todo') : ~IsTurned(todo'[i])
    <3>1. CASE Then(<<>>)
      <4>1. \A i \in 1..Len(todo') : todo'[i] = todo[i + 1] /\ i + 1 \in 1..Len(todo)
        BY <2>1, <3>1, ThenRest
      <4> QED BY <2>2, <4>1
    <3>2. CASE Then(<<Check>>)
      <4>1. Len(todo') = Len(todo) /\ todo'[1] = Check
            /\ \A i \in 2..Len(todo) : todo'[i] = todo[i]
        BY <2>1, <2>4, <3>2, ThenOne
      <4> QED BY <2>1, <2>2, <2>4, <4>1
    <3> QED BY <2>5, <3>1, <3>2
  <2> QED BY <2>2, <2>3, <2>6, CurveStays
<1>8. CASE UNCHANGED vars
  BY <1>8 DEF vars, CurveInv
<1> QED BY <1>1, <1>2, <1>3, <1>4, <1>5, <1>6, <1>7, <1>8 DEF Next, Step

-----------------------------------------------------------------------------
(* The theorems *)

LEMMA Initially ==
  ASSUME Init
  PROVE  IInv /\ CurveInv
<1>1. todo = <<>> /\ todo \in Seq(Steps) /\ Len(todo) = 0
  BY DEF Init
<1>2. PICK d \in Durations :
        c = [value |-> 0, direction |-> "Forward", status |-> "Dismissed",
             reported |-> "Dismissed", simulation |-> NoSimulation,
             duration |-> d, active |-> FALSE, elapsed |-> Unset,
             listening |-> TRUE]
  BY DEF Init
<1>3. c \in Controllers
  BY <1>2, ControllerAssumption
     DEF Controllers, Directions, Statuses, Simulations, Unset
<1>4. failed = FALSE
  BY DEF Init
<1> QED BY <1>1, <1>2, <1>3, <1>4
        DEF IInv, TypeInv, PendingInv, RunningInv, ReportInv, CurveInv, Directions

LEMMA Inductive ==
  ASSUME ActsSafely
  PROVE  Spec => []IInv
<1>1. Init => IInv
  BY Initially
<1>2. IInv /\ [Next]_vars => IInv'
  BY StepKeeps
<1> QED BY <1>1, <1>2, PTL DEF Spec

\* No assertion of animation/controller.go and of the ticker fails, and tick
\* never runs without a simulation, in however many calls of however long
\* animations: provided that the program's listener calls the controller only
\* when an animation has ended, or nothing is repeated.
THEOREM ControllerNeverFails ==
  ASSUME ActsSafely
  PROVE  Spec => []NeverFails
<1>1. IInv => NeverFails
  BY DEF IInv, NeverFails
<1> QED BY <1>1, Inductive, PTL

\* Between calls the ticker runs exactly while there is a simulation, and the
\* status is the one that was last reported, under the same condition.
THEOREM StatusIsKnown ==
  ASSUME ActsSafely
  PROVE  Spec => []StatusIsReported
<1>1. IInv => StatusIsReported
  <2> SUFFICES ASSUME IInv, Idle
               PROVE  /\ c.active <=> c.simulation # NoSimulation /\ c.listening
                      /\ c.active => c.status = Running(c.direction)
                      /\ c.reported = c.status
    BY DEF StatusIsReported
  <2>1. \A i \in 1..Len(todo) : FALSE
    BY DEF Idle
  <2> QED BY <2>1 DEF IInv, RunningInv, ReportInv, Idle, Running
<1> QED BY <1>1, Inductive, PTL

\* What the status listeners have been told is true between calls, and so is
\* what the CurvedAnimation has made of it, whichever of the two listeners is
\* told first: provided that the program's calls the controller only when an
\* animation has ended.
THEOREM ListenersKnow ==
  ASSUME ActsAtTheEnd
  PROVE  Spec => []ListenersAreUpToDate
<1>1. ActsSafely
  BY DEF ActsSafely
<1>2. Init => CurveInv
  BY Initially
<1>3. IInv /\ CurveInv /\ [Next]_vars => CurveInv'
  BY StepTurns
<1>4. IInv /\ CurveInv => CurveFollowsStatus
  <2> SUFFICES ASSUME IInv, CurveInv, Idle, c.active
               PROVE  LET effective == IF curve = "none" THEN c.status ELSE curve
                      IN  effective = "Reverse" <=> c.status = "Reverse"
    BY DEF CurveFollowsStatus
  <2>1. c.listening /\ c.status \in Directions /\ c.reported = c.status
    BY DEF IInv, TypeInv, RunningInv, ReportInv, Controllers, Idle
  <2>2. curve \in {"none", c.status}
    BY <2>1 DEF CurveInv, Idle
  <2> QED BY <2>2
<1> QED BY <1>1, <1>2, <1>3, <1>4, Inductive, StatusIsKnown, PTL
        DEF Spec, ListenersAreUpToDate

=============================================================================

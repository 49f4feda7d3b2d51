------------------------------ MODULE Wsi_proofs ------------------------------
(***************************************************************************)
(* Proofs about the package wsi.                                           *)
(*                                                                         *)
(* WindowBuffers: nothing is drawn into memory, and none is unmapped, that   *)
(* the compositor may read.                                                *)
(*                                                                         *)
(* EventLoop: no request for a frame goes unnoticed, the event loop and the  *)
(* polling goroutine take turns, every request has one answer, and Run ends  *)
(* without an error only after an orderly shutdown.                        *)
(***************************************************************************)
EXTENDS EventLoop, WindowBuffers, FiniteSetTheorems, SequenceTheorems, TLAPS

-----------------------------------------------------------------------------
(* The buffers of a window *)

\* What is being drawn is one of the window's buffers and not busy: the only
\* addition the safety properties need to be inductive together.
DrawingIsOurs == drawing # None => drawing \in buffers \ busy

BuffersInv == BuffersTypeOK /\ HeldIsMapped /\ BusyIsOwed /\ DrawingIsOurs

\* Nothing is busy, held or drawn in the beginning.
LEMMA BuffersInitInv == BuffersInit => BuffersInv
  BY WindowBuffersAssumption
     DEF BuffersInit, BuffersInv, BuffersTypeOK, HeldIsMapped, BusyIsOwed, DrawingIsOurs

\* What NextBuffer keeps: every busy buffer, and nothing the window had not.
LEMMA KeptFacts == BuffersInv => busy \subseteq Kept /\ Kept \subseteq buffers
  BY DEF BuffersInv, BuffersTypeOK, Kept

\* Every action preserves the invariant.
LEMMA BuffersStepInv == BuffersInv /\ [BuffersNext]_bufferVars => BuffersInv'
<1> SUFFICES ASSUME BuffersInv, [BuffersNext]_bufferVars PROVE BuffersInv'
  OBVIOUS
<1> USE WindowBuffersAssumption DEF BuffersInv, BuffersTypeOK, HeldIsMapped, BusyIsOwed, DrawingIsOurs
<1>1. ASSUME NEW s \in Sizes, SetSize(s) PROVE BuffersInv'
  BY <1>1 DEF SetSize
<1>2. CASE Present
  <2>1. drawing \in buffers \ busy /\ drawing \in Buffers
    BY <1>2 DEF Present
  <2>2. drawing \notin released
    BY <2>1
  <2> QED BY <1>2, <2>1, <2>2 DEF Present
<1>3. ASSUME NEW b \in Buffers, NextBuffer(b) PROVE BuffersInv'
  <2>1. busy \subseteq Kept /\ Kept \subseteq buffers
    BY KeptFacts
  <2>2. CASE b \in Kept \ busy /\ buffers' = Kept /\ UNCHANGED bufferSize
    BY <1>3, <2>1, <2>2 DEF NextBuffer
  <2>3. CASE /\ Kept \subseteq busy /\ b \notin Kept
             /\ buffers' = Kept \cup {b}
             /\ bufferSize' = [bufferSize EXCEPT ![b] = size]
    BY <1>3, <2>1, <2>3 DEF NextBuffer
  <2> QED BY <1>3, <2>2, <2>3 DEF NextBuffer
<1>4. ASSUME NEW b \in Buffers, Release(b) PROVE BuffersInv'
  BY <1>4 DEF Release
<1>5. ASSUME NEW b \in Buffers, OnRelease(b) PROVE BuffersInv'
  BY <1>5 DEF OnRelease
<1>6. CASE UNCHANGED bufferVars
  BY <1>6 DEF bufferVars
<1> QED BY <1>1, <1>2, <1>3, <1>4, <1>5, <1>6 DEF BuffersNext

\* The inductive invariant holds in every reachable state.
THEOREM BuffersInvariance == BuffersSpec => []BuffersInv
  BY BuffersInitInv, BuffersStepInv, PTL DEF BuffersSpec

\* Type correctness.
THEOREM BuffersTypeCorrect == BuffersSpec => []BuffersTypeOK
<1>1. BuffersInv => BuffersTypeOK
  BY DEF BuffersInv
<1> QED BY <1>1, BuffersInvariance, PTL

\* For any set of buffers and sizes, whatever the compositor holds and releases:
\* the application never renders into a buffer the compositor may read (the test
\* of busy in NextBuffer, set by Present, reset by OnRelease).
THEOREM NeverDrawsIntoHeld == BuffersSpec => []DrawsIntoFreeBuffer
<1>1. BuffersInv => DrawsIntoFreeBuffer
  BY WindowBuffersAssumption
     DEF BuffersInv, BuffersTypeOK, HeldIsMapped, BusyIsOwed, DrawingIsOurs, DrawsIntoFreeBuffer
<1> QED BY <1>1, BuffersInvariance, PTL

\* No change of size makes NextBuffer unmap memory the compositor may read.
THEOREM NeverUnmapsHeld == BuffersSpec => []HeldIsMapped
<1>1. BuffersInv => HeldIsMapped
  BY DEF BuffersInv
<1> QED BY <1>1, BuffersInvariance, PTL

\* Each release event answers one Present.
THEOREM ReleaseAnswersPresent == BuffersSpec => []BusyIsOwed
<1>1. BuffersInv => BusyIsOwed
  BY DEF BuffersInv
<1> QED BY <1>1, BuffersInvariance, PTL

\* The first frame after a change of size fits the window.
THEOREM FirstFits == BuffersSpec => FirstFrameFits
<1>1. BuffersInv /\ [BuffersNext]_bufferVars
        => [drawing = None /\ drawing' # None /\ needNewBuffers
              => bufferSize'[drawing'] = size]_bufferVars
  <2> SUFFICES ASSUME BuffersInv, [BuffersNext]_bufferVars, drawing = None, drawing' # None, needNewBuffers
               PROVE bufferSize'[drawing'] = size
    OBVIOUS
  <2>1. PICK b \in Buffers : NextBuffer(b)
    BY DEF BuffersNext, bufferVars, SetSize, Present, Release, OnRelease
  <2>2. \A x \in Kept \ busy : bufferSize[x] = size
    BY DEF Kept
  <2> QED BY <2>1, <2>2 DEF NextBuffer, BuffersInv, BuffersTypeOK
<1> QED BY <1>1, BuffersInvariance, PTL DEF BuffersSpec, FirstFrameFits

-----------------------------------------------------------------------------
(* Counting the elements of a sequence *)

\* The number of places at which a sequence has e.
Count(s, e) == Cardinality({i \in 1..Len(s) : s[i] = e})

LEMMA CountType ==
  ASSUME NEW S, NEW s \in Seq(S), NEW e
  PROVE  /\ IsFiniteSet({i \in 1..Len(s) : s[i] = e})
         /\ Count(s, e) \in Nat
         /\ Count(s, e) = 0 <=> e \notin Range(s)
<1> DEFINE At == {i \in 1..Len(s) : s[i] = e}
<1>1. IsFiniteSet(1..Len(s)) /\ At \in SUBSET (1..Len(s))
  BY LenProperties, FS_Interval
<1>2. IsFiniteSet(At) /\ Cardinality(At) \in Nat
  <2> HIDE DEF At
  <2> QED BY <1>1, FS_Subset, FS_CardinalityType
<1>3. Cardinality(At) = 0 <=> At = {}
  BY <1>2, FS_EmptySet
<1>4. At = {} <=> e \notin Range(s)
  BY RangeEquality
<1> QED BY <1>2, <1>3, <1>4 DEF Count

LEMMA CountConcat ==
  ASSUME NEW S, NEW s \in Seq(S), NEW t \in Seq(S), NEW e
  PROVE  Count(s \o t, e) = Count(s, e) + Count(t, e)
<1> DEFINE At(u) == {i \in 1..Len(u) : u[i] = e}
           Late == {i \in Len(s)+1..Len(s)+Len(t) : t[i - Len(s)] = e}
           shift == [i \in At(t) |-> i + Len(s)]
<1>1. Len(s) \in Nat /\ Len(t) \in Nat
  BY LenProperties
<1>2. At(s \o t) = At(s) \cup Late /\ At(s) \cap Late = {}
  BY <1>1, ConcatProperties
<1>3. shift \in Bijection(At(t), Late)
  <2>1. shift \in [At(t) -> Late]
    BY <1>1
  <2>2. IsInjective(shift)
    BY <1>1 DEF IsInjective
  <2>3. \A j \in Late : \E i \in At(t) : shift[i] = j
    <3> TAKE j \in Late
    <3>1. j - Len(s) \in At(t) /\ shift[j - Len(s)] = j
      BY <1>1
    <3> QED BY <3>1
  <2> HIDE DEF Late, shift, At
  <2> QED BY <2>1, <2>2, <2>3 DEF Bijection, Injection, Surjection
<1>4. IsFiniteSet(At(s)) /\ IsFiniteSet(At(t))
  BY CountType, Zenon
<1>5. IsFiniteSet(Late) /\ Cardinality(Late) = Cardinality(At(t))
  <2> HIDE DEF Late, shift, At
  <2> QED BY <1>3, <1>4, FS_Bijection DEF ExistsBijection
<1>6. Cardinality(At(s \o t)) = Cardinality(At(s)) + Cardinality(At(t))
  <2> DEFINE A == At(s)
  <2>1. IsFiniteSet(A) /\ IsFiniteSet(Late) /\ A \cap Late = {}
    BY <1>2, <1>4, <1>5
  <2>2. Cardinality(A) \in Nat /\ Cardinality(Late) \in Nat
    <3> HIDE DEF A, Late
    <3> QED BY <2>1, FS_CardinalityType
  <2>3. Cardinality(A \cup Late) = Cardinality(A) + Cardinality(Late)
    <3> HIDE DEF A, Late
    <3>1. Cardinality(A \cup Late)
            = Cardinality(A) + Cardinality(Late) - Cardinality({})
      BY <2>1, FS_Union
    <3> QED BY <2>2, <3>1, FS_EmptySet
  <2> QED BY <1>2, <1>5, <2>3
<1> QED BY <1>6 DEF Count

LEMMA CountShort ==
  ASSUME NEW a, NEW e
  PROVE  /\ Count(<<>>, e) = 0
         /\ Count(<<a>>, e) = IF a = e THEN 1 ELSE 0
<1>1. {i \in 1..Len(<<>>) : <<>>[i] = e} = {}
  OBVIOUS
<1>2. {i \in 1..Len(<<a>>) : <<a>>[i] = e} = IF a = e THEN {1} ELSE {}
  OBVIOUS
<1> QED BY <1>1, <1>2, FS_EmptySet, FS_Singleton DEF Count

LEMMA CountSetToSeq ==
  ASSUME NEW S, IsFiniteSet(S), NEW e
  PROVE  /\ SetToSeq(S) \in Seq(S)
         /\ Count(SetToSeq(S), e) = IF e \in S THEN 1 ELSE 0
<1> DEFINE n == Cardinality(S)
           s == SetToSeq(S)
<1>1. n \in Nat /\ ExistsBijection(1..n, S)
  BY FS_CardinalityType
<1>2. \E f \in [1..n -> S] : IsInjective(f)
  BY <1>1 DEF ExistsBijection, Bijection, Injection
<1>3. s \in [1..n -> S] /\ IsInjective(s)
  BY <1>2 DEF SetToSeq
<1>4. s \in Injection(1..n, S)
  BY <1>3 DEF Injection
<1>5. IsFiniteSet(1..n) /\ Cardinality(1..n) = n
  BY <1>1, FS_Interval
<1>6. s \in Surjection(1..n, S)
  BY <1>4, <1>5, FS_Injection
<1>7. s \in Seq(S) /\ Len(s) = n
  BY <1>1, <1>3
<1>8. ASSUME e \in S
      PROVE  Count(s, e) = 1
  <2>1. PICK k \in 1..n : s[k] = e
    BY <1>6, <1>8 DEF Surjection
  <2>2. {i \in 1..Len(s) : s[i] = e} = {k}
    BY <1>3, <1>7, <2>1 DEF IsInjective
  <2> HIDE DEF s
  <2> QED BY <2>2, FS_Singleton DEF Count
<1>9. ASSUME e \notin S
      PROVE  Count(s, e) = 0
  <2>1. {i \in 1..Len(s) : s[i] = e} = {}
    BY <1>3, <1>7, <1>9
  <2> HIDE DEF s
  <2> QED BY <2>1, FS_EmptySet DEF Count
<1> QED BY <1>7, <1>8, <1>9

\* The changes that the program makes to its sequences.
LEMMA CountChanges ==
  ASSUME NEW S, NEW s \in Seq(S), NEW e
  PROVE  /\ \A a \in S : /\ Append(s, a) \in Seq(S)
                         /\ Count(Append(s, a), e)
                              = Count(s, e) + IF a = e THEN 1 ELSE 0
         /\ s # <<>> => /\ Head(s) \in S /\ Tail(s) \in Seq(S)
                        /\ Count(s, e) = Count(Tail(s), e)
                                           + IF Head(s) = e THEN 1 ELSE 0
         /\ \A k \in 0..Len(s) :
              /\ SubSeq(s, 1, k) \in Seq(S) /\ SubSeq(s, k + 1, Len(s)) \in Seq(S)
              /\ Count(s, e) = Count(SubSeq(s, 1, k), e)
                                 + Count(SubSeq(s, k + 1, Len(s)), e)
<1> Len(s) \in Nat
  BY LenProperties
<1>1. ASSUME NEW a \in S
      PROVE  /\ Append(s, a) \in Seq(S)
             /\ Count(Append(s, a), e) = Count(s, e) + IF a = e THEN 1 ELSE 0
  <2>1. <<a>> \in Seq(S) /\ Append(s, a) \in Seq(S)
    BY AppendProperties
  <2>2. Append(s, a) = s \o <<a>>
    BY AppendIsConcat
  <2>3. Count(Append(s, a), e) = Count(s, e) + Count(<<a>>, e)
    <3>1. Count(s \o <<a>>, e) = Count(s, e) + Count(<<a>>, e)
      BY <2>1, CountConcat
    <3> QED BY <2>2, <3>1, Zenon
  <2>4. Count(<<a>>, e) = IF a = e THEN 1 ELSE 0
    BY CountShort
  <2> QED BY <2>1, <2>3, <2>4
<1>2. ASSUME s # <<>>
      PROVE  /\ Head(s) \in S /\ Tail(s) \in Seq(S)
             /\ Count(s, e) = Count(Tail(s), e) + IF Head(s) = e THEN 1 ELSE 0
  <2>1. Head(s) \in S /\ Tail(s) \in Seq(S)
    BY <1>2, HeadTailProperties
  <2>2. <<Head(s)>> \in Seq(S)
    BY <2>1
  <2>3. s = <<Head(s)>> \o Tail(s)
    BY <1>2
  <2>4. Count(s, e) = Count(<<Head(s)>>, e) + Count(Tail(s), e)
    <3> DEFINE h == <<Head(s)>>
               t == Tail(s)
    <3>1. h \in Seq(S) /\ t \in Seq(S) /\ s = h \o t
      BY <2>1, <2>2, <2>3
    <3> HIDE DEF h, t
    <3>2. Count(h \o t, e) = Count(h, e) + Count(t, e)
      BY <3>1, CountConcat
    <3>3. Count(s, e) = Count(h, e) + Count(t, e)
      BY <3>1, <3>2
    <3> QED BY <3>3 DEF h, t
  <2>5. Count(Tail(s), e) \in Nat
    BY <2>1, CountType
  <2> QED BY <2>1, <2>4, <2>5, CountShort
<1>3. ASSUME NEW k \in 0..Len(s)
      PROVE  /\ SubSeq(s, 1, k) \in Seq(S) /\ SubSeq(s, k + 1, Len(s)) \in Seq(S)
             /\ Count(s, e) = Count(SubSeq(s, 1, k), e)
                                + Count(SubSeq(s, k + 1, Len(s)), e)
  <2>1. \A i \in 1..Len(s) : s[i] \in S
    BY ElementOfSeq
  <2>2. SubSeq(s, 1, k) \in Seq(S) /\ SubSeq(s, k + 1, Len(s)) \in Seq(S)
    BY <2>1, SubSeqProperties
  <2>3. SubSeq(s, 1, k) \o SubSeq(s, k + 1, Len(s)) = SubSeq(s, 1, Len(s))
    <3>1. 1 \in 1..Len(s)+1 /\ k \in 1-1..Len(s) /\ Len(s) \in k..Len(s)
      OBVIOUS
    <3> QED BY <3>1, ConcatAdjacentSubSeq
  <2>4. SubSeq(s, 1, Len(s)) = s
    BY SubSeqFull
  <2> DEFINE t == SubSeq(s, 1, k)
             u == SubSeq(s, k + 1, Len(s))
  <2>5. t \in Seq(S) /\ u \in Seq(S) /\ t \o u = s
    BY <2>2, <2>3, <2>4
  <2> HIDE DEF t, u
  <2>6. Count(t \o u, e) = Count(t, e) + Count(u, e)
    BY <2>5, CountConcat
  <2>7. Count(s, e) = Count(t, e) + Count(u, e)
    BY <2>5, <2>6
  <2> QED BY <2>5, <2>7 DEF t, u
<1> QED BY <1>1, <1>2, <1>3

-----------------------------------------------------------------------------
(* Turns *)

\* What the loop's own steps do to the program's requests and to the poller.
LEMMA HandleTurns ==
  ASSUME RequestIsAnnounced, PollsInTurn, Handle
  PROVE  RequestIsAnnounced' /\ PollsInTurn'
<1> USE DEF RequestIsAnnounced, PollsInTurn, Returned
<1>1. CASE Read
  BY <1>1 DEF Read, appVars, pollVars
<1>2. CASE DispatchFrame
  BY <1>2 DEF DispatchFrame, appVars, pollVars
<1>3. CASE DispatchSync
  BY <1>3 DEF DispatchSync, appVars, pollVars
<1>4. CASE DispatchConfigure
  BY <1>4 DEF DispatchConfigure, appVars, pollVars
<1>5. CASE FlushConfigure
  BY <1>5 DEF FlushConfigure, appVars, pollVars
<1>6. CASE Dispatched
  BY <1>6 DEF Dispatched, appVars, pollVars
<1>7. CASE Flush
  BY <1>7 DEF Flush, Trigger, appVars
<1>8. CASE SkipFlush
  BY <1>8 DEF SkipFlush, Trigger, appVars
<1>9. CASE ServeFrames
  BY <1>9 DEF ServeFrames, pollVars
<1>10. CASE FlushFrames
  BY <1>10 DEF FlushFrames, appVars, pollVars
<1> QED BY <1>1, <1>2, <1>3, <1>4, <1>5, <1>6, <1>7, <1>8, <1>9, <1>10 DEF Handle

\* The cases of the select statement.
LEMMA SelectTurns ==
  ASSUME RequestIsAnnounced, PollsInTurn, Select
  PROVE  RequestIsAnnounced' /\ PollsInTurn'
<1> USE DEF RequestIsAnnounced, PollsInTurn, Returned
<1>1. CASE ReturnPollError
  BY <1>1 DEF ReturnPollError, appVars, pollVars
<1>2. CASE TakeResult
  BY <1>2 DEF TakeResult, appVars
<1>3. CASE Quit
  BY <1>3 DEF Quit, appVars, pollVars
<1>4. CASE Timeout
  BY <1>4 DEF Timeout, appVars, pollVars
<1>5. CASE TakeToken
  BY <1>5 DEF TakeToken, pollVars
<1>6. CASE HandleEvent
  BY <1>6 DEF HandleEvent, appVars, pollVars
<1> QED BY <1>1, <1>2, <1>3, <1>4, <1>5, <1>6 DEF Select

\* The other goroutines and the compositor.
LEMMA OthersTurns ==
  ASSUME RequestIsAnnounced, PollsInTurn, Poll \/ Compositor \/ Program
  PROVE  RequestIsAnnounced' /\ PollsInTurn'
<1> USE DEF RequestIsAnnounced, PollsInTurn
<1>1. CASE PollReturns
  BY <1>1 DEF PollReturns, appVars
<1>2. CASE PollFails
  BY <1>2 DEF PollFails, appVars
<1>3. CASE Compositor
  BY <1>3 DEF Compositor, Receive, Close, FrameDone, Resize, appVars, pollVars
<1>4. CASE EmitEvent \/ Cancel
  BY <1>4 DEF EmitEvent, Cancel, appVars, pollVars
<1>5. ASSUME NEW w \in Windows, RequestFrame(w)
      PROVE  RequestIsAnnounced' /\ PollsInTurn'
  BY <1>5 DEF RequestFrame, pollVars
<1> QED BY <1>1, <1>2, <1>3, <1>4, <1>5 DEF Poll, Program

LEMMA TurnsStep ==
  ASSUME RequestIsAnnounced, PollsInTurn, [Next]_vars
  PROVE  RequestIsAnnounced' /\ PollsInTurn'
<1>1. CASE UNCHANGED vars
  BY <1>1 DEF vars, RequestIsAnnounced, PollsInTurn
<1> QED BY <1>1, HandleTurns, SelectTurns, OthersTurns DEF Next

-----------------------------------------------------------------------------
(* Where the answers are *)

\* The requests for e that are being written, on their way, or being served, and
\* the answers that have not been dispatched; a sync that was answered counts on.
Outstanding(e) ==
  Count(out, e) + Count(sent, e) + Count(in, e) + Count(queue, e)
    + (IF e = Sync THEN IF synced THEN 1 ELSE 0
       ELSE IF e \in callbacks THEN 1 ELSE 0)

\* What Run believes to be outstanding.
Expected(e) == IF e = Sync THEN IF quitting THEN 1 ELSE 0
               ELSE IF e \in frameScheduled THEN 1 ELSE 0

Requests == Windows \cup {Sync}

\* Every request has one answer as long as the connection is up, and none has two.
AnswersInv ==
  \A e \in Requests : IF closed THEN Outstanding(e) <= Expected(e)
                                ELSE Outstanding(e) = Expected(e)

SequencesInv ==
  /\ out \in Seq(Requests) /\ sent \in Seq(Requests)
  /\ in \in Seq(Events) /\ queue \in Seq(Events)
  /\ frames \subseteq Windows /\ IsFiniteSet(frames)
  /\ callbacks \subseteq Windows /\ frameScheduled \subseteq Windows

\* What was read is dispatched before anything else is done.
QueueInv == pc \notin {"dispatch", "flushConfigure"} => queue = <<>>

\* ReadEvents finds nothing to read only when the compositor has hung up.
HangupInv ==
  (poller = "result" /\ "in" \in revents) \/ pc = "read" => in # <<>> \/ closed

IInv ==
  /\ SequencesInv /\ QueueInv /\ AnswersInv
  /\ RequestIsAnnounced /\ PollsInTurn /\ HangupInv
  /\ quitting => cancelled
  /\ CleanEnd

LEMMA CountsAreNat ==
  ASSUME SequencesInv, NEW e
  PROVE  /\ Count(out, e) \in Nat /\ Count(sent, e) \in Nat
         /\ Count(in, e) \in Nat /\ Count(queue, e) \in Nat
  BY CountType DEF SequencesInv

\* A flush moves requests from the buffer to the connection.
LEMMA FlushConserves ==
  ASSUME SequencesInv, AnswersInv, NEW k \in Flushes, Flushed(k),
         UNCHANGED <<frameScheduled, callbacks, in, queue, closed, quitting,
                     synced, frames>>
  PROVE  SequencesInv' /\ AnswersInv'
<1> DEFINE first == SubSeq(out, 1, k)
           rest == SubSeq(out, k + 1, Len(out))
<1>1. k \in 0..Len(out)
  <2>1. Len(out) \in Nat
    BY LenProperties DEF SequencesInv
  <2> QED BY <2>1 DEF Flushes
<1>2. out' = rest /\ sent' = sent \o first
  BY DEF Flushed
<1>3. first \in Seq(Requests) /\ rest \in Seq(Requests)
  BY <1>1, CountChanges DEF SequencesInv
<1>4. SequencesInv'
  BY <1>2, <1>3, ConcatProperties DEF SequencesInv
<1>5. ASSUME NEW e \in Requests
      PROVE  Outstanding(e)' = Outstanding(e)
  <2>1. Count(out, e) = Count(first, e) + Count(rest, e)
    BY <1>1, CountChanges DEF SequencesInv
  <2>2. Count(sent', e) = Count(sent, e) + Count(first, e)
    BY <1>2, <1>3, CountConcat DEF SequencesInv
  <2>3. Count(first, e) \in Nat /\ Count(rest, e) \in Nat
    BY <1>3, CountType
  <2>4. Count(out', e) + Count(sent', e) = Count(out, e) + Count(sent, e)
    <3> HIDE DEF first, rest
    <3> QED BY <1>2, <2>1, <2>2, <2>3, CountsAreNat
  <2> QED BY <2>4, CountsAreNat DEF Outstanding
<1>6. AnswersInv'
  BY <1>5 DEF AnswersInv, Expected
<1> QED BY <1>4, <1>6

\* Requests for frames go to the windows that are not waiting for one already.
LEMMA RequestCounts ==
  ASSUME SequencesInv, NEW W \in SUBSET Windows, IsFiniteSet(W), RequestNow(W)
  PROVE  /\ out' \in Seq(Requests) /\ frameScheduled' \subseteq Windows
         /\ \A e : Count(out', e) = Count(out, e)
                                      + IF e \in W \ frameScheduled THEN 1 ELSE 0
<1> DEFINE new == W \ frameScheduled
           s == SetToSeq(new)
<1>1. IsFiniteSet(new)
  BY FS_Difference
<1>2. s \in Seq(new)
  <2> HIDE DEF new
  <2> QED BY <1>1, CountSetToSeq
<1>3. s \in Seq(Requests)
  <2>1. new \subseteq Requests
    BY DEF Requests
  <2> HIDE DEF new, s
  <2> QED BY <1>2, <2>1, SeqMonotonic
<1>4. out' = out \o s /\ frameScheduled' = frameScheduled \cup W
  BY DEF RequestNow
<1>5. out' \in Seq(Requests)
  <2> HIDE DEF s
  <2> QED BY <1>3, <1>4, ConcatProperties DEF SequencesInv
<1>6. ASSUME NEW e
      PROVE  Count(out', e) = Count(out, e) + IF e \in new THEN 1 ELSE 0
  <2>1. Count(s, e) = IF e \in new THEN 1 ELSE 0
    <3> HIDE DEF new
    <3> QED BY <1>1, CountSetToSeq
  <2>2. Count(out \o s, e) = Count(out, e) + Count(s, e)
    <3> HIDE DEF s
    <3> QED BY <1>3, CountConcat DEF SequencesInv
  <2> QED BY <1>4, <2>1, <2>2
<1> QED BY <1>4, <1>5, <1>6 DEF SequencesInv

\* The first event of the queue is dispatched.
LEMMA DispatchCounts ==
  ASSUME SequencesInv, queue # <<>>, queue' = Tail(queue)
  PROVE  /\ Head(queue) \in Events /\ queue' \in Seq(Events)
         /\ \A e : Count(queue, e) = Count(queue', e)
                                       + IF Head(queue) = e THEN 1 ELSE 0
         /\ \A e : Count(queue', e) \in Nat
<1>1. Head(queue) \in Events /\ queue' \in Seq(Events)
  BY HeadTailProperties DEF SequencesInv
<1>2. \A e : Count(queue, e) = Count(queue', e) + IF Head(queue) = e THEN 1 ELSE 0
  BY CountChanges DEF SequencesInv
<1>3. \A e : Count(queue', e) \in Nat
  BY <1>1, CountType
<1> QED BY <1>1, <1>2, <1>3

\* The other variables do not matter to SequencesInv and AnswersInv.
answerVars == <<frames, frameScheduled, out, sent, callbacks, in, queue,
                quitting, synced, closed>>

LEMMA QuietAnswers ==
  ASSUME SequencesInv, AnswersInv, UNCHANGED answerVars
  PROVE  SequencesInv' /\ AnswersInv'
<1>1. SequencesInv'
  BY DEF SequencesInv, answerVars
<1>2. \A e : Outstanding(e)' = Outstanding(e) /\ Expected(e)' = Expected(e)
  BY DEF Outstanding, Expected, answerVars
<1> QED BY <1>1, <1>2 DEF AnswersInv, answerVars

LEMMA HandleAnswers ==
  ASSUME SequencesInv, QueueInv, AnswersInv, Handle
  PROVE  SequencesInv' /\ AnswersInv'
<1> USE EventLoopAssumption, CountsAreNat
<1>1. CASE Read
  <2>1. queue = <<>> /\ queue' = in /\ in' = <<>>
    BY <1>1 DEF Read, QueueInv
  <2>2. SequencesInv'
    BY <1>1, <2>1 DEF Read, SequencesInv, appVars
  <2>3. ASSUME NEW e
        PROVE  Count(in', e) + Count(queue', e) = Count(in, e) + Count(queue, e)
    BY <2>1, CountShort
  <2>4. \A e : Outstanding(e)' = Outstanding(e) /\ Expected(e)' = Expected(e)
    <3> TAKE e
    <3>1. Count(in', e) \in Nat /\ Count(queue', e) \in Nat
      BY <2>2, CountType DEF SequencesInv
    <3> QED BY <1>1, <2>3, <3>1 DEF Read, Outstanding, Expected, quitVars
  <2> QED BY <1>1, <2>2, <2>4 DEF AnswersInv, Read
<1>2. CASE DispatchFrame
  <2> DEFINE h == Head(queue)
  <2>1. queue # <<>> /\ queue' = Tail(queue) /\ h \in Windows
    BY <1>2 DEF DispatchFrame
  <2>2. frameScheduled' = frameScheduled \ {h}
        /\ UNCHANGED <<frames, out, sent, callbacks, in, quitting, synced, closed>>
    BY <1>2 DEF DispatchFrame, appVars, wireVars, quitVars
  <2>3. SequencesInv'
    BY <2>1, <2>2, DispatchCounts DEF SequencesInv
  <2>4. \A e : /\ Outstanding(e)' = Outstanding(e) - IF h = e THEN 1 ELSE 0
               /\ Outstanding(e) \in Nat /\ Outstanding(e)' \in Nat
    <3> TAKE e
    <3>1. /\ Count(queue, e) = Count(queue', e) + IF h = e THEN 1 ELSE 0
          /\ Count(queue', e) \in Nat
      BY <2>1, DispatchCounts
    <3> QED BY <2>2, <3>1 DEF Outstanding
  <2>5. ASSUME NEW e \in Requests
        PROVE  IF closed' THEN Outstanding(e)' <= Expected(e)'
                          ELSE Outstanding(e)' = Expected(e)'
    <3>1. CASE h = e
      <4>1. Expected(e) \in 0..1 /\ Expected(e)' = 0
        BY <2>1, <2>2, <3>1 DEF Expected
      <4> QED BY <2>2, <2>4, <3>1, <4>1 DEF AnswersInv
    <3>2. CASE h # e
      <4>1. Expected(e)' = Expected(e)
        BY <2>2, <3>2 DEF Expected
      <4> QED BY <2>2, <2>4, <3>2, <4>1 DEF AnswersInv
    <3> QED BY <3>1, <3>2
  <2> QED BY <2>3, <2>5 DEF AnswersInv
<1>3. CASE DispatchSync
  <2>1. queue # <<>> /\ queue' = Tail(queue) /\ Head(queue) = Sync /\ synced'
        /\ UNCHANGED <<frames, frameScheduled, out, sent, callbacks, in, quitting, closed>>
    BY <1>3 DEF DispatchSync, appVars, wireVars
  <2>2. SequencesInv'
    BY <2>1, DispatchCounts DEF SequencesInv
  <2>3. ~synced /\ Outstanding(Sync) \in Nat
    <3>1. Count(queue, Sync) >= 1
      BY <2>1, DispatchCounts
    <3>2. Outstanding(Sync) <= 1
      BY DEF AnswersInv, Expected, Requests, Outstanding
    <3> QED BY <3>1, <3>2 DEF Outstanding
  <2>4. ASSUME NEW e \in Requests
        PROVE  Outstanding(e)' = Outstanding(e) /\ Expected(e)' = Expected(e)
    <3>1. /\ Count(queue, e) = Count(queue', e) + IF Sync = e THEN 1 ELSE 0
          /\ Count(queue', e) \in Nat
      BY <2>1, DispatchCounts
    <3>2. Expected(e)' = Expected(e)
      BY <2>1 DEF Expected
    <3>3. ASSUME e = Sync
          PROVE  Outstanding(e)' = Outstanding(e)
      BY <2>1, <2>3, <3>1, <3>3 DEF Outstanding
    <3>4. ASSUME e # Sync
          PROVE  Outstanding(e)' = Outstanding(e)
      BY <2>1, <3>1, <3>4 DEF Outstanding
    <3> QED BY <3>2, <3>3, <3>4
  <2> QED BY <2>1, <2>2, <2>4 DEF AnswersInv
<1>4. CASE DispatchConfigure
  <2>1. PICK w \in Windows : /\ queue # <<>> /\ Head(queue) = Configure(w)
                             /\ RequestNow({w})
    BY <1>4 DEF DispatchConfigure
  <2>2. queue' = Tail(queue)
        /\ UNCHANGED <<frames, sent, callbacks, in, quitting, synced, closed>>
    BY <1>4 DEF DispatchConfigure, appVars, wireVars, quitVars
  <2>3. IsFiniteSet({w})
    BY FS_Singleton
  <2>4. SequencesInv'
    BY <2>1, <2>2, <2>3, RequestCounts, DispatchCounts DEF SequencesInv
  <2>5. ASSUME NEW e \in Requests
        PROVE  Outstanding(e)' - Outstanding(e) = Expected(e)' - Expected(e)
               /\ {Outstanding(e), Expected(e), Outstanding(e)', Expected(e)'} \subseteq Nat
    <3>1. Count(queue', e) = Count(queue, e) /\ Count(queue', e) \in Nat
      BY <2>1, <2>2, DispatchCounts DEF Requests
    <3>2. Count(out', e) = Count(out, e) + IF e \in {w} \ frameScheduled THEN 1 ELSE 0
      BY <2>1, <2>3, RequestCounts
    <3>3. frameScheduled' = frameScheduled \cup {w}
      BY <2>1 DEF RequestNow
    <3> QED BY <2>2, <3>1, <3>2, <3>3, SMTT(30) DEF Outstanding, Expected
  <2> QED BY <2>2, <2>4, <2>5 DEF AnswersInv
<1>5. CASE FlushConfigure
  BY <1>5, FlushConserves DEF FlushConfigure, appVars, quitVars
<1>6. CASE Dispatched
  BY <1>6, QuietAnswers DEF Dispatched, answerVars, appVars, wireVars, quitVars
<1>7. CASE Flush
  BY <1>7, FlushConserves DEF Flush, appVars
<1>8. CASE SkipFlush
  BY <1>8, QuietAnswers DEF SkipFlush, answerVars, appVars, wireVars, quitVars
<1>9. CASE ServeFrames
  <2>1. RequestNow(frames) /\ frames' = {} /\ frames \in SUBSET Windows /\ IsFiniteSet(frames)
        /\ UNCHANGED <<sent, callbacks, in, queue, quitting, synced, closed>>
    BY <1>9 DEF ServeFrames, wireVars, quitVars, SequencesInv
  <2>2. SequencesInv'
    BY <2>1, RequestCounts, FS_EmptySet DEF SequencesInv
  <2>3. ASSUME NEW e \in Requests
        PROVE  Outstanding(e)' - Outstanding(e) = Expected(e)' - Expected(e)
               /\ {Outstanding(e), Expected(e), Outstanding(e)', Expected(e)'} \subseteq Nat
    <3>1. Count(out', e) = Count(out, e) + IF e \in frames \ frameScheduled THEN 1 ELSE 0
      BY <2>1, RequestCounts
    <3>2. frameScheduled' = frameScheduled \cup frames /\ Sync \notin frames
      BY <2>1 DEF RequestNow
    <3> QED BY <2>1, <3>1, <3>2 DEF Outstanding, Expected
  <2> QED BY <2>1, <2>2, <2>3 DEF AnswersInv
<1>10. CASE FlushFrames
  BY <1>10, FlushConserves DEF FlushFrames, appVars, quitVars
<1> QED BY <1>1, <1>2, <1>3, <1>4, <1>5, <1>6, <1>7, <1>8, <1>9, <1>10 DEF Handle

LEMMA SelectAnswers ==
  ASSUME SequencesInv, AnswersInv, Select
  PROVE  SequencesInv' /\ AnswersInv'
<1> USE EventLoopAssumption, CountsAreNat
<1>1. CASE Quit
  <2>1. out' = Append(out, Sync) /\ ~quitting /\ quitting'
        /\ UNCHANGED <<frames, frameScheduled, sent, callbacks, in, queue, synced, closed>>
    BY <1>1 DEF Quit, appVars, wireVars
  <2>2. Sync \in Requests
    BY DEF Requests
  <2>3. SequencesInv'
    BY <2>1, <2>2, CountChanges DEF SequencesInv
  <2>4. \A e : Count(out', e) = Count(out, e) + IF Sync = e THEN 1 ELSE 0
    BY <2>1, <2>2, CountChanges DEF SequencesInv
  <2>5. ASSUME NEW e \in Requests
        PROVE  Outstanding(e)' - Outstanding(e) = Expected(e)' - Expected(e)
               /\ {Outstanding(e), Expected(e), Outstanding(e)', Expected(e)'} \subseteq Nat
    BY <2>1, <2>4, SMTT(30) DEF Outstanding, Expected
  <2> QED BY <2>1, <2>3, <2>5 DEF AnswersInv
<1>2. CASE ReturnPollError \/ TakeResult \/ Timeout \/ TakeToken \/ HandleEvent
  BY <1>2, QuietAnswers DEF ReturnPollError, TakeResult, Timeout, TakeToken, HandleEvent,
       answerVars, appVars, wireVars, quitVars
<1> QED BY <1>1, <1>2 DEF Select

LEMMA CompositorAnswers ==
  ASSUME SequencesInv, AnswersInv, Compositor
  PROVE  SequencesInv' /\ AnswersInv'
<1> USE EventLoopAssumption, CountsAreNat
<1>1. CASE Receive
  <2> DEFINE h == Head(sent)
  <2>1. sent # <<>> /\ sent' = Tail(sent) /\ ~closed
        /\ UNCHANGED <<frames, frameScheduled, out, queue, quitting, synced, closed>>
    BY <1>1 DEF Receive, appVars, quitVars
  <2>2. h \in Requests /\ sent' \in Seq(Requests)
    BY <2>1, CountChanges DEF SequencesInv
  <2>3. \A e : Count(sent, e) = Count(sent', e) + IF h = e THEN 1 ELSE 0
    BY <2>1, CountChanges DEF SequencesInv
  <2>4. \A e : Count(sent', e) \in Nat
    BY <2>2, CountType
  <2>5. CASE h = Sync
    <3>1. in' = Append(in, Sync) /\ callbacks' = callbacks /\ Sync \in Events
      BY <1>1, <2>5 DEF Receive, Events
    <3>2. SequencesInv'
      BY <2>1, <2>2, <3>1, CountChanges DEF SequencesInv
    <3>3. \A e : Count(in', e) = Count(in, e) + IF Sync = e THEN 1 ELSE 0
      BY <3>1, CountChanges DEF SequencesInv
    <3>4. \A e : Outstanding(e)' = Outstanding(e) /\ Expected(e)' = Expected(e)
      BY <2>1, <2>3, <2>4, <2>5, <3>1, <3>3, SMTT(30) DEF Outstanding, Expected
    <3> QED BY <2>1, <3>2, <3>4 DEF AnswersInv
  <2>6. CASE h # Sync
    <3>1. h \in Windows /\ callbacks' = callbacks \cup {h} /\ in' = in
      BY <1>1, <2>2, <2>6 DEF Receive, Requests
    <3>2. SequencesInv'
      BY <2>1, <2>2, <3>1 DEF SequencesInv
    <3>3. h \notin callbacks
      <4>1. Count(sent, h) >= 1
        BY <2>3, <2>4
      <4>2. Outstanding(h) = Expected(h) /\ Expected(h) \in 0..1
        BY <2>1, <2>2 DEF AnswersInv, Expected
      <4> QED BY <2>6, <4>1, <4>2 DEF Outstanding
    <3>4. \A e : Outstanding(e)' = Outstanding(e) /\ Expected(e)' = Expected(e)
      BY <2>1, <2>3, <2>4, <2>6, <3>1, <3>3, SMTT(30) DEF Outstanding, Expected
    <3> QED BY <2>1, <3>2, <3>4 DEF AnswersInv
  <2> QED BY <2>5, <2>6
<1>2. CASE Close
  <2>1. closed' /\ sent' = <<>> /\ callbacks' = {}
        /\ UNCHANGED <<frames, frameScheduled, out, in, queue, quitting, synced>>
    BY <1>2 DEF Close, appVars, quitVars
  <2>2. SequencesInv'
    BY <2>1 DEF SequencesInv
  <2>3. ASSUME NEW e \in Requests
        PROVE  Outstanding(e)' <= Expected(e)'
    <3>1. Count(sent', e) = 0
      BY <2>1, CountShort
    <3>2. Outstanding(e)' <= Outstanding(e) /\ Outstanding(e) \in Nat
          /\ Outstanding(e)' \in Nat
      BY <2>1, <3>1, SMTT(30) DEF Outstanding
    <3>3. Expected(e)' = Expected(e) /\ Expected(e) \in Nat
      BY <2>1 DEF Expected
    <3> QED BY <3>2, <3>3 DEF AnswersInv
  <2> QED BY <2>1, <2>2, <2>3 DEF AnswersInv
<1>3. ASSUME NEW w \in Windows, FrameDone(w)
      PROVE  SequencesInv' /\ AnswersInv'
  <2>1. w \in callbacks /\ callbacks' = callbacks \ {w} /\ in' = Append(in, w)
        /\ UNCHANGED <<frames, frameScheduled, out, sent, queue, quitting, synced, closed>>
    BY <1>3 DEF FrameDone, appVars, quitVars
  <2>2. SequencesInv'
    BY <2>1, CountChanges DEF SequencesInv, Events
  <2>3. \A e : Count(in', e) = Count(in, e) + IF w = e THEN 1 ELSE 0
    BY <2>1, CountChanges DEF SequencesInv, Events
  <2>4. \A e : Outstanding(e)' = Outstanding(e) /\ Expected(e)' = Expected(e)
    BY <2>1, <2>3 DEF Outstanding, Expected
  <2> QED BY <2>1, <2>2, <2>4 DEF AnswersInv
<1>4. ASSUME NEW w \in Windows, Resize(w)
      PROVE  SequencesInv' /\ AnswersInv'
  <2>1. in' = Append(in, Configure(w)) /\ Configure(w) \in Events
        /\ UNCHANGED <<frames, frameScheduled, out, sent, callbacks, queue, quitting,
                       synced, closed>>
    BY <1>4 DEF Resize, appVars, quitVars, Events
  <2>2. SequencesInv'
    BY <2>1, CountChanges DEF SequencesInv
  <2>3. ASSUME NEW e \in Requests
        PROVE  Count(in', e) = Count(in, e)
    <3>1. Count(in', e) = Count(in, e) + IF Configure(w) = e THEN 1 ELSE 0
      BY <2>1, CountChanges DEF SequencesInv
    <3>2. Configure(w) # e
      BY DEF Requests
    <3> QED BY <3>1, <3>2
  <2>4. \A e \in Requests : Outstanding(e)' = Outstanding(e) /\ Expected(e)' = Expected(e)
    BY <2>1, <2>3 DEF Outstanding, Expected
  <2> QED BY <2>1, <2>2, <2>4 DEF AnswersInv
<1> QED BY <1>1, <1>2, <1>3, <1>4 DEF Compositor

LEMMA Answers ==
  ASSUME SequencesInv, QueueInv, AnswersInv, [Next]_vars
  PROVE  SequencesInv' /\ AnswersInv'
<1>1. CASE Poll
  BY <1>1, QuietAnswers DEF Poll, PollReturns, PollFails, answerVars, appVars, wireVars,
       quitVars
<1>2. CASE EmitEvent \/ Cancel
  BY <1>2, QuietAnswers DEF EmitEvent, Cancel, answerVars, appVars, wireVars, quitVars
<1>3. ASSUME NEW w \in Windows, RequestFrame(w)
      PROVE  SequencesInv' /\ AnswersInv'
  <2>1. frames' = frames \cup {w}
        /\ UNCHANGED <<frameScheduled, out, sent, callbacks, in, queue, quitting,
                       synced, closed>>
    BY <1>3 DEF RequestFrame, wireVars, quitVars
  <2>2. SequencesInv'
    BY <2>1, FS_AddElement DEF SequencesInv
  <2>3. \A e : Outstanding(e)' = Outstanding(e) /\ Expected(e)' = Expected(e)
    BY <2>1 DEF Outstanding, Expected
  <2> QED BY <2>1, <2>2, <2>3 DEF AnswersInv
<1>4. CASE UNCHANGED vars
  BY <1>4, QuietAnswers DEF vars, answerVars
<1> QED BY <1>1, <1>2, <1>3, <1>4, HandleAnswers, SelectAnswers, CompositorAnswers
     DEF Next, Program

-----------------------------------------------------------------------------
(* The end of Run *)

\* The queue is empty unless events are being dispatched.
LEMMA QueueStep == ASSUME QueueInv, [Next]_vars PROVE QueueInv'
<1> USE DEF QueueInv
<1>1. CASE Handle
  BY <1>1 DEF Handle, Read, DispatchFrame, DispatchSync, DispatchConfigure,
       FlushConfigure, Dispatched, Flush, SkipFlush, Trigger, ServeFrames, FlushFrames
<1>2. CASE Select
  BY <1>2 DEF Select, ReturnPollError, TakeResult, Quit, Timeout, TakeToken, HandleEvent
<1>3. CASE Poll \/ Compositor \/ Program
  BY <1>3 DEF Poll, PollReturns, PollFails, Compositor, Receive, Close, FrameDone,
       Resize, Program, EmitEvent, Cancel, RequestFrame
<1>4. CASE UNCHANGED vars
  BY <1>4 DEF vars
<1> QED BY <1>1, <1>2, <1>3, <1>4 DEF Next

\* Input that poll has reported is still there when it is read: nobody else reads.
LEMMA HangupStep ==
  ASSUME SequencesInv, PollsInTurn, HangupInv, [Next]_vars PROVE HangupInv'
<1> USE DEF HangupInv
<1>1. CASE Handle
  <2> USE DEF PollsInTurn, Returned
  <2>1. CASE Read \/ Dispatched \/ Flush \/ SkipFlush
    BY <2>1 DEF Read, Dispatched, Flush, SkipFlush, Trigger, pollVars, wireVars
  <2>2. CASE DispatchFrame \/ DispatchSync \/ DispatchConfigure \/ FlushConfigure
    BY <2>2 DEF DispatchFrame, DispatchSync, DispatchConfigure, FlushConfigure,
         pollVars, wireVars
  <2>3. CASE ServeFrames \/ FlushFrames
    BY <2>3 DEF ServeFrames, FlushFrames, pollVars, wireVars
  <2> QED BY <1>1, <2>1, <2>2, <2>3 DEF Handle
<1>2. CASE Select
  BY <1>2 DEF Select, ReturnPollError, TakeResult, Quit, Timeout, TakeToken,
       HandleEvent, pollVars, wireVars
<1>3. CASE Poll
  BY <1>3 DEF Poll, PollReturns, PollFails, wireVars
<1>4. CASE Receive \/ Close
  BY <1>4, AppendProperties DEF Receive, Close, pollVars, SequencesInv, Events
<1>5. ASSUME NEW w \in Windows, FrameDone(w) \/ Resize(w)
      PROVE  HangupInv'
  BY <1>5, AppendProperties DEF FrameDone, Resize, pollVars, SequencesInv, Events
<1>6. CASE Program
  BY <1>6 DEF Program, EmitEvent, Cancel, RequestFrame, pollVars, wireVars
<1>7. CASE UNCHANGED vars
  BY <1>7 DEF vars
<1> QED BY <1>1, <1>2, <1>3, <1>4, <1>5, <1>6, <1>7 DEF Next, Compositor

\* Run shuts down in order.
LEMMA CleanEndStep ==
  ASSUME SequencesInv, AnswersInv, HangupInv, quitting => cancelled, CleanEnd,
         [Next]_vars
  PROVE  (quitting => cancelled)' /\ CleanEnd'
<1> USE DEF CleanEnd
<1>1. synced => quitting /\ Sync \notin Range(out) /\ out \in Seq(Requests)
  <2>1. Outstanding(Sync) <= Expected(Sync) /\ Expected(Sync) \in 0..1
    BY CountsAreNat DEF AnswersInv, Requests, Expected, Outstanding
  <2>2. synced => quitting /\ Count(out, Sync) = 0
    BY <2>1, CountsAreNat DEF Outstanding, Expected
  <2> QED BY <2>2, CountType DEF SequencesInv
<1>2. CASE Read
  BY <1>2 DEF Read, HangupInv, quitVars
<1>3. CASE Flush
  <2>1. PICK k \in Flushes : Flushed(k)
    BY <1>3 DEF Flush
  <2>2. synced => Sync \notin Range(out')
    <3> SUFFICES ASSUME synced
                 PROVE  Sync \notin Range(out')
      OBVIOUS
    <3>1. k \in 0..Len(out)
      BY <2>1, LenProperties DEF Flushes, SequencesInv
    <3>2. /\ Count(out, Sync) = Count(SubSeq(out, 1, k), Sync) + Count(out', Sync)
          /\ SubSeq(out, 1, k) \in Seq(Requests) /\ out' \in Seq(Requests)
      BY <2>1, <3>1, CountChanges DEF Flushed, SequencesInv
    <3>3. Count(out, Sync) = 0
      BY <1>1, CountType
    <3>4. Count(SubSeq(out, 1, k), Sync) \in Nat /\ Count(out', Sync) \in Nat
      BY <3>2, CountType
    <3>5. Count(out', Sync) = 0
      BY <3>2, <3>3, <3>4
    <3> QED BY <3>2, <3>5, CountType
  <2> QED BY <1>1, <1>3, <2>2 DEF Flush, Trigger
<1>4. CASE SkipFlush
  BY <1>1, <1>4 DEF SkipFlush, Trigger, quitVars
<1>5. CASE DispatchFrame \/ DispatchSync \/ DispatchConfigure \/ FlushConfigure
           \/ Dispatched \/ ServeFrames \/ FlushFrames
  BY <1>5 DEF DispatchFrame, DispatchSync, DispatchConfigure, FlushConfigure,
       Dispatched, ServeFrames, FlushFrames, quitVars
<1>6. CASE Select
  <2>1. CASE Quit
    BY <2>1 DEF Quit
  <2>2. CASE ReturnPollError
    BY <2>2 DEF ReturnPollError, quitVars
  <2>3. CASE TakeResult
    BY <2>3 DEF TakeResult, quitVars
  <2>4. CASE Timeout
    BY <2>4 DEF Timeout, quitVars
  <2>5. CASE TakeToken \/ HandleEvent
    BY <2>5 DEF TakeToken, HandleEvent, quitVars
  <2> QED BY <1>6, <2>1, <2>2, <2>3, <2>4, <2>5 DEF Select
<1>7. CASE Poll \/ Compositor \/ Program
  BY <1>7 DEF Poll, PollReturns, PollFails, Compositor, Receive, Close, FrameDone,
       Resize, Program, EmitEvent, Cancel, RequestFrame, quitVars, wireVars
<1>8. CASE UNCHANGED vars
  BY <1>8 DEF vars
<1> QED BY <1>2, <1>3, <1>4, <1>5, <1>6, <1>7, <1>8 DEF Next, Handle

LEMMA Inductive == Spec => []IInv
<1>1. Init => IInv
  <2> SUFFICES ASSUME Init
               PROVE  IInv
    OBVIOUS
  <2>1. SequencesInv
    BY FS_EmptySet DEF Init, SequencesInv
  <2>2. AnswersInv
    <3>1. \A e : Count(<<>>, e) = 0
      BY CountShort
    <3> QED BY <3>1 DEF Init, AnswersInv, Outstanding, Expected
  <2> QED BY <2>1, <2>2 DEF Init, IInv, QueueInv, RequestIsAnnounced, PollsInTurn,
       HangupInv, CleanEnd
<1>2. IInv /\ [Next]_vars => IInv'
  <2> SUFFICES ASSUME IInv, [Next]_vars
               PROVE  IInv'
    OBVIOUS
  <2> QED BY Answers, QueueStep, HangupStep, CleanEndStep, TurnsStep DEF IInv
<1> QED BY <1>1, <1>2, PTL DEF Spec

-----------------------------------------------------------------------------
(* The theorems *)

\* However many goroutines request frames at whatever moment, the loop learns of
\* it: the token is in the channel, or has been taken and the set not yet read
\* (RequestFrame, and the requestedFrame case of Run).
THEOREM EveryRequestAnnounced == Spec => []RequestIsAnnounced
  BY Inductive, PTL DEF IInv

\* The slice of poll descriptors has one owner at a time: the polling goroutine
\* until it has handed over a result, the event loop until it triggers the next
\* round.
THEOREM OneOwnerOfDescriptors == Spec => []PollsInTurn
  BY Inductive, PTL DEF IInv

\* Whatever the flushes wrote and in whatever order windows were resized and
\* frames requested, a window whose frameScheduled is set has exactly one frame
\* callback on its way, and the others have none (requestFrameNow, onFrame).
THEOREM OneFrameCallback == Spec => []OneCallback
<1>1. IInv => OneCallback
  <2> SUFFICES ASSUME IInv, ~closed, NEW w \in Windows
               PROVE  Count(out, w) + Count(sent, w) + Count(in, w) + Count(queue, w)
                        + (IF w \in callbacks THEN 1 ELSE 0)
                        = IF w \in frameScheduled THEN 1 ELSE 0
    BY DEF OneCallback, Count
  <2> QED BY EventLoopAssumption DEF IInv, AnswersInv, Requests, Outstanding, Expected
<1> QED BY <1>1, Inductive, PTL

\* Run returns without an error only when it was told to, and unless the
\* compositor hung up it has by then had the answer to its sync request, with
\* nothing left to write before it (the ctx.Done case, ReadEvents, and the
\* checks that leave the loop).
THEOREM OrderlyShutdown == Spec => []CleanEnd
  BY Inductive, PTL DEF IInv

=============================================================================

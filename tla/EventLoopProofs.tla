-------------------------- MODULE EventLoopProofs --------------------------
(***************************************************************************)
(* For every set of threads, functors and channels: EventLoop is typed,    *)
(* loses no wakeup and no quit, and implements TaskQueue; the handshake of *)
(* EventLoopThread hands out a loop that exists, and its destructor leaves *)
(* no thread behind.                                                       *)
(***************************************************************************)
EXTENDS EventLoopThread, SequenceTheorems, TLAPS

-----------------------------------------------------------------------------
(* The inductive invariant *)

\* The batch is empty outside the loop that runs it.
BatchInv == pc \notin {"run", "functor"} => functors = <<>>

\* callingPendingFunctors_ tells queueInLoop that the batch being run has left its
\* functor behind (TypeOK).  From the swap of one iteration to the poll of the next,
\* whoever queued after the swap owes or has delivered a wakeup; until the next
\* swap, poll included, nothing takes it back but handleRead, after poll.
WakeupInv ==
  pc \in {"outside", "while", "poll", "run", "functor"}
    => (Range(pendingFunctors_) \ early # {} => WakeupDue)

IInv == TypeOK /\ BatchInv /\ WakeupInv /\ NoLostQuit

-----------------------------------------------------------------------------
(* Lemmas about sequences *)

\* A functor pushed at the back of a queue is all that the queue gains.
LEMMA RangeAppend ==
  ASSUME NEW S, NEW s \in Seq(S), NEW e \in S
  PROVE  Range(Append(s, e)) = Range(s) \cup {e}
BY AppendProperties, LenProperties DEF Range

\* The functors of two queues put end to end.
LEMMA RangeConcat ==
  ASSUME NEW S, NEW s \in Seq(S), NEW t \in Seq(S)
  PROVE  Range(s \o t) = Range(s) \cup Range(t)
<1>1. /\ DOMAIN s = 1 .. Len(s) /\ Len(s) \in Nat
      /\ DOMAIN t = 1 .. Len(t) /\ Len(t) \in Nat
      /\ DOMAIN (s \o t) = 1 .. (Len(s) + Len(t))
  BY LenProperties, ConcatProperties
<1>2. \A i \in 1 .. Len(s) : i \in DOMAIN (s \o t) /\ (s \o t)[i] = s[i]
  BY <1>1, ConcatProperties
<1>3. \A i \in 1 .. Len(t) : /\ Len(s) + i \in DOMAIN (s \o t)
                             /\ (s \o t)[Len(s) + i] = t[i]
  BY <1>1, ConcatProperties
<1>4. Range(s) \cup Range(t) \subseteq Range(s \o t)
  BY <1>1, <1>2, <1>3 DEF Range
<1>5. ASSUME NEW i \in DOMAIN (s \o t)
      PROVE  (s \o t)[i] \in Range(s) \cup Range(t)
  <2>1. CASE i <= Len(s)
    BY <1>1, <1>2, <2>1 DEF Range
  <2>2. CASE ~(i <= Len(s))
    <3>1. i - Len(s) \in DOMAIN t /\ (s \o t)[i] = t[i - Len(s)]
      BY <1>1, <2>2, ConcatProperties
    <3> QED BY <3>1 DEF Range
  <2> QED BY <2>1, <2>2
<1> QED BY <1>4, <1>5 DEF Range

\* Taking the head of the front queue takes the head of the whole.
LEMMA HeadTailConcat ==
  ASSUME NEW S, NEW s \in Seq(S), NEW t \in Seq(S), s # <<>>
  PROVE  /\ s \o t # <<>>
         /\ Head(s \o t) = Head(s)
         /\ Tail(s \o t) = Tail(s) \o t
<1>1. /\ s \o t \in Seq(S) /\ Len(s \o t) = Len(s) + Len(t)
      /\ Len(s) \in Nat \ {0} /\ Len(t) \in Nat
  BY ConcatProperties, LenProperties, EmptySeq
<1>2. s \o t # <<>>
  BY <1>1, EmptySeq
<1>3. Head(s \o t) = Head(s)
  BY <1>1, ConcatProperties
<1>4. /\ Tail(s \o t) \in Seq(S) /\ Tail(s) \in Seq(S)
      /\ Len(Tail(s \o t)) = Len(s) + Len(t) - 1
      /\ Len(Tail(s)) = Len(s) - 1
      /\ \A i \in 1 .. (Len(s) + Len(t) - 1) : Tail(s \o t)[i] = (s \o t)[i + 1]
      /\ \A i \in 1 .. (Len(s) - 1) : Tail(s)[i] = s[i + 1]
  BY <1>1, <1>2, HeadTailProperties
<1>5. /\ Tail(s) \o t \in Seq(S)
      /\ Len(Tail(s) \o t) = Len(s) + Len(t) - 1
  BY <1>1, <1>4, ConcatProperties
<1>6. ASSUME NEW i \in 1 .. (Len(s) + Len(t) - 1)
      PROVE  Tail(s \o t)[i] = (Tail(s) \o t)[i]
  <2>1. (s \o t)[i + 1] = IF i + 1 <= Len(s) THEN s[i + 1] ELSE t[i + 1 - Len(s)]
    BY <1>1, ConcatProperties
  <2>2. (Tail(s) \o t)[i] =
          IF i <= Len(s) - 1 THEN Tail(s)[i] ELSE t[i - (Len(s) - 1)]
    BY <1>1, <1>4, ConcatProperties
  <2> QED BY <1>1, <1>4, <2>1, <2>2
<1> QED BY <1>2, <1>3, <1>4, <1>5, <1>6, SeqEqual

-----------------------------------------------------------------------------
(* Type correctness and the safety invariants *)

\* The first state
LEMMA InitIInv == Init => IInv
<1> SUFFICES ASSUME Init PROVE IInv
  OBVIOUS
<1>1. TypeOK
  BY EmptySeq DEF Init, TypeOK, PC
<1>2. Range(pendingFunctors_) = {}
  BY EmptySeq, LenProperties DEF Init, Range
<1>3. BatchInv /\ WakeupInv /\ NoLostQuit
  BY <1>2 DEF Init, BatchInv, WakeupInv, NoLostQuit
<1> QED BY <1>1, <1>3 DEF IInv

\* One step per action of the loop, of its callers and of the kernel.
LEMMA NextIInv == IInv /\ [Next]_vars => IInv'
<1> SUFFICES ASSUME IInv, [Next]_vars PROVE IInv'
  OBVIOUS
<1> USE LoopThreadAssumption, ChannelAssumption
    DEF IInv, TypeOK, BatchInv, WakeupInv, NoLostQuit, PC
<1>1. ASSUME NEW t \in Threads, NEW f \in Functors, QueueInLoop(t, f)
      PROVE  IInv'
  <2> USE DEF QueueInLoop, CanCall, InUserCode, NeedsWakeup
  <2>1. TypeOK'
    BY <1>1, AppendProperties
  <2>2. Range(pendingFunctors_') = Range(pendingFunctors_) \cup {f}
    BY <1>1, RangeAppend
  <2>3. BatchInv'
    BY <1>1
  <2>4. WakeupDue => WakeupDue'
    BY <1>1 DEF WakeupDue
  <2>5. WakeupInv'
    <3>1. CASE NeedsWakeup(t)
      BY <1>1, <3>1 DEF WakeupDue
    <3>2. CASE ~NeedsWakeup(t)
      BY <1>1, <2>2, <2>4, <3>2
    <3> QED BY <3>1, <3>2
  <2>6. NoLostQuit'
    BY <1>1, <2>4
  <2> QED BY <2>1, <2>3, <2>5, <2>6
<1>2. ASSUME NEW f \in Functors, RunInLoop(f)
      PROVE  IInv'
  BY <1>2, AppendProperties DEF RunInLoop, WakeupDue
<1>3. ASSUME NEW t \in Threads, Quit(t)
      PROVE  IInv'
  <2> USE DEF Quit, CanCall, InUserCode
  <2>1. TypeOK' /\ BatchInv'
    BY <1>3
  <2>2. WakeupDue => WakeupDue'
    BY <1>3 DEF WakeupDue
  <2>3. WakeupInv'
    BY <1>3, <2>2
  <2>4. NoLostQuit'
    BY <1>3 DEF WakeupDue
  <2> QED BY <2>1, <2>3, <2>4
<1>4. ASSUME NEW t \in Threads, Wakeup(t)
      PROVE  IInv'
  BY <1>4 DEF Wakeup, WakeupDue
<1>5. CASE Loop
  BY <1>5 DEF Loop, LoopStep, WakeupDue
<1>6. CASE WhileNotQuit
  BY <1>6 DEF WhileNotQuit, LoopStep, WakeupDue, shared
<1>7. CASE Poll
  BY <1>7 DEF Poll, LoopStep, Reported, shared
<1>8. CASE PollTimeout
  BY <1>8 DEF PollTimeout, LoopStep, shared
<1>9. CASE HandleRead
  BY <1>9 DEF HandleRead, LoopStep
<1>10. ASSUME NEW c \in Channels, HandleEvent(c)
       PROVE  IInv'
  BY <1>10 DEF HandleEvent, LoopStep
<1>11. CASE CallbackReturns
  BY <1>11 DEF CallbackReturns, LoopStep, shared
<1>12. CASE DoPendingFunctors
  BY <1>12 DEF DoPendingFunctors, LoopStep, shared
<1>13. CASE Swap
  BY <1>13, EmptySeq DEF Swap, LoopStep, Range
<1>14. CASE RunFunctor
  BY <1>14, HeadTailProperties, AppendProperties
     DEF RunFunctor, LoopStep, WakeupDue, shared
<1>15. CASE FunctorReturns
  BY <1>15 DEF FunctorReturns, LoopStep, WakeupDue, shared
<1>16. CASE DonePendingFunctors
  BY <1>16 DEF DonePendingFunctors, LoopStep, WakeupDue, shared
<1>17. ASSUME NEW c \in Channels, IOEvent(c)
       PROVE  IInv'
  BY <1>17 DEF IOEvent, WakeupDue
<1>18. CASE UNCHANGED vars
  BY <1>18 DEF vars, WakeupDue
<1> QED
  BY <1>1, <1>2, <1>3, <1>4, <1>5, <1>6, <1>7, <1>8, <1>9, <1>10, <1>11, <1>12,
     <1>13, <1>14, <1>15, <1>16, <1>17, <1>18 DEF Next, Operation, Looping

\* The inductive invariant holds in every state.
LEMMA Invariance == Spec => []IInv
BY InitIInv, NextIInv, PTL DEF Spec

\* EventLoop's variables keep their types.
THEOREM TypeCorrect == Spec => []TypeOK
BY Invariance, PTL DEF IInv

\* No wakeup is lost between a push, the swap and the poll that follows.
THEOREM WakeupNeverLost == Spec => []NoLostWakeup
<1>1. IInv => NoLostWakeup
  BY DEF IInv, WakeupInv, NoLostWakeup
<1> QED BY Invariance, <1>1, PTL

\* A quit() called while the loop runs does not leave it asleep in poll.
THEOREM QuitNeverLost == Spec => []NoLostQuit
BY Invariance, PTL DEF IInv

-----------------------------------------------------------------------------
(* EventLoop implements TaskQueue *)

\* The first state is one of the task queue.
LEMMA InitRefines == Init => Tasks!Init
BY EmptySeq, ConcatEmptySeq DEF Init, Tasks!Init

\* A functor that EventLoop has not seen is new to the queue as well.
LEMMA NewRefines ==
  ASSUME IInv, NEW f \in Functors, New(f)
  PROVE  Tasks!New(f)
BY RangeConcat DEF IInv, TypeOK, New, Range, Tasks!New, Tasks!Range

\* A push appends to the queue, RunFunctor takes its head, a swap moves nothing;
\* every other step but those that begin or end loop() is a stutter.
LEMMA NextRefines == IInv /\ [Next]_vars => [Tasks!Next]_(Tasks!vars)
<1> SUFFICES ASSUME IInv, [Next]_vars PROVE [Tasks!Next]_(Tasks!vars)
  OBVIOUS
<1> USE DEF IInv, TypeOK, BatchInv
<1>1. ASSUME NEW t \in Threads, NEW f \in Functors, QueueInLoop(t, f)
      PROVE  Tasks!Submit(f)
  <2>1. functors \o Append(pendingFunctors_, f) = Append(functors \o pendingFunctors_, f)
    BY AppendIsConcat, ConcatProperties, ConcatAssociative
  <2> QED BY <1>1, <2>1, NewRefines DEF QueueInLoop, Tasks!Submit
<1>2. ASSUME NEW f \in Functors, RunInLoop(f)
      PROVE  Tasks!RunNow(f)
  BY <1>2, NewRefines DEF RunInLoop, Tasks!RunNow
<1>3. CASE RunFunctor
  <2>1. Tasks!RunNext
    BY <1>3, HeadTailConcat DEF RunFunctor, LoopStep, shared, Tasks!RunNext
  <2> QED BY <2>1 DEF Tasks!Next
<1>4. CASE Loop
  BY <1>4 DEF Loop, LoopStep, Tasks!Next, Tasks!StartOrStop
<1>5. CASE WhileNotQuit
  <2>1. UNCHANGED <<functors, pendingFunctors_, executed>>
    BY <1>5 DEF WhileNotQuit, shared
  <2>2. CASE quit_
    BY <1>5, <2>1, <2>2 DEF WhileNotQuit, LoopStep, Tasks!Next, Tasks!StartOrStop
  <2>3. CASE ~quit_
    BY <1>5, <2>1, <2>3 DEF WhileNotQuit, LoopStep, Tasks!vars
  <2> QED BY <2>2, <2>3
<1>6. CASE Swap
  BY <1>6, ConcatEmptySeq DEF Swap, LoopStep, Tasks!vars
<1>7. ASSUME UNCHANGED <<functors, pendingFunctors_, executed>>,
             (pc # "outside") = (pc # "outside")'
      PROVE  UNCHANGED Tasks!vars
  BY <1>7 DEF Tasks!vars
<1>8. CASE \E t \in Threads : Quit(t) \/ Wakeup(t)
  BY <1>7, <1>8 DEF Quit, Wakeup
<1>9. CASE \/ Poll \/ PollTimeout \/ HandleRead \/ CallbackReturns
           \/ DoPendingFunctors \/ FunctorReturns \/ DonePendingFunctors
  BY <1>7, <1>9 DEF Poll, PollTimeout, HandleRead, CallbackReturns,
     DoPendingFunctors, FunctorReturns, DonePendingFunctors, LoopStep, shared
<1>10. CASE \E c \in Channels : HandleEvent(c) \/ IOEvent(c)
  BY <1>7, <1>10 DEF HandleEvent, IOEvent, LoopStep
<1>11. CASE UNCHANGED vars
  BY <1>7, <1>11 DEF vars
<1> QED
  BY <1>1, <1>2, <1>3, <1>4, <1>5, <1>6, <1>8, <1>9, <1>10, <1>11
     DEF Next, Operation, Looping, Tasks!Next

\* Functors run in the order they were queued, each once: EventLoop implements
\* the safety part of TaskQueue.
THEOREM ImplementsTaskQueue == Spec => RefinesTaskQueueSafety
BY Invariance, InitRefines, NextRefines, PTL
   DEF Spec, RefinesTaskQueueSafety, Tasks!SafeSpec

-----------------------------------------------------------------------------
(* EventLoopThread *)

\* loop_ is set while threadFunc is between its two critical sections, and only
\* then may the thread be inside loop().
PointerInv ==
  /\ loop_ <=> thread \in {"call", "loop"}
  /\ pc # "outside" => thread = "loop"

\* Nobody quits the loop before the destructor does, so it cannot have returned.
QuitInv ==
  /\ quit_ => owner \in {"join", "gone"}
  /\ thread = "loop" /\ pc = "outside" => owner \in {"join", "gone"}

\* There is a thread from startLoop on, and until it has ended the object is there,
\* unless it was never started.
OwnerInv ==
  /\ owner = "new" => thread = "new"
  /\ owner \in {"wait", "started", "quit", "join"} => thread # "new"
  /\ owner \in {"started", "quit"} => loop_
  /\ owner = "gone" => thread \in {"new", "done"}

EltInv == PointerInv /\ QuitInv /\ OwnerInv

\* Nothing has been started.
LEMMA InitEltInv == EltInit => EltInv
BY DEF EltInit, Init, EltInv, PointerInv, QuitInv, OwnerInv

\* A step of the loop's own thread leaves loop() only because of quit_.
LEMMA LoopingSteps ==
  ASSUME Looping
  PROVE  quit_' = quit_ /\ pc # "outside" /\ (pc' = "outside" => quit_)
BY DEF Looping, WhileNotQuit, Poll, HandleRead, HandleEvent, CallbackReturns,
       DoPendingFunctors, Swap, RunFunctor, FunctorReturns, DonePendingFunctors,
       LoopStep, shared

\* One step per action of the owner, of the thread and of those who use the loop.
LEMMA NextEltInv == EltInv /\ [EltNext]_allVars => EltInv'
<1> SUFFICES ASSUME EltInv, [EltNext]_allVars
             PROVE  EltInv'
  OBVIOUS
<1> USE DEF EltInv, PointerInv, QuitInv, OwnerInv, vars, eltVars
<1>1. CASE StartLoop
  BY <1>1 DEF StartLoop
<1>2. CASE WaitLoop \/ SpuriousWakeup
  BY <1>2 DEF WaitLoop, SpuriousWakeup
<1>3. CASE StartLoopReturns
  BY <1>3 DEF StartLoopReturns
<1>4. CASE Destructor
  BY <1>4 DEF Destructor
<1>5. CASE DestructorQuits
  BY <1>5 DEF DestructorQuits, Quit
<1>6. CASE Join
  BY <1>6 DEF Join
<1>7. CASE CallbackDone
  BY <1>7 DEF CallbackDone
<1>8. CASE Publish
  BY <1>8 DEF Publish
<1>9. CASE RunLoop
  BY <1>9 DEF RunLoop, Loop, LoopStep
<1>10. CASE LoopRuns
  BY <1>10, LoopingSteps DEF LoopRuns
<1>11. CASE Clear
  BY <1>11 DEF Clear
<1>12. CASE UnlockAndDestroyLoop
  BY <1>12 DEF UnlockAndDestroyLoop
<1>13. CASE TimeoutExpires
  BY <1>13 DEF TimeoutExpires, PollTimeout, LoopStep, shared
<1>14. CASE FinishWakeup
  BY <1>14 DEF FinishWakeup, Wakeup
<1>15. CASE Use
  BY <1>15 DEF Use, QueueInLoop, RunInLoop, IOEvent
<1>16. CASE UNCHANGED allVars
  BY <1>16 DEF allVars
<1> QED BY <1>1, <1>2, <1>3, <1>4, <1>5, <1>6, <1>7, <1>8, <1>9, <1>10, <1>11, <1>12,
           <1>13, <1>14, <1>15, <1>16 DEF EltNext, OwnerNext, ThreadNext

\* The inductive invariant holds in every state.
LEMMA EltInvariance == EltSpec => []EltInv
BY InitEltInv, NextEltInv, PTL DEF EltSpec

\* startLoop, woken by the notification or by nothing at all, returns a loop that
\* has been constructed and will not be destroyed before the destructor asks for it.
THEOREM StartLoopReturnsLoop == EltSpec => []StartLoopGivesLoop
<1>1. EltInv => StartLoopGivesLoop
  BY DEF EltInv, PointerInv, OwnerInv, StartLoopGivesLoop, LoopAlive
<1> QED BY EltInvariance, <1>1, PTL

\* The destructor detaches no thread that still runs: when it is through, the
\* thread has ended or was never there.
THEOREM ThreadEndsFirst == EltSpec => []NoThreadOutlivesObject
<1>1. EltInv => NoThreadOutlivesObject
  BY DEF EltInv, OwnerInv, NoThreadOutlivesObject
<1> QED BY EltInvariance, <1>1, PTL
=============================================================================

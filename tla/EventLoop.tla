----------------------------- MODULE EventLoop -----------------------------
(***************************************************************************)
(* apollo::EventLoop (net/eventloop.cc): one thread runs loop(); it and    *)
(* any other thread hand it functors with runInLoop and queueInLoop and    *)
(* stop it with quit.  The mutex mtx_ covers only the push and the swap of *)
(* pendingFunctors_, so a push, the write to the eventfd that follows it,  *)
(* and each step of loop() are separate actions.                           *)
(*                                                                         *)
(* Each element of Functors stands for one functor object, submitted once. *)
(* Callbacks of channels and functors are arbitrary code of the loop's     *)
(* thread: while one runs, the thread may call any operation.              *)
(***************************************************************************)
EXTENDS Sequences, Functions

CONSTANTS Threads,         \* all threads that use the loop
          LoopThread,      \* the thread that created it
          Functors,        \* functor objects
          Channels,        \* channels other than the wakeup channel
          wakeupChannel_

ASSUME LoopThreadAssumption == LoopThread \in Threads
ASSUME ChannelAssumption == wakeupChannel_ \notin Channels

VARIABLES
  quit_,
  callingPendingFunctors_,
  pendingFunctors_,
  wakeupFd_,       \* whether the eventfd's counter is positive
  ready,           \* channels whose descriptor has an event to report
  activeChannels_, \* reported by the last poll and not handled yet
  functors,        \* the local of doPendingFunctors: the batch not yet started
  pc,              \* where the loop's thread is
  call,            \* call[t]: the rest of the operation thread t is in
  executed,        \* history: functors in the order they were started
  early            \* history: functors queued by the loop's thread outside loop()

shared == <<quit_, pendingFunctors_, wakeupFd_, ready>>
vars == <<quit_, callingPendingFunctors_, pendingFunctors_, wakeupFd_, ready,
          activeChannels_, functors, pc, call, executed, early>>

PC == {"outside", "while", "poll", "events", "callback", "swap", "run", "functor"}

\* The variables' types; callingPendingFunctors_ says where the loop's thread is.
TypeOK ==
  /\ quit_ \in BOOLEAN
  /\ callingPendingFunctors_ \in BOOLEAN
  /\ pendingFunctors_ \in Seq(Functors)
  /\ wakeupFd_ \in BOOLEAN
  /\ ready \subseteq Channels
  /\ activeChannels_ \subseteq Channels \cup {wakeupChannel_}
  /\ functors \in Seq(Functors)
  /\ pc \in PC
  /\ call \in [Threads -> {"none", "wakeup"}]
  /\ executed \in Seq(Functors)
  /\ early \subseteq Functors
  /\ callingPendingFunctors_ <=> pc \in {"swap", "run", "functor"}

Init ==
  /\ quit_ = FALSE
  /\ callingPendingFunctors_ = FALSE
  /\ pendingFunctors_ = <<>>
  /\ wakeupFd_ = FALSE
  /\ ready = {}
  /\ activeChannels_ = {}
  /\ functors = <<>>
  /\ pc = "outside"
  /\ call = [t \in Threads |-> "none"]
  /\ executed = <<>>
  /\ early = {}

-----------------------------------------------------------------------------
(* Operations any thread may call *)

\* The loop's thread runs code of its user: before or after loop(), or in a
\* callback of a channel, or in a functor.
InUserCode == pc \in {"outside", "callback", "functor"}

CanCall(t) == call[t] = "none" /\ (t = LoopThread => InUserCode)

New(f) == f \notin Range(pendingFunctors_) \cup Range(functors) \cup Range(executed)

\* Mutant: only calls from other threads wake the loop.
NeedsWakeupMutant(t) == t # LoopThread

\* queueInLoop pushes under mtx_ and then decides whether to call wakeup().
NeedsWakeup(t) == t # LoopThread \/ callingPendingFunctors_

QueueInLoop(t, f) ==
  /\ CanCall(t)
  /\ New(f)
  /\ pendingFunctors_' = Append(pendingFunctors_, f)
  /\ call' = [call EXCEPT ![t] = IF NeedsWakeup(t) THEN "wakeup" ELSE "none"]
  /\ early' = IF t = LoopThread /\ pc = "outside" THEN early \cup {f} ELSE early
  /\ UNCHANGED <<quit_, callingPendingFunctors_, wakeupFd_, ready,
                 activeChannels_, functors, pc, executed>>

\* runInLoop in the loop's thread; in another thread it is QueueInLoop.
RunInLoop(f) ==
  /\ CanCall(LoopThread)
  /\ New(f)
  /\ executed' = Append(executed, f)
  /\ UNCHANGED <<quit_, callingPendingFunctors_, pendingFunctors_, wakeupFd_,
                 ready, activeChannels_, functors, pc, call, early>>

\* Mutant: quit() does not wake the loop.
QuitMutant(t) ==
  /\ CanCall(t)
  /\ quit_' = TRUE
  /\ UNCHANGED <<callingPendingFunctors_, pendingFunctors_, wakeupFd_, ready,
                 activeChannels_, functors, pc, call, executed, early>>

Quit(t) ==
  /\ CanCall(t)
  /\ quit_' = TRUE
  /\ call' = [call EXCEPT ![t] = IF t # LoopThread THEN "wakeup" ELSE "none"]
  /\ UNCHANGED <<callingPendingFunctors_, pendingFunctors_, wakeupFd_, ready,
                 activeChannels_, functors, pc, executed, early>>

\* wakeup(): the write to the eventfd, the last step of queueInLoop and quit.
Wakeup(t) ==
  /\ call[t] = "wakeup"
  /\ wakeupFd_' = TRUE
  /\ call' = [call EXCEPT ![t] = "none"]
  /\ UNCHANGED <<quit_, callingPendingFunctors_, pendingFunctors_, ready,
                 activeChannels_, functors, pc, executed, early>>

-----------------------------------------------------------------------------
(* The steps of loop() *)

\* The loop's thread takes a step of its own only between two operations.
LoopStep(from, to) == pc = from /\ pc' = to /\ call[LoopThread] = "none"

Loop ==
  /\ LoopStep("outside", "while")
  /\ quit_' = FALSE
  /\ UNCHANGED <<callingPendingFunctors_, pendingFunctors_, wakeupFd_, ready,
                 activeChannels_, functors, call, executed, early>>

\* activeChannels_ holds what is still to handle, so clear() changes nothing.
WhileNotQuit ==
  /\ LoopStep("while", IF quit_ THEN "outside" ELSE "poll")
  /\ UNCHANGED <<shared, callingPendingFunctors_, activeChannels_, functors,
                 call, executed, early>>

Reported == ready \cup (IF wakeupFd_ THEN {wakeupChannel_} ELSE {})

\* poller_->poll returns with events to report ...
Poll ==
  /\ LoopStep("poll", "events")
  /\ Reported # {}
  /\ activeChannels_' = Reported
  /\ UNCHANGED <<shared, callingPendingFunctors_, functors, call, executed, early>>

\* Mutant: a poll with nothing to report is begun again at once.
PollTimeoutMutant ==
  /\ LoopStep("poll", "while")
  /\ Reported = {}
  /\ UNCHANGED <<shared, callingPendingFunctors_, activeChannels_, functors,
                 call, executed, early>>

\* ... or with none after kPollTimeMs.
PollTimeout ==
  /\ LoopStep("poll", "events")
  /\ Reported = {}
  /\ UNCHANGED <<shared, callingPendingFunctors_, activeChannels_, functors,
                 call, executed, early>>

\* The wakeup channel's callback reads the eventfd, which resets its counter.
HandleRead ==
  /\ LoopStep("events", "events")
  /\ wakeupChannel_ \in activeChannels_
  /\ activeChannels_' = activeChannels_ \ {wakeupChannel_}
  /\ wakeupFd_' = FALSE
  /\ UNCHANGED <<quit_, callingPendingFunctors_, pendingFunctors_, ready,
                 functors, call, executed, early>>

\* handleEvent of another channel: its callback runs, which consumes the event.
HandleEvent(c) ==
  /\ LoopStep("events", "callback")
  /\ c \in activeChannels_ \ {wakeupChannel_}
  /\ activeChannels_' = activeChannels_ \ {c}
  /\ ready' = ready \ {c}
  /\ UNCHANGED <<quit_, callingPendingFunctors_, pendingFunctors_, wakeupFd_,
                 functors, call, executed, early>>

CallbackReturns ==
  /\ LoopStep("callback", "events")
  /\ UNCHANGED <<shared, callingPendingFunctors_, activeChannels_, functors,
                 call, executed, early>>

\* doPendingFunctors, up to the lock
DoPendingFunctors ==
  /\ LoopStep("events", "swap")
  /\ activeChannels_ = {}
  /\ callingPendingFunctors_' = TRUE
  /\ UNCHANGED <<shared, activeChannels_, functors, call, executed, early>>

Swap ==
  /\ LoopStep("swap", "run")
  /\ functors' = pendingFunctors_
  /\ pendingFunctors_' = <<>>
  /\ UNCHANGED <<quit_, callingPendingFunctors_, wakeupFd_, ready,
                 activeChannels_, call, executed, early>>

\* Mutant: the batch is run from its back.
RunFunctorMutant ==
  /\ LoopStep("run", "functor")
  /\ functors # <<>>
  /\ executed' = Append(executed, functors[Len(functors)])
  /\ functors' = SubSeq(functors, 1, Len(functors) - 1)
  /\ UNCHANGED <<shared, callingPendingFunctors_, activeChannels_, call, early>>

RunFunctor ==
  /\ LoopStep("run", "functor")
  /\ functors # <<>>
  /\ executed' = Append(executed, Head(functors))
  /\ functors' = Tail(functors)
  /\ UNCHANGED <<shared, callingPendingFunctors_, activeChannels_, call, early>>

FunctorReturns ==
  /\ LoopStep("functor", "run")
  /\ UNCHANGED <<shared, callingPendingFunctors_, activeChannels_, functors,
                 call, executed, early>>

\* Mutant: the eventfd is drained once the batch has run.
DonePendingFunctorsMutant ==
  /\ LoopStep("run", "while")
  /\ functors = <<>>
  /\ callingPendingFunctors_' = FALSE
  /\ wakeupFd_' = FALSE
  /\ UNCHANGED <<quit_, pendingFunctors_, ready, activeChannels_, functors,
                 call, executed, early>>

DonePendingFunctors ==
  /\ LoopStep("run", "while")
  /\ functors = <<>>
  /\ callingPendingFunctors_' = FALSE
  /\ UNCHANGED <<shared, activeChannels_, functors, call, executed, early>>

\* The kernel: a descriptor becomes ready.
IOEvent(c) ==
  /\ c \notin ready
  /\ ready' = ready \cup {c}
  /\ UNCHANGED <<quit_, callingPendingFunctors_, pendingFunctors_, wakeupFd_,
                 activeChannels_, functors, pc, call, executed, early>>

-----------------------------------------------------------------------------
\* What loop() itself does, once called
Looping == \/ WhileNotQuit \/ Poll \/ HandleRead
           \/ \E c \in Channels : HandleEvent(c)
           \/ CallbackReturns \/ DoPendingFunctors \/ Swap
           \/ RunFunctor \/ FunctorReturns \/ DonePendingFunctors

Operation(t) == \/ \E f \in Functors : QueueInLoop(t, f)
                \/ Quit(t)
                \/ Wakeup(t)

Next == \/ \E t \in Threads : Operation(t)
        \/ \E f \in Functors : RunInLoop(f)
        \/ Loop
        \/ Looping
        \/ PollTimeout
        \/ \E c \in Channels : IOEvent(c)

Spec == Init /\ [][Next]_vars

\* A thread that has begun an operation completes it and callbacks return; the
\* loop's thread is scheduled.  Nothing obliges poll to time out: what holds
\* here does not wait for kPollTimeMs.
FairSpec == Spec /\ WF_vars(Looping) /\ \A t \in Threads : WF_vars(Wakeup(t))

-----------------------------------------------------------------------------
(* Properties *)

\* A wakeup is on its way to poll, or has arrived.
WakeupDue == wakeupFd_ \/ \E t \in Threads : call[t] = "wakeup"

\* No lost wakeup: the loop never goes to sleep in poll over a functor another
\* thread, a callback or a functor queued, unless the wakeup for it is due.
\* queueInLoop pushes and writes the eventfd in two steps and doPendingFunctors
\* swaps between them; what it has skipped, the second condition of
\* eventloop.cc:123 must cover.
NoLostWakeup ==
  pc = "poll" /\ Range(pendingFunctors_) \ early # {} => WakeupDue

\* Nor does it go to sleep over a quit() called since loop() began.
NoLostQuit == pc = "poll" /\ quit_ => WakeupDue

\* The code implements TaskQueue: the batch doPendingFunctors has taken comes
\* before what is pending; nothing is lost, run twice or out of order.
Tasks == INSTANCE TaskQueue WITH queue <- functors \o pendingFunctors_,
                                 looping <- pc # "outside"
RefinesTaskQueueSafety == Tasks!SafeSpec

\* It implements TaskQueue's fairness too if poll does time out: then even what
\* the loop's thread queued before loop() is run.
RefinesTaskQueueFairness == WF_vars(PollTimeout) => Tasks!Fairness

\* A functor queued by another thread, a callback or a functor runs without
\* poll having to time out, unless the loop is not running.
PromptRun ==
  \A f \in Functors :
    f \in Range(pendingFunctors_) \ early ~> (f \in Range(executed) \/ pc = "outside")

\* A quit() called while the loop runs makes loop() return, without a timeout.
QuitReturns == quit_ /\ pc # "outside" ~> pc = "outside"
=============================================================================

-------------------------- MODULE EventLoopThread --------------------------
(***************************************************************************)
(* apollo::EventLoopThread (net/eventloopthread.cc): an object that starts *)
(* a thread, waits until that thread has published the EventLoop it keeps  *)
(* on its stack, and on destruction quits that loop and joins the thread.  *)
(* The loop itself is EventLoop, LoopThread its thread.                    *)
(*                                                                         *)
(* mtx_ guards loop_ in startLoop and threadFunc, so each critical section *)
(* is one action, save the last, which the destructor can overlap; the     *)
(* destructor reads loop_ without it.  Nothing but the destructor quits     *)
(* such a loop: no code of the repository does.                            *)
(***************************************************************************)
EXTENDS EventLoop

CONSTANT Owner       \* the thread that owns the EventLoopThread

ASSUME OwnerAssumption == Owner \in Threads \ {LoopThread}

VARIABLES
  loop_,     \* whether the pointer is set
  asleep,    \* whether the owner sleeps in cond_.wait
  thread,    \* where threadFunc is
  owner      \* where the owner is

eltVars == <<loop_, asleep, thread, owner>>
allVars == <<vars, eltVars>>

\* A thread uses the loop only between startLoop and the destructor.
EltTypeOK ==
  /\ TypeOK
  /\ loop_ \in BOOLEAN
  /\ asleep \in BOOLEAN
  /\ thread \in {"new", "callback", "publish", "call", "loop",
                "unlock", "done"}
  /\ owner \in {"new", "wait", "started", "quit", "join", "gone"}
  /\ asleep => owner = "wait"
  /\ pc # "outside" => thread = "loop"

EltInit == /\ Init
           /\ loop_ = FALSE
           /\ asleep = FALSE
           /\ thread = "new"
           /\ owner = "new"

\* The EventLoop on threadFunc's stack is constructed and not yet destroyed.
LoopAlive == thread \notin {"new", "done"}

-----------------------------------------------------------------------------
(* The owner *)

\* thread_.start() returns once the new thread runs.
StartLoop ==
  /\ owner = "new"
  /\ owner' = "wait"
  /\ thread' = "callback"
  /\ UNCHANGED <<vars, loop_, asleep>>

\* The body of startLoop's while: wait() releases mtx_ and sleeps at once.
WaitLoop ==
  /\ owner = "wait" /\ ~asleep
  /\ ~loop_
  /\ asleep' = TRUE
  /\ UNCHANGED <<vars, loop_, thread, owner>>

\* wait() may also return by itself.
SpuriousWakeup ==
  /\ asleep
  /\ asleep' = FALSE
  /\ UNCHANGED <<vars, loop_, thread, owner>>

\* Mutant: an if in place of the while, so that no second look is taken.
StartLoopReturnsMutant ==
  /\ owner = "wait" /\ ~asleep
  /\ owner' = "started"
  /\ UNCHANGED <<vars, loop_, asleep, thread>>

StartLoopReturns ==
  /\ owner = "wait" /\ ~asleep
  /\ loop_
  /\ owner' = "started"
  /\ UNCHANGED <<vars, loop_, asleep, thread>>

\* The destructor looks at loop_, once nobody is inside the loop's operations;
\* if it is null the thread, if any, is detached.
Destructor ==
  /\ owner \in {"new", "started"}
  /\ \A t \in Threads \ {LoopThread} : call[t] = "none"
  /\ owner' = IF loop_ THEN "quit" ELSE "gone"
  /\ UNCHANGED <<vars, loop_, asleep, thread>>

\* Mutant: the loop is not told to quit.
DestructorQuitsMutant ==
  /\ owner = "quit"
  /\ owner' = "join"
  /\ UNCHANGED <<vars, loop_, asleep, thread>>

DestructorQuits ==
  /\ owner = "quit"
  /\ Quit(Owner)
  /\ owner' = "join"
  /\ UNCHANGED <<loop_, asleep, thread>>

\* Mutant: the thread is detached, not joined.
JoinMutant ==
  /\ owner = "join"
  /\ call[Owner] = "none"
  /\ owner' = "gone"
  /\ UNCHANGED <<vars, loop_, asleep, thread>>

Join ==
  /\ owner = "join"
  /\ call[Owner] = "none"
  /\ thread = "done"
  /\ owner' = "gone"
  /\ UNCHANGED <<vars, loop_, asleep, thread>>

-----------------------------------------------------------------------------
(* threadFunc *)

\* callback_, if there is one, has been given the loop and returns.
CallbackDone ==
  /\ thread = "callback"
  /\ thread' = "publish"
  /\ UNCHANGED <<vars, loop_, asleep, owner>>

\* Mutant: the pointer is set and nobody notified.
PublishMutant ==
  /\ thread = "publish"
  /\ loop_' = TRUE
  /\ thread' = "call"
  /\ UNCHANGED <<vars, asleep, owner>>

\* loop_ = &loop and notify_one
Publish ==
  /\ thread = "publish"
  /\ loop_' = TRUE
  /\ asleep' = FALSE
  /\ thread' = "call"
  /\ UNCHANGED <<vars, owner>>

\* loop.loop() begins ...
RunLoop ==
  /\ thread = "call"
  /\ Loop
  /\ thread' = "loop"
  /\ UNCHANGED <<loop_, asleep, owner>>

\* ... and after it has returned the pointer is cleared under mtx_, ...
Clear ==
  /\ thread = "loop" /\ pc = "outside"
  /\ loop_' = FALSE
  /\ thread' = "unlock"
  /\ UNCHANGED <<vars, asleep, owner>>

\* ... then mtx_ released and the loop destroyed.
UnlockAndDestroyLoop ==
  /\ thread = "unlock"
  /\ thread' = "done"
  /\ UNCHANGED <<vars, loop_, asleep, owner>>

-----------------------------------------------------------------------------
\* Threads other than the loop's use it between startLoop and the destructor.
MayUse(t) == IF t = LoopThread THEN thread = "callback" \/ pc # "outside"
                               ELSE owner = "started"

Use == /\ \/ \E t \in Threads, f \in Functors : MayUse(t) /\ QueueInLoop(t, f)
          \/ \E f \in Functors : MayUse(LoopThread) /\ RunInLoop(f)
          \/ \E c \in Channels : LoopAlive /\ IOEvent(c)
       /\ UNCHANGED eltVars

FinishWakeup == (\E t \in Threads : Wakeup(t)) /\ UNCHANGED eltVars

LoopRuns == Looping /\ UNCHANGED eltVars

TimeoutExpires == PollTimeout /\ UNCHANGED eltVars

OwnerNext == WaitLoop \/ StartLoopReturns \/ DestructorQuits \/ Join

ThreadNext == CallbackDone \/ Publish \/ RunLoop \/ LoopRuns \/ Clear
              \/ UnlockAndDestroyLoop

EltNext == \/ StartLoop \/ Destructor \/ SpuriousWakeup \/ OwnerNext
           \/ ThreadNext \/ TimeoutExpires \/ FinishWakeup \/ Use

\* Both threads are scheduled; the owner need not start the loop or destroy the
\* object, and neither poll's timeout nor a spurious wakeup is relied upon.
EltSpec == /\ EltInit /\ [][EltNext]_allVars
           /\ WF_allVars(OwnerNext) /\ WF_allVars(ThreadNext)
           /\ WF_allVars(FinishWakeup)

-----------------------------------------------------------------------------
(* Properties *)

\* startLoop returns a loop, and one that is still there: the handshake on mtx_
\* and cond_ gives out neither a null pointer nor a dangling one.
StartLoopGivesLoop == owner = "started" => loop_ /\ LoopAlive

\* The handshake does not miss the notification: startLoop returns.
StartLoopTerminates == owner = "wait" ~> owner = "started"

\* Once the destructor of a started object is through, the thread has ended: it
\* touches neither mtx_ nor loop_ of an object that is gone.
NoThreadOutlivesObject == owner = "gone" => thread \in {"new", "done"}

\* A destructor that finds the loop running ends.
DestructorEndsRunningLoop == owner = "quit" /\ pc # "outside" ~> owner = "gone"

\* What eventloop.cc:94 says of a quit() from another thread: the loop is woken
\* and quits.  If loop() has not begun its first line takes the quit back, and
\* the destructor waits in join.
QuitFromOwnerQuits == owner = "join" ~> owner = "gone"
=============================================================================
